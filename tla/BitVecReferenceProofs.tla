----------------------- MODULE BitVecReferenceProofs -----------------------
(***************************************************************************)
(* Theorems on BitVecReference and LimbVecReference: the operations of     *)
(* btorsimbv.c have the values their textbook definitions give them, and   *)
(* those on limbs the values of those on numbers, for vectors of all       *)
(* widths; constants are read and printed as the numbers they are.         *)
(*                                                                         *)
(* MaxBitWidth bounds the powers of two that PowersAssumption speaks of;   *)
(* a concatenation of two operands is the widest number that occurs.       *)
(***************************************************************************)
EXTENDS LimbVecReference, Btor2Lemmas

\* Two operands of a width.
Operands == w \in 1 .. MaxWidth /\ a \in Values(w) /\ b \in Values(w)

LEMMA OperandsInvariant == 1 <= MaxBitWidth => (Spec => []Operands)
<1> SUFFICES ASSUME 1 <= MaxBitWidth PROVE Spec => []Operands
  OBVIOUS
<1>1. Init => Operands
  <2>1. 1 \in 1 .. MaxWidth /\ 0 \in {0, 1}
    BY MaxWidthAssumption
  <2> QED
    BY <2>1, Bits DEF Init, Operands
<1>2. Operands /\ [Next]_vars => Operands'
  BY DEF Operands, Next, vars
<1> QED
  BY <1>1, <1>2, PTL DEF Spec

\* Every operation leaves the unused bits of its result zero, for operands of any
\* width: set_rem_bits_to_zero and the masks are where they are needed.
THEOREM ResultsAlwaysFit ==
    ASSUME MaxWidth <= MaxBitWidth PROVE Spec => []ResultsFit
<1>1. Operands => ResultsFit
  <2> SUFFICES ASSUME Operands PROVE ResultsFit
    OBVIOUS
  <2>1. w \in 1 .. MaxBitWidth /\ a \in Values(w) /\ b \in Values(w)
    BY MaxWidthAssumption, MaxBitWidthAssumption DEF Operands
  <2>2. /\ bv_not(w, a) \in Values(w) /\ bv_neg(w, a) \in Values(w)
        /\ bv_inc(w, a) \in Values(w) /\ bv_dec(w, a) \in Values(w)
        /\ bv_add(w, a, b) \in Values(w) /\ bv_sub(w, a, b) \in Values(w)
        /\ bv_mul(w, a, b) \in Values(w)
    BY <2>1, ArithmeticFits
  <2>3. /\ bv_and(w, a, b) \in Values(w) /\ bv_or(w, a, b) \in Values(w)
        /\ bv_xor(w, a, b) \in Values(w) /\ bv_nand(w, a, b) \in Values(w)
        /\ bv_nor(w, a, b) \in Values(w) /\ bv_xnor(w, a, b) \in Values(w)
        /\ bv_implies(w, a, b) \in Values(w)
    BY <2>1, BitwiseFits
  <2>4. /\ bv_udiv(w, a, b) \in Values(w) /\ bv_urem(w, a, b) \in Values(w)
        /\ bv_sdiv(w, a, b) \in Values(w) /\ bv_srem(w, a, b) \in Values(w)
        /\ bv_smod(w, a, b) \in Values(w)
    BY <2>1, DivisionFits
  <2>5. /\ bv_sll(w, a, b) \in Values(w) /\ bv_srl(w, a, b) \in Values(w)
        /\ bv_sra(w, a, b) \in Values(w)
        /\ bv_rol(w, a, b) \in Values(w) /\ bv_ror(w, a, b) \in Values(w)
    BY <2>1, ShiftsFit
  <2>6. \A x \in {bv_redand(w, a), bv_redor(w, a), bv_redxor(w, a), bv_ult(a, b),
                  bv_ulte(a, b), bv_slt(w, a, b), bv_slte(w, a, b)} : x \in Values(1)
    BY <2>1, Bits, ComparisonsFit
  <2> QED
    BY <2>2, <2>3, <2>4, <2>5, <2>6, Zenon DEF ResultsFit
<1>2. 1 <= MaxBitWidth
  BY MaxWidthAssumption, MaxBitWidthAssumption
<1> QED
  BY <1>1, <1>2, OperandsInvariant, PTL

----------------------------------------------------------------------------
(* Subtraction and rotation.                                               *)

\* Rotations by at most the width are rotations, for all widths that a uint32_t
\* can hold.
THEOREM RotationsRotate ==
    ASSUME 2 * MaxWidth <= MaxBitWidth, MaxWidth < 2 ^ WordBits
    PROVE  Spec => []RotationBelowWidth
<1>0. MaxWidth \in Nat \ {0} /\ MaxBitWidth \in Nat /\ 2 ^ WordBits \in Nat
  BY MaxWidthAssumption, MaxBitWidthAssumption, WordBitsAssumption
<1>1. Operands => RotationBelowWidth
  <2> SUFFICES ASSUME Operands, b <= w PROVE Rotation
    BY DEF RotationBelowWidth
  <2>1. /\ w \in 1 .. MaxBitWidth /\ a \in Values(w) /\ b \in Values(w)
        /\ 2 * w <= MaxBitWidth /\ w < 2 ^ WordBits
    BY <1>0 DEF Operands
  <2> QED
    BY <2>1, BitsOfRotations DEF Rotation
<1>2. 1 <= MaxBitWidth
  BY <1>0
<1> QED
  BY <1>1, <1>2, OperandsInvariant, PTL

----------------------------------------------------------------------------
(* Signed numbers.                                                         *)

\* The powers of two around the sign bit.
Half == 2 ^ (w - 1)

LEMMA Halves ==
    ASSUME w \in 1 .. MaxBitWidth
    PROVE  Half \in Nat \ {0} /\ 2 ^ w = 2 * Half /\ Values(w) = 0 .. 2 * Half - 1
<1> DEFINE m == w - 1
<1>1. m \in 0 .. MaxBitWidth /\ m \in 0 .. MaxBitWidth + 1 /\ w = m + 1
  BY MaxBitWidthAssumption
<1> HIDE DEF m
<1>2. 2 ^ m \in Nat \ {0} /\ 2 ^ (m + 1) = 2 * 2 ^ m
  BY <1>1, Powers, PowersAssumption
<1>3. Half = 2 ^ m
  BY DEF Half, m
<1> QED
  BY <1>1, <1>2, <1>3 DEF Values

\* The sign bit tells the two halves of the numbers apart, and the signed number is
\* the same or 2^w less.
LEMMA SignBit ==
    ASSUME w \in 1 .. MaxBitWidth, NEW x \in Values(w)
    PROVE  /\ x \in 0 .. 2 * Half - 1
           /\ Sign(w, x) = IF x >= Half THEN 1 ELSE 0
           /\ Signed(x) = IF x >= Half THEN x - 2 * Half ELSE x
           /\ Signed(x) \in -Half .. Half - 1
           /\ Signed(x) < 0 <=> x >= Half
           /\ x % (2 * Half) = x
<1>1. Half \in Nat \ {0} /\ 2 ^ w = 2 * Half /\ x \in 0 .. 2 * Half - 1
  BY Halves
<1>2. Sign(w, x) = (x \div Half) % 2
  BY DEF Sign, Bit, Half
<1>3. Signed(x) = IF x >= Half THEN x - 2 * Half ELSE x
  BY <1>1 DEF Signed, Half
<1> DEFINE h == Half
<1>4. h \in Nat \ {0} /\ x \in 0 .. 2 * h - 1
  BY <1>1
<1> HIDE DEF h
<1>5. (x \div h) % 2 = IF x >= h THEN 1 ELSE 0
  <2>1. CASE x >= h
    <3>1. x = 1 * h + (x - h) /\ x - h \in 0 .. h - 1 /\ x \in Int
      BY <1>4, <2>1
    <3> DEFINE r == x - h
    <3>2. r \in 0 .. h - 1 /\ x = 1 * h + r
      BY <3>1
    <3> HIDE DEF r
    <3>3. x \div h = 1
      BY <1>4, <3>1, <3>2, QuotientAndRest
    <3> QED
      BY <2>1, <3>3
  <2>2. CASE ~(x >= h)
    <3>1. x = 0 * h + x /\ x \in 0 .. h - 1 /\ x \in Int
      BY <1>4, <2>2
    <3>2. x \div h = 0
      BY <1>4, <3>1, QuotientAndRest
    <3> QED
      BY <2>2, <3>2
  <2> QED
    BY <2>1, <2>2
<1>6. x % (2 * h) = x
  <2> DEFINE d == 2 * h
  <2>1. d \in Nat \ {0} /\ x \in 0 .. d - 1
    BY <1>4
  <2> HIDE DEF d
  <2>2. x % d = x
    BY <2>1, RestNearby
  <2> QED
    BY <2>2 DEF d
<1>7. /\ Sign(w, x) = IF x >= h THEN 1 ELSE 0
      /\ Signed(x) = IF x >= h THEN x - 2 * h ELSE x
  BY <1>2, <1>3, <1>5 DEF h
<1>8. /\ Signed(x) \in -h .. h - 1
      /\ Signed(x) < 0 <=> x >= h
  BY <1>4, <1>7
<1> QED
  BY <1>4, <1>6, <1>7, <1>8 DEF h

\* The comparisons by signs.
LEMMA SignedOrder ==
    ASSUME w \in 1 .. MaxBitWidth, a \in Values(w), b \in Values(w)
    PROVE  /\ bv_slt(w, a, b)  = Truth(Signed(a) < Signed(b))
           /\ bv_slte(w, a, b) = Truth(Signed(a) <= Signed(b))
<1>1. /\ a \in 0 .. 2 * Half - 1 /\ b \in 0 .. 2 * Half - 1 /\ Half \in Nat
      /\ Sign(w, a) = (IF a >= Half THEN 1 ELSE 0)
      /\ Signed(a) = (IF a >= Half THEN a - 2 * Half ELSE a)
      /\ Sign(w, b) = (IF b >= Half THEN 1 ELSE 0)
      /\ Signed(b) = (IF b >= Half THEN b - 2 * Half ELSE b)
  BY SignBit, Halves
<1>2. CASE Sign(w, a) = Sign(w, b)
  <2>1. bv_slt(w, a, b) = Truth(a < b) /\ bv_slte(w, a, b) = Truth(a <= b)
    BY <1>2 DEF bv_slt, bv_slte, bv_ult, bv_ulte
  <2>2. (a < b <=> Signed(a) < Signed(b)) /\ (a <= b <=> Signed(a) <= Signed(b))
    BY <1>1, <1>2
  <2> QED
    BY <2>1, <2>2 DEF Truth
<1>3. CASE Sign(w, a) # Sign(w, b)
  <2>1. /\ bv_slt(w, a, b) = Truth(Sign(w, a) = 1)
        /\ bv_slte(w, a, b) = Truth(Sign(w, a) = 1)
    BY <1>3 DEF bv_slt, bv_slte
  <2>2. /\ Sign(w, a) = 1 <=> Signed(a) < Signed(b)
        /\ Sign(w, a) = 1 <=> Signed(a) <= Signed(b)
    BY <1>1, <1>3
  <2> QED
    BY <2>1, <2>2 DEF Truth
<1> QED
  BY <1>2, <1>3

\* The arithmetic right shift rounds down.
LEMMA ArithmeticShift ==
    ASSUME w \in 1 .. MaxBitWidth, a \in Values(w), b \in Values(w)
    PROVE  bv_sra(w, a, b) = Fit(w, Signed(a) \div 2 ^ Min({b, w}))
<1> DEFINE k == Min({b, w})
           d == 2 ^ k
           p == 2 ^ w
<1>1. w \in Nat /\ b \in Nat /\ a \in Nat /\ k = IF b < w THEN b ELSE w
  <2>1. w \in Nat /\ b \in Nat /\ a \in Nat
    BY ValuesOf
  <2> DEFINE m == IF b < w THEN b ELSE w
  <2>2. m \in {b, w} /\ (\A y \in {b, w} : m <= y)
        /\ \A x \in {b, w} : (\A y \in {b, w} : x <= y) => x = m
    BY <2>1
  <2> HIDE DEF m
  <2>3. Min({b, w}) = m
    BY <2>2 DEF Min
  <2> QED
    BY <2>1, <2>3 DEF m
<1>2. d \in Nat \ {0} /\ p \in Nat \ {0} /\ p = 2 * Half /\ Half \in Nat \ {0}
  <2>1. k \in 0 .. MaxBitWidth + 1
    BY <1>1, MaxBitWidthAssumption
  <2> HIDE DEF k
  <2> QED
    BY <2>1, Powers, ValuesOf, Halves
<1>3. ASSUME NEW x \in 0 .. p - 1
      PROVE  bv_srl(w, x, b) = x \div d /\ x \div d \in 0 .. p - 1
  <2>1. CASE b < w
    <3>1. x \in Nat
      BY <1>2
    <3>2. x \div d \in 0 .. x
      <4> HIDE DEF d
      <4> QED
        BY <1>2, <3>1, DivMod
    <3> QED
      BY <1>1, <1>2, <2>1, <3>2 DEF bv_srl
  <2>2. CASE ~(b < w)
    <3>1. d = p /\ bv_srl(w, x, b) = 0
      BY <1>1, <2>2 DEF bv_srl
    <3>2. x = 0 * p + x /\ x \in Int
      BY <1>2
    <3> HIDE DEF d, p
    <3>3. x \div p = 0
      BY <1>2, <3>2, QuotientAndRest
    <3> QED
      BY <1>2, <3>1, <3>3
  <2> QED
    BY <2>1, <2>2
<1>4. /\ a \in 0 .. p - 1
      /\ Sign(w, a) = (IF a >= Half THEN 1 ELSE 0)
      /\ Signed(a) = (IF a >= Half THEN a - p ELSE a)
  BY <1>2, SignBit
<1>5. \A n : Fit(w, n) = n % p /\ bv_not(w, n) = p - 1 - n
  BY DEF Fit, bv_not
<1> HIDE DEF k, d, p
<1>6. CASE ~(a >= Half)
  <2>1. bv_sra(w, a, b) = a \div d /\ Signed(a) = a
    BY <1>3, <1>4, <1>6 DEF bv_sra
  <2>2. (a \div d) % p = a \div d
    BY <1>2, <1>3, <1>4, RestNearby
  <2> QED
    BY <1>5, <2>1, <2>2 DEF d, k
<1>7. CASE a >= Half
  <2> DEFINE c == p - 1 - a
             q == c \div d
  <2>1. c \in 0 .. p - 1 /\ c \in Nat /\ Signed(a) = -1 - c
    BY <1>2, <1>4, <1>7
  <2> HIDE DEF c
  <2>2. bv_srl(w, c, b) = q /\ q \in 0 .. p - 1
    BY <1>3, <2>1
  <2>3. bv_sra(w, a, b) = p - 1 - q
    <3>1. bv_sra(w, a, b) = bv_not(w, bv_srl(w, bv_not(w, a), b))
      BY <1>4, <1>7 DEF bv_sra
    <3>2. bv_not(w, a) = c
      BY <1>5 DEF c
    <3> QED
      BY <1>5, <2>2, <3>1, <3>2
  <2>4. Signed(a) \div d = -1 - q
    BY <1>2, <2>1, FloorOfNegative
  <2> HIDE DEF q
  <2>5. (-1 - q) % p = p - 1 - q
    <3>1. p - 1 - q \in 0 .. p - 1 /\ (p - 1 - q) - p = -1 - q
      BY <1>2, <2>2
    <3>2. ((p - 1 - q) - p) % p = p - 1 - q
      BY <1>2, <3>1, RestNearby
    <3> QED
      BY <3>1, <3>2
  <2> QED
    BY <1>5, <2>3, <2>4, <2>5 DEF d, k
<1> QED
  BY <1>6, <1>7

\* An extension by copies of the sign bit keeps the signed number.
LEMMA SignExtension ==
    ASSUME w \in 1 .. MaxBitWidth, a \in Values(w), NEW len \in 1 .. w,
           w + len <= MaxBitWidth
    PROVE  bv_sext(w, a, len) = (2 ^ (w + len) + Signed(a)) % 2 ^ (w + len)
<1> DEFINE p == 2 ^ w
           e == 2 ^ len
           f == 2 ^ (w + len)
<1>1. /\ p \in Nat \ {0} /\ e \in Nat \ {0} /\ f = e * p
      /\ p = 2 * Half /\ Half \in Nat \ {0}
  <2>1. w \in Nat /\ len \in Nat /\ len \in 0 .. MaxBitWidth + 1
        /\ w \in 0 .. MaxBitWidth + 1
    BY MaxBitWidthAssumption
  <2>2. 2 ^ (w + len) = 2 ^ w * 2 ^ len
    BY <2>1, PowerOfSum
  <2>3. 2 ^ w \in Nat \ {0} /\ 2 ^ len \in Nat \ {0}
    BY <2>1, Powers
  <2>4. \A x, y \in Nat : x * y = y * x
    OBVIOUS
  <2> QED
    BY <2>2, <2>3, <2>4, Halves
<1>2. /\ a \in 0 .. p - 1
      /\ Sign(w, a) = (IF a >= Half THEN 1 ELSE 0)
      /\ Signed(a) = (IF a >= Half THEN a - p ELSE a)
  BY <1>1, SignBit
<1>3. bv_sext(w, a, len) = (IF Sign(w, a) = 1 THEN e - 1 ELSE 0) * p + a
  BY DEF bv_sext, bv_concat
<1> HIDE DEF p, e, f
<1>4. f \in Nat \ {0} /\ p <= f
  <2>1. \A x, y \in Nat \ {0} : x * y \in Nat \ {0} /\ y <= x * y
    OBVIOUS
  <2> QED
    BY <1>1, <2>1
<1>5. CASE a >= Half
  <2>1. (e - 1) * p = f - p
    BY <1>1
  <2>2. bv_sext(w, a, len) = f + (a - p) /\ f + (a - p) \in 0 .. f - 1
    BY <1>1, <1>2, <1>3, <1>4, <1>5, <2>1
  <2>3. (f + (a - p)) % f = f + (a - p)
    BY <1>4, <2>2, RestNearby
  <2> QED
    BY <1>2, <1>5, <2>2, <2>3 DEF f
<1>6. CASE ~(a >= Half)
  <2>1. bv_sext(w, a, len) = a /\ a \in 0 .. f - 1 /\ f + a = a + f
    BY <1>1, <1>2, <1>3, <1>4, <1>6
  <2>2. (a + f) % f = a
    BY <1>4, <2>1, RestNearby
  <2> QED
    BY <1>2, <1>6, <2>1, <2>2 DEF f
<1> QED
  BY <1>5, <1>6

\* The parts of a concatenation.
LEMMA PartsOfConcat ==
    ASSUME w \in 1 .. MaxBitWidth, a \in Values(w), b \in Values(w)
    PROVE  LET c == bv_concat(w, a, b)
           IN  bv_slice(c, 2 * w - 1, w) = a /\ bv_slice(c, w - 1, 0) = b
<1> DEFINE c == bv_concat(w, a, b)
           p == 2 ^ w
<1>1. p \in Nat \ {0} /\ a \in 0 .. p - 1 /\ b \in 0 .. p - 1 /\ w \in Nat
  BY ValuesOf DEF Values
<1>2. c = a * p + b
  BY DEF bv_concat
<1>3. (2 * w - 1) - w + 1 = w /\ (w - 1) - 0 + 1 = w
  BY <1>1
<1>4. /\ bv_slice(c, 2 * w - 1, w) = (c \div p) % p
      /\ bv_slice(c, w - 1, 0) = (c \div 2 ^ 0) % p
  BY <1>3 DEF bv_slice, Fit
<1> HIDE DEF c, p
<1>5. c \in Int
  BY <1>1, <1>2
<1>6. c \div p = a /\ c % p = b
  BY <1>1, <1>2, <1>5, QuotientAndRest
<1>7. a % p = a
  BY <1>1, RestNearby
<1>8. c \div 2 ^ 0 = c
  <2>1. c \div 1 = c
    BY <1>5
  <2> QED
    BY <2>1, PowersAssumption, Zenon
<1> QED
  BY <1>4, <1>6, <1>7, <1>8 DEF c

\* What looks at the sign bit or cuts vectors does what it should with the signed
\* numbers and the parts, for all widths.
THEOREM SignsAndPartsRight ==
    ASSUME 2 * MaxWidth <= MaxBitWidth PROVE Spec => []SignedOrderAndParts
<1>0. MaxWidth \in Nat \ {0} /\ MaxBitWidth \in Nat
  BY MaxWidthAssumption, MaxBitWidthAssumption
<1>1. Operands => SignedOrderAndParts
  <2> SUFFICES ASSUME Operands PROVE SignedOrderAndParts
    OBVIOUS
  <2>1. /\ w \in 1 .. MaxBitWidth /\ a \in Values(w) /\ b \in Values(w)
        /\ 2 * w <= MaxBitWidth /\ w \in Nat
    BY <1>0 DEF Operands
  <2>2. \A len \in 1 .. w : w + len <= MaxBitWidth
    BY <1>0, <2>1
  <2>3. \A len \in 1 .. w :
          bv_sext(w, a, len) = (2 ^ (w + len) + Signed(a)) % 2 ^ (w + len)
    BY <2>1, <2>2, SignExtension
  <2> QED
    BY <2>1, <2>3, SignedOrder, ArithmeticShift, PartsOfConcat, Zenon
    DEF SignedOrderAndParts
<1>2. 1 <= MaxBitWidth
  BY <1>0
<1> QED
  BY <1>1, <1>2, OperandsInvariant, PTL

----------------------------------------------------------------------------
(* Signed division.                                                        *)

\* Negation is that of the signed number, and the magnitude its absolute value.
LEMMA NegationOf ==
    ASSUME w \in 1 .. MaxBitWidth, NEW x \in Values(w)
    PROVE  /\ bv_neg(w, x) = Fit(w, -x) /\ x = Fit(w, x)
           /\ Magnitude(w, x) = AbsOf(Signed(x))
           /\ AbsOf(Signed(x)) \in Values(w) /\ AbsOf(Signed(x)) \in Nat
           /\ AbsOf(Signed(x)) <= Half
           /\ AbsOf(Signed(x)) = 0 <=> x = 0
           /\ Signed(x) = 0 <=> x = 0
<1> DEFINE p == 2 ^ w
<1>1. /\ p \in Nat \ {0} /\ x \in 0 .. p - 1 /\ Values(w) = 0 .. p - 1
      /\ p = 2 * Half /\ Half \in Nat \ {0}
  BY ValuesOf, Halves DEF Values
<1>2. bv_neg(w, x) = IF x = 0 THEN 0 ELSE p - x
  BY Differences
<1>3. /\ Sign(w, x) = (IF x >= Half THEN 1 ELSE 0)
      /\ Signed(x) = (IF x >= Half THEN x - p ELSE x)
  BY <1>1, SignBit
<1>4. Fit(w, x) = x % p /\ Fit(w, -x) = (-x) % p
  BY DEF Fit
<1> HIDE DEF p
<1>5. x % p = x
  BY <1>1, RestNearby
<1>6. (-x) % p = IF x = 0 THEN 0 ELSE p - x
  <2>1. CASE x = 0
    BY <1>5, <2>1, MinusZero
  <2>2. CASE x # 0
    <3>1. p - x \in 0 .. p - 1 /\ (p - x) - p = -x
      BY <1>1, <2>2
    <3>2. ((p - x) - p) % p = p - x
      BY <1>1, <3>1, RestNearby
    <3> QED
      BY <2>2, <3>1, <3>2
  <2> QED
    BY <2>1, <2>2
<1>7. AbsOf(Signed(x)) = IF x >= Half THEN p - x ELSE x
  BY <1>1, <1>3 DEF AbsOf
<1>8. Magnitude(w, x) = AbsOf(Signed(x))
  BY <1>1, <1>2, <1>3, <1>7 DEF Magnitude
<1> QED
  BY <1>1, <1>2, <1>3, <1>4, <1>5, <1>6, <1>7, <1>8

\* Width one, where the numbers are 0 and -1.
LEMMA DivisionOfBits ==
    ASSUME w = 1, a \in {0, 1}, b \in {0, 1}
    PROVE  SignedDivision
<1> DEFINE x == Signed(a)
           y == Signed(b)
           m == Signed(bv_smod(w, a, b))
<1>0. w \in 1 .. MaxBitWidth /\ 2 ^ w = 2 /\ Half = 1 /\ Values(w) = {0, 1}
  <2>1. 0 \in 0 .. MaxBitWidth /\ 0 + 1 = 1 /\ 2 * 1 = 2 /\ w - 1 = 0
    BY MaxBitWidthAssumption
  <2>2. 2 ^ w = 2 /\ Half = 1
    BY <2>1, PowersAssumption, Zenon DEF Half
  <2> QED
    BY <2>1, <2>2, Bits, MaxBitWidthAssumption
<1>1. Signed(0) = 0 /\ Signed(1) = -1
  BY <1>0, SignBit
<1>2. \A n : Fit(w, n) = n % 2
  BY <1>0 DEF Fit
<1>3. /\ bv_sdiv(w, a, b) = 1 - (1 - a) * b
      /\ bv_srem(w, a, b) = a * (1 - b)
      /\ bv_smod(w, a, b) = a * (1 - b)
  <2>1. bv_not(w, a) = 1 - a /\ bv_not(w, b) = 1 - b /\ 1 - a \in {0, 1} /\ 1 - b \in {0, 1}
    BY OneBitOperations
  <2>2. bv_and(w, bv_not(w, a), b) = (1 - a) * b /\ (1 - a) * b \in {0, 1}
    BY <2>1, OneBitOperations
  <2>3. bv_not(w, bv_and(w, bv_not(w, a), b)) = 1 - (1 - a) * b
    BY <2>2, OneBitOperations
  <2>4. bv_and(w, a, bv_not(w, b)) = a * (1 - b)
    BY <2>1, OneBitOperations
  <2>5. bv_sdiv(w, a, b) = bv_not(w, bv_and(w, bv_not(w, a), b))
    BY DEF bv_sdiv
  <2>6. bv_srem(w, a, b) = bv_and(w, a, bv_not(w, b))
    BY DEF bv_srem
  <2>7. bv_smod(w, a, b) = bv_and(w, a, bv_not(w, b))
    BY DEF bv_smod
  <2> QED
    BY <2>3, <2>4, <2>5, <2>6, <2>7
<1>4. CASE b = 0
  <2>1. /\ y = 0
        /\ bv_sdiv(w, a, b) = 1 /\ bv_srem(w, a, b) = a /\ bv_smod(w, a, b) = a
    BY <1>1, <1>3, <1>4
  <2>2. Fit(w, 1) = 1 /\ Fit(w, -1) = 1
    BY <1>2
  <2> QED
    BY <2>1, <2>2 DEF SignedDivision
<1>5. CASE b = 1
  <2>1. y = -1 /\ bv_sdiv(w, a, b) = a /\ bv_srem(w, a, b) = 0 /\ bv_smod(w, a, b) = 0
    BY <1>1, <1>3, <1>5
  <2>2. x = -a
    BY <1>1
  <2>3. Quotient(x, y) = a
    BY <2>1, <2>2 DEF Quotient, AbsOf
  <2>4. Fit(w, a) = a /\ Fit(w, x - y * a) = 0
    BY <1>2, <2>1, <2>2
  <2>5. m = 0 /\ AbsOf(y) = 1 /\ (x - m) % AbsOf(y) = 0 /\ AbsOf(m) = 0
    <3>1. m = 0 /\ x \in Int
      BY <1>1, <2>1, <2>2
    <3>2. AbsOf(y) = 1 /\ AbsOf(m) = 0
      <4>1. -1 < 0 /\ -(-1) = 1 /\ ~(0 < 0)
        <5>1. \A z \in Int : z + (-z) = 0 /\ -z \in Int
          OBVIOUS
        <5>2. -1 \in Int /\ -1 < 0 /\ ~(0 < 0) /\ \A z \in Int : -1 + z = 0 => z = 1
          OBVIOUS
        <5> QED
          BY <5>1, <5>2
      <4> HIDE DEF m, y
      <4>2. AbsOf(y) = AbsOf(-1) /\ AbsOf(m) = AbsOf(0)
        BY <2>1, <3>1
      <4> QED
        BY <4>1, <4>2, Zenon DEF AbsOf
    <3>3. (x - 0) % 1 = 0
      <4> HIDE DEF x
      <4> QED
        BY <3>1
    <3> QED
      BY <3>1, <3>2, <3>3
  <2> HIDE DEF x, y, m
  <2>6. SignedDivision
    <3>1. /\ bv_sdiv(w, a, b) = Fit(w, Quotient(x, y))
          /\ bv_srem(w, a, b) = Fit(w, x - y * Quotient(x, y))
          /\ (x - m) % AbsOf(y) = 0 /\ AbsOf(m) < AbsOf(y)
          /\ m # 0 => (m < 0) = (y < 0)
      BY <2>1, <2>3, <2>4, <2>5
    <3>2. y # 0
      BY <2>1
    <3> QED
      BY <3>1, <3>2 DEF SignedDivision, x, y, m
  <2> QED
    BY <2>6
<1> QED
  BY <1>4, <1>5

\* Greater widths: division by zero.
LEMMA DivisionByZero ==
    ASSUME w \in 2 .. MaxBitWidth, a \in Values(w), b = 0
    PROVE  SignedDivision
<1> DEFINE p == 2 ^ w
           x == Signed(a)
           u == AbsOf(x)
<1>0. w \in 1 .. MaxBitWidth /\ w # 1 /\ b \in Values(w)
  BY ValuesOf
<1>1. /\ p \in Nat \ {0} /\ a \in 0 .. p - 1 /\ Values(w) = 0 .. p - 1
      /\ p = 2 * Half /\ Half \in Nat \ {0}
  BY <1>0, ValuesOf, Halves DEF Values
<1>2. /\ Magnitude(w, a) = u /\ Magnitude(w, b) = 0 /\ u \in Values(w) /\ u \in Nat
      /\ Signed(b) = 0 /\ Sign(w, b) = 0
      /\ Sign(w, a) = (IF x < 0 THEN 1 ELSE 0)
      /\ x = (IF a >= Half THEN a - p ELSE a)
      /\ x < 0 <=> a >= Half
      /\ bv_neg(w, u) = (IF u = 0 THEN 0 ELSE p - u)
  <2>1. Magnitude(w, a) = u /\ u \in Values(w) /\ u \in Nat
    BY <1>0, NegationOf
  <2>2. Signed(b) = 0 /\ Sign(w, b) = 0 /\ Magnitude(w, b) = b
    BY <1>0, <1>1, NegationOf, SignBit DEF Magnitude
  <2>3. /\ Sign(w, a) = (IF x < 0 THEN 1 ELSE 0)
        /\ x = (IF a >= Half THEN a - p ELSE a)
        /\ x < 0 <=> a >= Half
    BY <1>0, <1>1, SignBit
  <2>4. bv_neg(w, u) = (IF u = 0 THEN 0 ELSE p - u)
    BY <1>0, <2>1, Differences
  <2> QED
    BY <2>1, <2>2, <2>3, <2>4
<1>3. u = (IF a >= Half THEN p - a ELSE a)
  BY <1>1, <1>2 DEF AbsOf
<1>4. p - 1 \in Values(w) /\ bv_neg(w, p - 1) = 1
  <2>1. p - 1 \in Values(w) /\ p - 1 # 0
    BY <1>1
  <2> QED
    BY <1>0, <1>1, <2>1, Differences
<1>5. Fit(w, 1) = 1 /\ Fit(w, -1) = p - 1
  <2>1. 1 \in 0 .. p - 1 /\ p - 1 \in 0 .. p - 1 /\ (p - 1) - p = -1
    BY <1>1
  <2>2. 1 % p = 1 /\ ((p - 1) - p) % p = p - 1
    BY <1>1, <2>1, RestNearby
  <2> QED
    BY <2>1, <2>2 DEF Fit
<1>6. bv_udiv(w, u, 0) = p - 1 /\ bv_urem(w, u, 0) = u
  BY DEF bv_udiv, bv_urem
<1> HIDE DEF p, x, u
<1>7. bv_sdiv(w, a, b) = Fit(w, IF x < 0 THEN 1 ELSE -1)
  <2>1. bv_sdiv(w, a, b) = IF Sign(w, a) # Sign(w, b) THEN bv_neg(w, p - 1) ELSE p - 1
    BY <1>0, <1>2, <1>6 DEF bv_sdiv
  <2> QED
    BY <1>2, <1>4, <1>5, <2>1
<1>8. bv_neg(w, u) = (IF a = 0 THEN 0 ELSE IF x < 0 THEN a ELSE p - a)
  BY <1>1, <1>2, <1>3
<1>9. bv_srem(w, a, b) = a
  <2>1. bv_srem(w, a, b) = IF Sign(w, a) = 1 THEN bv_neg(w, u) ELSE u
    BY <1>0, <1>2, <1>6 DEF bv_srem
  <2> QED
    BY <1>1, <1>2, <1>3, <1>8, <2>1
<1>10. bv_smod(w, a, b) = a
  <2>1. bv_smod(w, a, b) = IF Sign(w, a) = 0 THEN u ELSE bv_add(w, bv_neg(w, u), 0)
    <3> DEFINE rest == bv_urem(w, Magnitude(w, a), Magnitude(w, b))
               add == IF rest = 0 THEN 0 ELSE b
    <3>1. rest = u /\ add = 0
      BY <1>2, <1>6
    <3>2. bv_smod(w, a, b) =
            CASE Sign(w, a) = 0 /\ Sign(w, b) = 0 -> rest
              [] Sign(w, a) = 1 /\ Sign(w, b) = 0 -> bv_add(w, bv_neg(w, rest), add)
              [] Sign(w, a) = 0 /\ Sign(w, b) = 1 -> bv_add(w, rest, add)
              [] OTHER -> bv_neg(w, rest)
      BY <1>0 DEF bv_smod
    <3>3. Sign(w, b) = 0 /\ Sign(w, a) \in {0, 1}
      BY <1>2
    <3> HIDE DEF rest, add
    <3> QED
      BY <3>1, <3>2, <3>3
  <2>2. Sign(w, a) = 1 => bv_neg(w, u) = a
    BY <1>1, <1>2, <1>8
  <2>3. bv_add(w, a, 0) = a
    <3>1. 0 \in Values(w) /\ a + 0 < 2 ^ w /\ a + 0 = a
      BY <1>0, <1>1 DEF p
    <3> QED
      BY <1>0, <3>1, Differences
  <2> QED
    BY <1>2, <1>3, <2>1, <2>2, <2>3
<1> QED
  BY <1>2, <1>7, <1>9, <1>10 DEF SignedDivision, x

\* Greater widths: division by another number.  The quotient is that of the
\* magnitudes, with the sign that the signs of the operands ask for; the rest has
\* the sign of the first operand (srem) or of the second (smod).
LEMMA DivisionByOthers ==
    ASSUME w \in 2 .. MaxBitWidth, a \in Values(w), b \in Values(w), b # 0
    PROVE  SignedDivision
<1> DEFINE p == 2 ^ w
           h == Half
           x == Signed(a)
           y == Signed(b)
           u == AbsOf(x)
           v == AbsOf(y)
           q == u \div v
           r == u % v
           m == Signed(bv_smod(w, a, b))
<1>0. w \in 1 .. MaxBitWidth /\ w # 1
  OBVIOUS
<1>1. /\ p \in Nat \ {0} /\ a \in 0 .. p - 1 /\ b \in 0 .. p - 1
      /\ Values(w) = 0 .. p - 1
      /\ p = 2 * h /\ h \in Nat \ {0}
  BY <1>0, ValuesOf, Halves DEF Values
<1>2. /\ Magnitude(w, a) = u /\ Magnitude(w, b) = v
      /\ u \in Nat /\ v \in Nat \ {0} /\ u <= h /\ v <= h
      /\ u \in Values(w) /\ v \in Values(w)
      /\ y # 0
  BY <1>0, NegationOf
<1>3. /\ Sign(w, a) = (IF x < 0 THEN 1 ELSE 0)
      /\ Sign(w, b) = (IF y < 0 THEN 1 ELSE 0)
      /\ x \in -h .. h - 1 /\ y \in -h .. h - 1
      /\ y < 0 <=> b >= h
      /\ y = (IF b >= h THEN b - p ELSE b)
  BY <1>0, <1>1, SignBit
<1>4. u = (IF x < 0 THEN -x ELSE x) /\ v = (IF y < 0 THEN -y ELSE y)
  BY DEF AbsOf
<1>5. \A z \in Values(w) :
        /\ bv_neg(w, z) = Fit(w, -z) /\ Fit(w, z) = z
        /\ bv_neg(w, z) = (IF z = 0 THEN 0 ELSE p - z)
        /\ Signed(z) = (IF z >= h THEN z - p ELSE z)
  BY <1>0, <1>1, NegationOf, Differences, SignBit, ZenonT(60)
<1>6. \A z1, z2 \in Values(w) :
        bv_add(w, z1, z2) = (IF z1 + z2 < p THEN z1 + z2 ELSE z1 + z2 - p)
  BY <1>0, Differences
<1>7. /\ q \in Nat /\ r \in 0 .. v - 1 /\ u = q * v + r
      /\ q \in Values(w) /\ r \in Values(w)
  <2> HIDE DEF u, v
  <2>0. u \in Nat /\ u \in Int /\ v \in Nat \ {0}
    BY <1>2
  <2>1. q \in 0 .. u /\ r \in 0 .. v - 1 /\ u = q * v + r
    BY <2>0, Division, DivMod
  <2>2. u <= p - 1 /\ v <= p - 1
    BY <1>1, <1>2
  <2> HIDE DEF q, r, p, h
  <2> QED
    BY <1>1, <1>2, <2>1, <2>2
<1>8. bv_udiv(w, u, v) = q /\ bv_urem(w, u, v) = r
  <2> HIDE DEF u, v
  <2> QED
    BY <1>2 DEF bv_udiv, bv_urem
<1> HIDE DEF p, h, x, y, u, v, q, r
<1> DEFINE Q == Quotient(x, y)
<1>9. Q = IF (x < 0) = (y < 0) THEN q ELSE -q
  BY DEF Quotient, q, u, v
<1>10. x - y * Q = IF x < 0 THEN -r ELSE r
  <2>1. q * v \in Nat /\ q * v = u - r
    BY <1>2, <1>7
  <2>2. CASE y < 0
    <3>1. y = -v /\ (-v) * q = -(q * v) /\ (-v) * (-q) = q * v
      BY <1>2, <1>3, <1>4, <1>7, <2>2
    <3> QED
      BY <1>2, <1>3, <1>4, <1>7, <1>9, <2>1, <2>2, <3>1
  <2>3. CASE ~(y < 0)
    <3>1. y = v /\ v * q = q * v /\ v * (-q) = -(q * v)
      BY <1>2, <1>3, <1>4, <1>7, <2>3
    <3> QED
      BY <1>2, <1>3, <1>4, <1>7, <1>9, <2>1, <2>3, <3>1
  <2> QED
    BY <2>2, <2>3
<1> HIDE DEF Q
<1>11. bv_sdiv(w, a, b) = Fit(w, Q)
  <2>1. bv_sdiv(w, a, b) = IF Sign(w, a) # Sign(w, b) THEN bv_neg(w, q) ELSE q
    BY <1>0, <1>2, <1>8 DEF bv_sdiv
  <2>2. Sign(w, a) # Sign(w, b) <=> ~((x < 0) = (y < 0))
    BY <1>3
  <2> QED
    BY <1>5, <1>7, <1>9, <2>1, <2>2
<1>12. bv_srem(w, a, b) = Fit(w, x - y * Q)
  <2>1. bv_srem(w, a, b) = IF Sign(w, a) = 1 THEN bv_neg(w, r) ELSE r
    BY <1>0, <1>2, <1>8 DEF bv_srem
  <2>2. Sign(w, a) = 1 <=> x < 0
    BY <1>3
  <2> QED
    BY <1>5, <1>7, <1>10, <2>1, <2>2
<1> DEFINE add == IF r = 0 THEN 0 ELSE b
           neg == bv_neg(w, r)
<1>13. bv_smod(w, a, b) = CASE ~(x < 0) /\ ~(y < 0) -> r
                            [] x < 0 /\ ~(y < 0) -> bv_add(w, neg, add)
                            [] ~(x < 0) /\ y < 0 -> bv_add(w, r, add)
                            [] OTHER -> neg
  <2>1. bv_smod(w, a, b) =
          CASE Sign(w, a) = 0 /\ Sign(w, b) = 0 -> r
            [] Sign(w, a) = 1 /\ Sign(w, b) = 0 -> bv_add(w, neg, add)
            [] Sign(w, a) = 0 /\ Sign(w, b) = 1 -> bv_add(w, r, add)
            [] OTHER -> neg
    BY <1>0, <1>2, <1>8 DEF bv_smod
  <2>2. /\ (Sign(w, a) = 0 <=> ~(x < 0)) /\ (Sign(w, a) = 1 <=> x < 0)
        /\ (Sign(w, b) = 0 <=> ~(y < 0)) /\ (Sign(w, b) = 1 <=> y < 0)
    BY <1>3
  <2> HIDE DEF add, neg
  <2> QED
    BY <2>1, <2>2
<1>14. neg \in Values(w) /\ add \in Values(w) /\ neg = (IF r = 0 THEN 0 ELSE p - r)
  BY <1>1, <1>5, <1>7
<1>15. m = IF r = 0 THEN 0
           ELSE IF (x < 0) = (y < 0) THEN (IF x < 0 THEN -r ELSE r)
           ELSE IF y < 0 THEN r - v ELSE v - r
  <2> HIDE DEF add, neg
  <2>1. r < h /\ v <= h /\ r < v /\ r \in Nat /\ p = 2 * h /\ h \in Nat \ {0} /\ p \in Nat
    BY <1>1, <1>2, <1>7
  <2>2. CASE ~(x < 0) /\ ~(y < 0)
    <3>1. bv_smod(w, a, b) = r
      BY <1>13, <2>2
    <3>2. Signed(r) = r
      BY <1>5, <1>7, <2>1
    <3> QED
      BY <2>2, <3>1, <3>2
  <2>3. CASE x < 0 /\ ~(y < 0)
    <3>1. bv_smod(w, a, b) = bv_add(w, neg, add) /\ b = v
      BY <1>3, <1>4, <1>13, <2>3
    <3>2. bv_add(w, neg, add) = IF neg + add < p THEN neg + add ELSE neg + add - p
      BY <1>6, <1>14
    <3>3. CASE r = 0
      <4>1. neg = 0 /\ add = 0
        BY <1>14, <3>3 DEF add
      <4>2. bv_smod(w, a, b) = 0 /\ Signed(0) = 0
        BY <1>5, <1>7, <2>1, <3>1, <3>2, <3>3, <4>1
      <4> QED
        BY <3>3, <4>2
    <3>4. CASE r # 0
      <4>1. neg = p - r /\ add = v
        BY <1>14, <3>1, <3>4 DEF add
      <4>2. bv_smod(w, a, b) = v - r /\ v - r \in Values(w) /\ v - r < h
        BY <1>1, <1>2, <2>1, <3>1, <3>2, <3>4, <4>1
      <4>3. Signed(v - r) = v - r
        <5> DEFINE e == v - r
        <5>1. e \in Values(w) /\ ~(e >= h)
          BY <1>2, <2>1, <4>2
        <5> HIDE DEF e
        <5>2. Signed(e) = e
          BY <1>5, <5>1
        <5> QED
          BY <5>2 DEF e
      <4> QED
        BY <2>3, <3>4, <4>2, <4>3
    <3> QED
      BY <3>3, <3>4
  <2>4. CASE ~(x < 0) /\ y < 0
    <3>1. bv_smod(w, a, b) = bv_add(w, r, add) /\ b = p - v /\ b \in Values(w)
      <4>1. bv_smod(w, a, b) = bv_add(w, r, add)
        BY <1>13, <2>4
      <4>2. b \in Int /\ p \in Int /\ y = b - p /\ v = -y
        BY <1>1, <1>3, <1>4, <2>4
      <4>3. b = p - v
        BY <4>2
      <4> QED
        BY <4>1, <4>3
    <3>2. bv_add(w, r, add) = IF r + add < p THEN r + add ELSE r + add - p
      BY <1>6, <1>7, <1>14
    <3>3. CASE r = 0
      <4>1. add = 0
        BY <3>3 DEF add
      <4>2. bv_smod(w, a, b) = 0 /\ Signed(0) = 0
        BY <1>5, <1>7, <2>1, <3>1, <3>2, <3>3, <4>1
      <4> QED
        BY <3>3, <4>2
    <3>4. CASE r # 0
      <4>1. add = p - v
        BY <3>1, <3>4 DEF add
      <4>2. bv_smod(w, a, b) = r + (p - v) /\ r + (p - v) \in Values(w) /\ r + (p - v) >= h
        BY <1>1, <1>2, <2>1, <3>1, <3>2, <3>4, <4>1
      <4>3. Signed(r + (p - v)) = (r + (p - v)) - p
        <5> DEFINE e == r + (p - v)
        <5>1. e \in Values(w) /\ e >= h
          BY <4>2
        <5> HIDE DEF e
        <5>2. Signed(e) = e - p
          BY <1>5, <5>1
        <5> QED
          BY <5>2, Zenon DEF e
      <4>4. (r + (p - v)) - p = r - v
        BY <1>2, <2>1
      <4> QED
        BY <2>4, <3>4, <4>2, <4>3, <4>4
    <3> QED
      BY <3>3, <3>4
  <2>5. CASE x < 0 /\ y < 0
    <3>1. bv_smod(w, a, b) = neg
      BY <1>13, <2>5
    <3>2. Signed(neg) = -r
      <4>1. CASE r = 0
        <5>1. neg = 0 /\ -r = 0
          BY <1>14, <4>1, MinusZero
        <5> QED
          BY <1>5, <1>14, <2>1, <4>1, <5>1
      <4>2. CASE r # 0
        <5>1. neg = p - r /\ p - r >= h /\ p - r - p = -r
          BY <1>14, <2>1, <4>2
        <5> QED
          BY <1>5, <1>14, <5>1
      <4> QED
        BY <4>1, <4>2
    <3>3. r = 0 => -r = 0
      BY MinusZero
    <3> QED
      BY <2>5, <3>1, <3>2, <3>3
  <2> QED
    BY <2>2, <2>3, <2>4, <2>5
<1> HIDE DEF m, add, neg
<1>16. \A c \in Int : (c * v) % v = 0
  <2> TAKE c \in Int
  <2>1. c * v \in Int /\ c * v = c * v + 0 /\ 0 \in 0 .. v - 1
    BY <1>2
  <2> QED
    BY <1>2, <2>1, QuotientAndRest
<1>17. (x - m) % v = 0
  <2>0. q * v = u - r /\ q \in Int /\ u \in Nat /\ v \in Nat /\ r \in Nat
        /\ x \in Int /\ q + 1 \in Int /\ -q \in Int /\ -(q + 1) \in Int
    BY <1>2, <1>3, <1>7
  <2>1. /\ (q + 1) * v = u - r + v
        /\ (-q) * v = -(u - r)
        /\ (-(q + 1)) * v = -(u - r + v)
    BY <2>0
  <2>2. \/ x - m = q * v \/ x - m = (q + 1) * v
        \/ x - m = (-q) * v \/ x - m = (-(q + 1)) * v
    <3>1. \/ x - m = u - r \/ x - m = u - r + v
          \/ x - m = -(u - r) \/ x - m = -(u - r + v)
      BY <1>2, <1>3, <1>4, <1>7, <1>15, <2>0
    <3> QED
      BY <2>0, <2>1, <3>1
  <2> QED
    BY <1>16, <2>0, <2>2
<1>18. AbsOf(m) < v /\ (m # 0 => (m < 0) = (y < 0))
  <2>1. r \in Nat /\ v \in Nat /\ r < v
    BY <1>2, <1>7
  <2>2. /\ m \in Int /\ -v < m /\ m < v
        /\ m # 0 => (m < 0 <=> y < 0)
    BY <1>15, <2>1
  <2> QED
    BY <2>1, <2>2 DEF AbsOf
<1> QED
  BY <1>2, <1>11, <1>12, <1>17, <1>18 DEF SignedDivision, x, y, v, m, Q

\* sdiv, srem and smod are the signed divisions of the numbers that the vectors
\* denote, for all widths, also by zero and in width one.
THEOREM DivisionRight ==
    ASSUME MaxWidth <= MaxBitWidth PROVE Spec => []SignedDivision
<1>0. MaxWidth \in Nat \ {0} /\ MaxBitWidth \in Nat
  BY MaxWidthAssumption, MaxBitWidthAssumption
<1>1. Operands => SignedDivision
  <2> SUFFICES ASSUME Operands PROVE SignedDivision
    OBVIOUS
  <2>1. w \in 1 .. MaxBitWidth /\ a \in Values(w) /\ b \in Values(w)
    BY <1>0 DEF Operands
  <2>2. CASE w = 1
    BY <2>1, <2>2, Bits, DivisionOfBits
  <2>3. CASE w # 1
    <3>1. w \in 2 .. MaxBitWidth
      BY <1>0, <2>1, <2>3
    <3> QED
      BY <2>1, <3>1, DivisionByZero, DivisionByOthers
  <2> QED
    BY <2>2, <2>3
<1>2. 1 <= MaxBitWidth
  BY <1>0
<1> QED
  BY <1>1, <1>2, OperandsInvariant, PTL

----------------------------------------------------------------------------
(* Where the limbs of a vector are.                                        *)

\* A width for which the powers of two are known that the operations need.
Handled(n) == n \in Nat \ {0} /\ n + DoubleBits <= MaxBitWidth

\* The place in the vector of the lowest bit of limb i.
Pos(n, i) == LimbBits * (LimbsFor(n) - i)

LEMMA LimbWidth ==
    ASSUME NEW n, Handled(n)
    PROVE  /\ MaxBitWidth \in Nat /\ n \in 1 .. MaxBitWidth /\ n \in 0 .. MaxBitWidth
           /\ LimbBits \in Nat \ {0} /\ LimbBits \in 1 .. MaxBitWidth
           /\ LimbBits \in 0 .. MaxBitWidth
           /\ Base \in Nat \ {0} /\ Base = 2 ^ LimbBits
           /\ Values(LimbBits) = 0 .. Base - 1
           /\ n + LimbBits <= MaxBitWidth
<1>1. /\ MaxBitWidth \in Nat /\ LimbBits \in Nat \ {0} /\ n \in Nat \ {0}
      /\ n + 2 * LimbBits <= MaxBitWidth
  BY MaxBitWidthAssumption, LimbBitsAssumption DEF Handled, DoubleBits
<1>2. LimbBits \in 0 .. MaxBitWidth /\ LimbBits \in 0 .. MaxBitWidth + 1
  BY <1>1
<1> QED
  BY <1>1, <1>2, Powers DEF Base, Values

LEMMA Positions ==
    ASSUME NEW n, Handled(n)
    PROVE  LET N == LimbsFor(n)
           IN  /\ N \in Nat \ {0}
               /\ Pos(n, N) = 0 /\ n <= Pos(n, 1) + LimbBits
               /\ \A i \in 1 .. N : Pos(n, i) \in Nat /\ Pos(n, i) < n
               /\ \A i \in 2 .. N : Pos(n, i - 1) = Pos(n, i) + LimbBits
               /\ \A i, k \in 1 .. N : i < k => Pos(n, k) + LimbBits <= Pos(n, i)
<1> DEFINE L == LimbBits
           m == n + L - 1
           N == LimbsFor(n)
           r == m % L
<1>1. L \in Nat \ {0} /\ n \in Nat \ {0} /\ m \in Nat /\ n <= m /\ L <= m
  BY LimbWidth
<1>2. N = m \div L
  BY DEF LimbsFor
<1>3. N \in Int /\ r \in 0 .. L - 1 /\ m = N * L + r
  <2> HIDE DEF m, L, N
  <2> QED
    BY <1>1, <1>2, Division
<1>4. N \in Nat \ {0}
  <2>1. N < 1 => N * L + L <= 1 * L
    <3> HIDE DEF L, N
    <3> QED
      BY <1>1, <1>3, ProductGrows
  <2>2. N * L \in Int /\ 1 * L = L
    BY <1>1, <1>3
  <2> QED
    BY <1>1, <1>3, <2>1, <2>2
<1>5. \A i \in 1 .. N : N - i \in Nat /\ Pos(n, i) = (N - i) * L
  <2> TAKE i \in 1 .. N
  <2>1. N - i \in Nat
    BY <1>4
  <2>2. L * (N - i) = (N - i) * L
    BY <1>1, <2>1
  <2> QED
    BY <2>1, <2>2 DEF Pos
<1> HIDE DEF L, m, N
<1>6. \A i, k \in 1 .. N : i < k => (N - k) * L + L <= (N - i) * L
  <2> SUFFICES ASSUME NEW i \in 1 .. N, NEW k \in 1 .. N, i < k
               PROVE  (N - k) * L + L <= (N - i) * L
    OBVIOUS
  <2>1. N - k \in Int /\ N - i \in Int /\ N - k < N - i
    BY <1>4
  <2> QED
    BY <1>1, <2>1, ProductGrows
<1>7. \A i \in 1 .. N : (N - i) * L \in Nat /\ (N - i) * L < n
  <2> TAKE i \in 1 .. N
  <2>1. N - i \in Nat /\ N - i < N
    BY <1>4
  <2>2. (N - i) * L + L <= N * L
    BY <1>1, <1>4, <2>1, ProductGrows
  <2>3. (N - i) * L \in Nat /\ N * L \in Nat
    BY <1>1, <1>4, <2>1
  <2> QED
    BY <1>1, <1>3, <2>2, <2>3 DEF m, L
<1>8. (N - N) * L = 0 /\ N \in 1 .. N /\ 1 \in 1 .. N
  BY <1>1, <1>4
<1>9. n <= (N - 1) * L + L
  <2>1. (N - 1) * L + L = N * L /\ N * L \in Nat
    BY <1>1, <1>4
  <2> QED
    BY <1>1, <1>3, <2>1 DEF m, L
<1>10. \A i \in 2 .. N : i - 1 \in 1 .. N /\ i \in 1 .. N /\ (N - (i - 1)) * L = (N - i) * L + L
  BY <1>1, <1>4
<1> QED
  BY <1>4, <1>5, <1>6, <1>7, <1>8, <1>9, <1>10 DEF N, L

\* Each place is in a limb.
LEMMA PlaceOf ==
    ASSUME NEW n, Handled(n), NEW p \in 0 .. n - 1
    PROVE  LET i == LimbsFor(n) - p \div LimbBits
           IN  /\ i \in 1 .. LimbsFor(n)
               /\ p % LimbBits \in 0 .. LimbBits - 1
               /\ p = Pos(n, i) + (p % LimbBits)
<1> DEFINE L == LimbBits
           N == LimbsFor(n)
           q == p \div L
           r == p % L
           i == N - q
<1>1. /\ L \in Nat \ {0} /\ N \in Nat \ {0} /\ n \in Nat \ {0} /\ p \in Nat
      /\ n <= Pos(n, 1) + L /\ p < n
  BY LimbWidth, Positions
<1>2. q \in Int /\ r \in 0 .. L - 1 /\ p = q * L + r
  <2>1. p \in Int
    BY <1>1
  <2> HIDE DEF L
  <2> QED
    BY <1>1, <2>1, Division
<1>3. q \in Nat
  <2>1. q < 0 => q * L + L <= 0 * L
    <3> HIDE DEF L, q
    <3> QED
      BY <1>1, <1>2, ProductGrows
  <2>2. 0 * L = 0 /\ q * L \in Int
    BY <1>1, <1>2
  <2> QED
    BY <1>1, <1>2, <2>1, <2>2
<1>4. q < N
  <2>1. N <= q => N - 1 < q
    BY <1>1, <1>2
  <2>2. N - 1 < q => (N - 1) * L + L <= q * L
    <3>1. N - 1 \in Int
      BY <1>1
    <3> HIDE DEF L, q, N
    <3> QED
      BY <1>1, <1>2, <3>1, ProductGrows
  <2>3. Pos(n, 1) = (N - 1) * L /\ (N - 1) * L \in Int /\ q * L \in Int
    BY <1>1, <1>2 DEF Pos
  <2> QED
    BY <1>1, <1>2, <2>1, <2>2, <2>3
<1>5. i \in 1 .. N /\ N - i = q
  BY <1>1, <1>3, <1>4
<1>6. Pos(n, i) = q * L
  <2>1. Pos(n, i) = L * q
    BY <1>5 DEF Pos
  <2> QED
    BY <1>1, <1>2, <2>1
<1> QED
  BY <1>2, <1>5, <1>6

----------------------------------------------------------------------------
(* The limbs of a vector have its bits.                                    *)

Limbs(n, x) == [i \in 1 .. LimbsFor(n) |-> (x \div 2 ^ Pos(n, i)) % Base]

LEMMA BitOfLimb ==
    ASSUME NEW n, Handled(n), NEW x \in Values(n), NEW i \in 1 .. LimbsFor(n)
    PROVE  /\ Limbs(n, x)[i] \in 0 .. Base - 1
           /\ \A j \in 0 .. LimbBits - 1 :
                /\ Pos(n, i) + j \in 0 .. MaxBitWidth
                /\ Bit(Limbs(n, x)[i], j) = Bit(x, Pos(n, i) + j)
<1> DEFINE p == Pos(n, i)
           q == x \div 2 ^ p
<1>1. /\ LimbBits \in Nat \ {0} /\ LimbBits \in 0 .. MaxBitWidth /\ Base = 2 ^ LimbBits
      /\ Base \in Nat \ {0} /\ p \in Nat /\ p < n /\ MaxBitWidth \in Nat
      /\ n \in Nat /\ n + LimbBits <= MaxBitWidth /\ n \in 1 .. MaxBitWidth
  BY LimbWidth, Positions
<1>2. Limbs(n, x)[i] = q % Base
  BY DEF Limbs
<1> HIDE DEF p
<1>3. x \in Nat /\ x \in Int /\ 2 ^ p \in Nat \ {0}
  <2>1. p \in 0 .. MaxBitWidth + 1
    BY <1>1
  <2> QED
    BY <1>1, <2>1, ValuesOf, Powers
<1>4. q \in Int
  BY <1>3, Division
<1> HIDE DEF q
<1>5. q % Base \in 0 .. Base - 1
  BY <1>1, <1>4
<1>6. ASSUME NEW j \in 0 .. LimbBits - 1
      PROVE  p + j \in 0 .. MaxBitWidth /\ Bit(q % Base, j) = Bit(x, p + j)
  <2>1. j + p <= MaxBitWidth /\ j \in Nat /\ p + j \in 0 .. MaxBitWidth /\ p + j = j + p
    BY <1>1
  <2>2. Bit(q % Base, j) = Bit(q, j)
    BY <1>1, <1>4, BitOfRest
  <2>3. Bit(q, j) = Bit(x, j + p)
    BY <1>1, <1>3, <2>1, BitOfQuotient DEF q
  <2> QED
    BY <2>1, <2>2, <2>3
<1> QED
  BY <1>2, <1>5, <1>6 DEF p

LEMMA VectorIs ==
    ASSUME NEW n, Handled(n), NEW x \in Values(n)
    PROVE  /\ Vector(n, x) = Built(n, Limbs(n, x))
           /\ Limbs(n, x) \in [1 .. LimbsFor(n) -> 0 .. Base - 1]
           /\ NumLimbs(Vector(n, x)) = LimbsFor(n)
           /\ DOMAIN Limbs(n, x) = 1 .. LimbsFor(n)
<1>1. LimbsFor(n) \in Nat
  BY Positions
<1>2. Limbs(n, x) \in [1 .. LimbsFor(n) -> 0 .. Base - 1]
  <2>1. \A i \in 1 .. LimbsFor(n) : Limbs(n, x)[i] \in 0 .. Base - 1
    BY BitOfLimb
  <2>2. Limbs(n, x) = [i \in 1 .. LimbsFor(n) |-> Limbs(n, x)[i]]
    BY DEF Limbs
  <2> QED
    BY <2>1, <2>2
<1>3. <<>> \o Limbs(n, x) = Limbs(n, x) /\ Len(Limbs(n, x)) = LimbsFor(n)
  BY <1>1, <1>2, AsTuple
<1>4. Vector(n, x) = [width |-> n, bits |-> <<>> \o Limbs(n, x)]
  BY DEF Vector, Build, Limbs, Pos
<1>5. Vector(n, x) = Built(n, Limbs(n, x))
  BY <1>3, <1>4 DEF Built
<1> QED
  BY <1>2, <1>3, <1>5 DEF NumLimbs, Built

\* Limbs are equal if their bits are.
LEMMA LimbsDetermined ==
    ASSUME NEW n, Handled(n), NEW x \in Values(n),
           NEW f \in [1 .. LimbsFor(n) -> 0 .. Base - 1],
           \A i \in 1 .. LimbsFor(n), j \in 0 .. LimbBits - 1 :
              Bit(f[i], j) = IF Pos(n, i) + j < n THEN Bit(x, Pos(n, i) + j) ELSE 0
    PROVE  f = Limbs(n, x)
<1>1. ASSUME NEW i \in 1 .. LimbsFor(n) PROVE f[i] = Limbs(n, x)[i]
  <2>1. f[i] \in Values(LimbBits) /\ Limbs(n, x)[i] \in Values(LimbBits)
    BY LimbWidth, BitOfLimb
  <2>2. ASSUME NEW j \in 0 .. LimbBits - 1 PROVE Bit(f[i], j) = Bit(Limbs(n, x)[i], j)
    <3>1. /\ Pos(n, i) + j \in 0 .. MaxBitWidth
          /\ Bit(Limbs(n, x)[i], j) = Bit(x, Pos(n, i) + j)
      BY BitOfLimb
    <3>2. CASE Pos(n, i) + j < n
      BY <3>1, <3>2
    <3>3. CASE ~(Pos(n, i) + j < n)
      <4>1. n \in Nat /\ Pos(n, i) + j \in n .. MaxBitWidth
        BY <3>1, <3>3, LimbWidth
      <4>2. Bit(x, Pos(n, i) + j) = 0
        BY <4>1, BitAbove
      <4> QED
        BY <3>1, <3>3, <4>2
    <3> QED
      BY <3>2, <3>3
  <2> QED
    BY <2>1, <2>2, LimbWidth, BitsDetermine
<1>2. f = [i \in 1 .. LimbsFor(n) |-> f[i]] /\ DOMAIN Limbs(n, x) = 1 .. LimbsFor(n)
  BY DEF Limbs
<1>3. Limbs(n, x) = [i \in 1 .. LimbsFor(n) |-> Limbs(n, x)[i]]
  BY DEF Limbs
<1> QED
  BY <1>1, <1>2, <1>3

LimbsHave(n, x, f) ==
    \A i \in 1 .. LimbsFor(n), j \in 0 .. LimbBits - 1 :
       Bit(f[i], j) = IF Pos(n, i) + j < n THEN Bit(x, Pos(n, i) + j) ELSE 0

LEMMA LimbsAre ==
    ASSUME NEW n, Handled(n), NEW x \in Values(n),
           NEW f \in [1 .. LimbsFor(n) -> 0 .. Base - 1], LimbsHave(n, x, f)
    PROVE  f = Limbs(n, x)
BY LimbsDetermined DEF LimbsHave

\* Different numbers have different limbs.
LEMMA NumbersDetermined ==
    ASSUME NEW n, Handled(n), NEW x \in Values(n), NEW y \in Values(n),
           Limbs(n, x) = Limbs(n, y)
    PROVE  x = y
<1>1. ASSUME NEW p \in 0 .. n - 1 PROVE Bit(x, p) = Bit(y, p)
  <2> DEFINE i == LimbsFor(n) - p \div LimbBits
             j == p % LimbBits
  <2>1. i \in 1 .. LimbsFor(n) /\ j \in 0 .. LimbBits - 1 /\ p = Pos(n, i) + j
    BY PlaceOf
  <2> HIDE DEF i, j
  <2>2. Bit(Limbs(n, x)[i], j) = Bit(x, p) /\ Bit(Limbs(n, y)[i], j) = Bit(y, p)
    BY <2>1, BitOfLimb
  <2> QED
    BY <2>2
<1> QED
  BY <1>1, LimbWidth, BitsDetermine

----------------------------------------------------------------------------
(* The spare bits.                                                         *)

LEMMA MaskIs ==
    ASSUME NEW n, Handled(n)
    PROVE  n % LimbBits \in 0 .. LimbBits - 1 /\ MaskRemBits(n) = 2 ^ (n % LimbBits) - 1
<1>1. LimbBits \in Nat \ {0} /\ n \in Nat /\ MaxBitWidth \in Nat /\ LimbBits <= MaxBitWidth
  BY LimbWidth
<1>2. n % LimbBits \in 0 .. LimbBits - 1 /\ LimbBits - 1 \in 0 .. MaxBitWidth
  BY <1>1
<1> QED
  BY <1>2, OnesShifted DEF MaskRemBits

LEMMA BitOfMasked ==
    ASSUME NEW n, Handled(n), NEW x \in 0 .. Base - 1
    PROVE  /\ LimbAnd(x, MaskRemBits(n)) \in 0 .. Base - 1
           /\ \A j \in 0 .. LimbBits - 1 :
                Bit(LimbAnd(x, MaskRemBits(n)), j) = IF j < n % LimbBits THEN Bit(x, j) ELSE 0
<1> DEFINE k == n % LimbBits
           y == 2 ^ k - 1
<1>1. /\ LimbBits \in 1 .. MaxBitWidth /\ LimbBits \in Nat /\ MaxBitWidth \in Nat
      /\ x \in Values(LimbBits) /\ Values(LimbBits) = 0 .. Base - 1
      /\ Base = 2 ^ LimbBits
  BY LimbWidth
<1>2. k \in 0 .. LimbBits - 1 /\ MaskRemBits(n) = y
  BY MaskIs
<1>3. y \in Values(LimbBits)
  <2> HIDE DEF k
  <2> DEFINE r == LimbBits - k
  <2>1. /\ k \in Nat /\ r \in Nat /\ k + r = LimbBits /\ k + r <= MaxBitWidth
        /\ k \in 0 .. MaxBitWidth + 1 /\ r \in 0 .. MaxBitWidth + 1
    BY <1>1, <1>2
  <2> HIDE DEF r
  <2>2. 2 ^ LimbBits = 2 ^ k * 2 ^ r /\ 2 ^ k \in Nat \ {0} /\ 2 ^ r \in Nat \ {0}
    BY <2>1, PowerOfSum, Powers
  <2>3. \A c, d \in Nat \ {0} : c - 1 \in 0 .. c * d - 1
    OBVIOUS
  <2> QED
    BY <1>1, <2>2, <2>3
<1>4. LimbAnd(x, y) = bv_and(LimbBits, x, y)
  BY DEF LimbAnd, bv_and
<1> HIDE DEF k
<1>5. ASSUME NEW j \in 0 .. LimbBits - 1
      PROVE  Bit(LimbAnd(x, y), j) = IF j < k THEN Bit(x, j) ELSE 0
  <2>1. j \in 0 .. MaxBitWidth /\ k \in 0 .. MaxBitWidth /\ x \in Nat
    BY <1>1, <1>2
  <2>2. Bit(LimbAnd(x, y), j) = Bit(x, j) * Bit(y, j)
    BY <1>1, <1>3, <1>4, BitOfOr
  <2>3. Bit(y, j) = IF j < k THEN 1 ELSE 0
    BY <2>1, BitOfOnes
  <2>4. Bit(x, j) \in {0, 1}
    BY <2>1, Bits
  <2> QED
    BY <2>2, <2>3, <2>4
<1>6. LimbAnd(x, y) \in 0 .. Base - 1
  BY <1>1, <1>3, <1>4, BitwiseFits
<1> QED
  BY <1>2, <1>5, <1>6 DEF k

\* How much of the first limb is used.
LEMMA FirstLimbWidth ==
    ASSUME NEW n, Handled(n)
    PROVE  /\ n = LimbBits * LimbsFor(n) => n = Pos(n, 1) + LimbBits
           /\ n # LimbBits * LimbsFor(n) => n % LimbBits = n - Pos(n, 1) /\ n < Pos(n, 1) + LimbBits
<1> DEFINE L == LimbBits
           N == LimbsFor(n)
           r == n - Pos(n, 1)
           q == N - 1
           p == Pos(n, 1)
<1>1. /\ N \in Nat \ {0} /\ L \in Nat \ {0} /\ n \in Nat \ {0}
      /\ p \in Nat /\ p < n /\ n <= p + L
  <2>1. N \in Nat \ {0} /\ n <= p + L /\ 1 \in 1 .. N
    BY Positions
  <2>2. p \in Nat /\ p < n
    BY <2>1, Positions
  <2> QED
    BY <2>1, <2>2, LimbWidth
<1>2. p + L = L * N
  BY <1>1 DEF Pos
<1>3. p = L * q
  BY DEF Pos
<1> HIDE DEF L, N
<1>4. q \in Int /\ L * q = q * L
  BY <1>1
<1> HIDE DEF p, q
<1>5. ASSUME n # L * N PROVE n % L = r /\ n < p + L
  <2>1. n < p + L /\ r \in 0 .. L - 1
    BY <1>1, <1>2, <1>5 DEF p
  <2>2. n = p + r /\ n \in Int /\ p \in Int
    BY <1>1 DEF p
  <2> HIDE DEF r
  <2>3. n = q * L + r
    BY <1>3, <1>4, <2>2
  <2> QED
    BY <1>1, <1>4, <2>1, <2>2, <2>3, QuotientAndRest
<1> QED
  BY <1>2, <1>5 DEF L, N, p

\* Clearing the spare bits of limbs that have the bits of a number makes its vector.
LEMMA Masking ==
    ASSUME NEW n, Handled(n), NEW x \in Values(n),
           NEW f \in [1 .. LimbsFor(n) -> 0 .. Base - 1],
           \A i \in 1 .. LimbsFor(n), j \in 0 .. LimbBits - 1 :
              Pos(n, i) + j < n => Bit(f[i], j) = Bit(x, Pos(n, i) + j)
    PROVE  set_rem_bits_to_zero(Built(n, f)) = Vector(n, x)
<1> DEFINE N == LimbsFor(n)
           L == LimbBits
<1>1. /\ N \in Nat \ {0} /\ L \in Nat \ {0} /\ n \in Nat \ {0}
      /\ Pos(n, 1) \in Nat /\ Pos(n, 1) < n /\ n <= Pos(n, 1) + L
      /\ \A i \in 1 .. N : Pos(n, i) \in Nat /\ (i # 1 => Pos(n, i) + L <= Pos(n, 1))
  BY LimbWidth, Positions
<1>2. Len(f) = N /\ DOMAIN f = 1 .. N
  BY <1>1, AsTuple
<1>3. Built(n, f).width = n /\ Built(n, f).bits = f /\ NumLimbs(Built(n, f)) = N
  BY <1>2 DEF Built, NumLimbs
<1>4. Pos(n, 1) + L = L * N
  BY <1>1 DEF Pos
<1>5. ASSUME NEW i \in 1 .. N, NEW j \in 0 .. L - 1, i # 1 PROVE Pos(n, i) + j < n
  BY <1>1, <1>5
<1>6. CASE n = L * N
  <2>1. \A i \in 1 .. N, j \in 0 .. L - 1 : Pos(n, i) + j < n
    <3> TAKE i \in 1 .. N, j \in 0 .. L - 1
    <3>1. CASE i = 1
      BY <1>1, <1>4, <1>6, <3>1
    <3> QED
      BY <1>5, <3>1
  <2>2. f = Limbs(n, x)
    BY <2>1, LimbsDetermined
  <2> QED
    BY <1>3, <1>6, <2>2, VectorIs DEF set_rem_bits_to_zero
<1>7. CASE n # L * N
  <2> DEFINE g == [f EXCEPT ![1] = LimbAnd(f[1], MaskRemBits(n))]
             k == n % L
  <2>1. set_rem_bits_to_zero(Built(n, f)) = Built(n, g)
    BY <1>3, <1>7 DEF set_rem_bits_to_zero, Built
  <2>2. k = n - Pos(n, 1)
    BY <1>7, FirstLimbWidth
  <2>3. 1 \in 1 .. N /\ f[1] \in 0 .. Base - 1
    BY <1>1
  <2>4. /\ g \in [1 .. N -> 0 .. Base - 1]
        /\ g[1] = LimbAnd(f[1], MaskRemBits(n)) /\ \A i \in 1 .. N : i # 1 => g[i] = f[i]
    BY <2>3, BitOfMasked
  <2> HIDE DEF g
  <2>5. ASSUME NEW i \in 1 .. N, NEW j \in 0 .. L - 1
        PROVE  Bit(g[i], j) = IF Pos(n, i) + j < n THEN Bit(x, Pos(n, i) + j) ELSE 0
    <3>1. CASE i = 1
      <4>1. Bit(g[1], j) = IF j < k THEN Bit(f[1], j) ELSE 0
        BY <2>3, <2>4, BitOfMasked
      <4>2. j < k <=> Pos(n, 1) + j < n
        <5> HIDE DEF k
        <5> QED
          BY <1>1, <2>2
      <4> HIDE DEF k
      <4> QED
        BY <3>1, <4>1, <4>2
    <3>2. CASE i # 1
      BY <1>5, <2>4, <3>2
    <3> QED
      BY <3>1, <3>2
  <2>6. g = Limbs(n, x)
    BY <2>4, <2>5, LimbsDetermined
  <2> QED
    BY <2>1, <2>6, VectorIs
<1> QED
  BY <1>6, <1>7

----------------------------------------------------------------------------
(* Operations limb by limb.                                                *)

LEMMA LimbConnectives ==
    ASSUME NEW n, Handled(n), NEW X \in 0 .. Base - 1, NEW Y \in 0 .. Base - 1
    PROVE  /\ LimbNot(X) = bv_not(LimbBits, X) /\ LimbAnd(X, Y) = bv_and(LimbBits, X, Y)
           /\ LimbOr(X, Y) = bv_or(LimbBits, X, Y) /\ LimbXor(X, Y) = bv_xor(LimbBits, X, Y)
           /\ LimbNot(X) \in 0 .. Base - 1 /\ LimbAnd(X, Y) \in 0 .. Base - 1
           /\ LimbOr(X, Y) \in 0 .. Base - 1 /\ LimbXor(X, Y) \in 0 .. Base - 1
           /\ LimbNot(LimbAnd(X, Y)) \in 0 .. Base - 1
           /\ LimbNot(LimbOr(X, Y)) \in 0 .. Base - 1
           /\ LimbXor(X, LimbNot(Y)) \in 0 .. Base - 1
           /\ LimbOr(LimbNot(X), Y) \in 0 .. Base - 1
           /\ \A j \in 0 .. LimbBits - 1 :
                LET p == Bit(X, j)
                    q == Bit(Y, j)
                IN  /\ p \in {0, 1} /\ q \in {0, 1}
                    /\ Bit(LimbNot(X), j) = 1 - p
                    /\ Bit(LimbAnd(X, Y), j) = p * q
                    /\ Bit(LimbOr(X, Y), j) = p + q - p * q
                    /\ Bit(LimbXor(X, Y), j) = (p + q) % 2
                    /\ Bit(LimbNot(LimbAnd(X, Y)), j) = 1 - p * q
                    /\ Bit(LimbNot(LimbOr(X, Y)), j) = 1 - (p + q - p * q)
                    /\ Bit(LimbXor(X, LimbNot(Y)), j) = 1 - ((p + q) % 2)
                    /\ Bit(LimbOr(LimbNot(X), Y), j) = (1 - p) + q - (1 - p) * q
<1>1. LimbBits \in 1 .. MaxBitWidth /\ Values(LimbBits) = 0 .. Base - 1 /\ Base = 2 ^ LimbBits
  BY LimbWidth
<1>2. \A x, y : /\ LimbNot(x) = bv_not(LimbBits, x) /\ LimbAnd(x, y) = bv_and(LimbBits, x, y)
                /\ LimbOr(x, y) = bv_or(LimbBits, x, y)
                /\ LimbXor(x, y) = bv_xor(LimbBits, x, y)
  BY DEF LimbNot, bv_not, Base, LimbAnd, bv_and, LimbOr, bv_or, LimbXor, bv_xor
<1>3. \A x, y \in 0 .. Base - 1 :
        /\ LimbNot(x) \in 0 .. Base - 1 /\ LimbAnd(x, y) \in 0 .. Base - 1
        /\ LimbOr(x, y) \in 0 .. Base - 1 /\ LimbXor(x, y) \in 0 .. Base - 1
  BY <1>1, <1>2, ArithmeticFits, BitwiseFits
<1>4. ASSUME NEW j \in 0 .. LimbBits - 1, NEW x \in 0 .. Base - 1, NEW y \in 0 .. Base - 1
      PROVE  /\ Bit(x, j) \in {0, 1} /\ Bit(y, j) \in {0, 1}
             /\ Bit(LimbNot(x), j) = 1 - Bit(x, j)
             /\ Bit(LimbAnd(x, y), j) = Bit(x, j) * Bit(y, j)
             /\ Bit(LimbOr(x, y), j) = Bit(x, j) + Bit(y, j) - Bit(x, j) * Bit(y, j)
             /\ Bit(LimbXor(x, y), j) = (Bit(x, j) + Bit(y, j)) % 2
  <2>1. x \in Values(LimbBits) /\ y \in Values(LimbBits)
    BY <1>1
  <2>2. /\ Bit(x, j) \in {0, 1} /\ Bit(y, j) \in {0, 1}
        /\ Bit(bv_not(LimbBits, x), j) = 1 - Bit(x, j)
        /\ Bit(bv_and(LimbBits, x, y), j) = Bit(x, j) * Bit(y, j)
        /\ Bit(bv_or(LimbBits, x, y), j) = Bit(x, j) + Bit(y, j) - Bit(x, j) * Bit(y, j)
        /\ Bit(bv_xor(LimbBits, x, y), j) = (Bit(x, j) + Bit(y, j)) % 2
    BY <1>1, <2>1, ConnectiveBits
  <2> QED
    BY <1>2, <2>2
<1>5. \A p, q \in {0, 1} : (p + (1 - q)) % 2 = 1 - ((p + q) % 2)
  OBVIOUS
<1>6. /\ LimbNot(X) \in 0 .. Base - 1 /\ LimbAnd(X, Y) \in 0 .. Base - 1
      /\ LimbOr(X, Y) \in 0 .. Base - 1 /\ LimbXor(X, Y) \in 0 .. Base - 1
      /\ LimbNot(Y) \in 0 .. Base - 1
  BY <1>3
<1>7. /\ LimbNot(LimbAnd(X, Y)) \in 0 .. Base - 1
      /\ LimbNot(LimbOr(X, Y)) \in 0 .. Base - 1
      /\ LimbXor(X, LimbNot(Y)) \in 0 .. Base - 1
      /\ LimbOr(LimbNot(X), Y) \in 0 .. Base - 1
  BY <1>3, <1>6
<1>8. ASSUME NEW j \in 0 .. LimbBits - 1
      PROVE  /\ Bit(LimbNot(LimbAnd(X, Y)), j) = 1 - Bit(X, j) * Bit(Y, j)
             /\ Bit(LimbNot(LimbOr(X, Y)), j) = 1 - (Bit(X, j) + Bit(Y, j) - Bit(X, j) * Bit(Y, j))
             /\ Bit(LimbXor(X, LimbNot(Y)), j) = 1 - ((Bit(X, j) + Bit(Y, j)) % 2)
             /\ Bit(LimbOr(LimbNot(X), Y), j) =
                  (1 - Bit(X, j)) + Bit(Y, j) - (1 - Bit(X, j)) * Bit(Y, j)
  <2>1. /\ Bit(LimbNot(LimbAnd(X, Y)), j) = 1 - Bit(LimbAnd(X, Y), j)
        /\ Bit(LimbNot(LimbOr(X, Y)), j) = 1 - Bit(LimbOr(X, Y), j)
        /\ Bit(LimbNot(X), j) = 1 - Bit(X, j) /\ Bit(LimbNot(Y), j) = 1 - Bit(Y, j)
        /\ Bit(LimbAnd(X, Y), j) = Bit(X, j) * Bit(Y, j)
        /\ Bit(LimbOr(X, Y), j) = Bit(X, j) + Bit(Y, j) - Bit(X, j) * Bit(Y, j)
        /\ Bit(X, j) \in {0, 1} /\ Bit(Y, j) \in {0, 1}
    BY <1>4, <1>6
  <2>2. Bit(LimbXor(X, LimbNot(Y)), j) = (Bit(X, j) + Bit(LimbNot(Y), j)) % 2
    BY <1>4, <1>6
  <2>3. Bit(LimbOr(LimbNot(X), Y), j) =
          Bit(LimbNot(X), j) + Bit(Y, j) - Bit(LimbNot(X), j) * Bit(Y, j)
    BY <1>4, <1>6
  <2> QED
    BY <1>5, <2>1, <2>2, <2>3
<1> QED
  BY <1>2, <1>4, <1>6, <1>7, <1>8

\* Limbs without spare bits that have the bits of a number are those of its vector.
LEMMA Unmasked ==
    ASSUME NEW n, Handled(n), NEW x \in Values(n),
           NEW f \in [1 .. LimbsFor(n) -> 0 .. Base - 1],
           \A i \in 1 .. LimbsFor(n), j \in 0 .. LimbBits - 1 :
              Bit(f[i], j) = IF Pos(n, i) + j < n THEN Bit(x, Pos(n, i) + j) ELSE 0
    PROVE  [width |-> n, bits |-> <<>> \o f] = Vector(n, x)
<1>1. LimbsFor(n) \in Nat
  BY Positions
<1>2. <<>> \o f = f
  BY <1>1, AsTuple
<1>3. f = Limbs(n, x)
  BY LimbsDetermined
<1> QED
  BY <1>2, <1>3, VectorIs DEF Built

LEMMA MaskedTuple ==
    ASSUME NEW n, Handled(n), NEW x \in Values(n),
           NEW f \in [1 .. LimbsFor(n) -> 0 .. Base - 1],
           \A i \in 1 .. LimbsFor(n), j \in 0 .. LimbBits - 1 :
              Pos(n, i) + j < n => Bit(f[i], j) = Bit(x, Pos(n, i) + j)
    PROVE  set_rem_bits_to_zero([width |-> n, bits |-> <<>> \o f]) = Vector(n, x)
<1>1. LimbsFor(n) \in Nat
  BY Positions
<1>2. <<>> \o f = f
  BY <1>1, AsTuple
<1> QED
  BY <1>2, Masking DEF Built

LEMMA LimbBitsOf ==
    ASSUME NEW n, Handled(n), NEW x \in Values(n), NEW i \in 1 .. LimbsFor(n)
    PROVE  /\ Limbs(n, x)[i] \in 0 .. Base - 1
           /\ \A j \in 0 .. LimbBits - 1 :
                /\ Pos(n, i) + j \in Nat
                /\ Pos(n, i) + j < n => Pos(n, i) + j \in 0 .. n - 1
                /\ Bit(Limbs(n, x)[i], j) =
                     IF Pos(n, i) + j < n THEN Bit(x, Pos(n, i) + j) ELSE 0
<1>1. n \in Nat /\ MaxBitWidth \in Nat
  BY LimbWidth
<1>2. ASSUME NEW j \in 0 .. LimbBits - 1
      PROVE  /\ Pos(n, i) + j \in Nat
             /\ Pos(n, i) + j < n => Pos(n, i) + j \in 0 .. n - 1
             /\ Bit(Limbs(n, x)[i], j) =
                  IF Pos(n, i) + j < n THEN Bit(x, Pos(n, i) + j) ELSE 0
  <2> DEFINE p == Pos(n, i) + j
  <2>1. p \in 0 .. MaxBitWidth /\ Bit(Limbs(n, x)[i], j) = Bit(x, p)
    BY BitOfLimb
  <2> HIDE DEF p
  <2>2. ~(p < n) => p \in n .. MaxBitWidth
    BY <1>1, <2>1
  <2>3. ~(p < n) => Bit(x, p) = 0
    BY <1>1, <2>2, BitAbove
  <2>4. p \in Nat /\ (p < n => p \in 0 .. n - 1)
    BY <1>1, <2>1
  <2> QED
    BY <2>1, <2>3, <2>4 DEF p
<1> QED
  BY <1>2, BitOfLimb

LEMMA VectorParts ==
    ASSUME NEW n, Handled(n), NEW x \in Values(n)
    PROVE  /\ Vector(n, x).width = n /\ Vector(n, x).bits = Limbs(n, x)
           /\ NumLimbs(Vector(n, x)) = LimbsFor(n)
           /\ Vector(n, x) = [width |-> n, bits |-> Limbs(n, x)]
           /\ DOMAIN Limbs(n, x) = 1 .. LimbsFor(n)
BY VectorIs DEF Built

\* not, and, or and what is composed of them are done limb by limb, the spare bits
\* cleared where a complement has set them.
LEMMA BitwiseOnLimbs ==
    ASSUME NEW n, Handled(n), NEW x \in Values(n), NEW y \in Values(n)
    PROVE  LET V == Vector(n, x)
               W == Vector(n, y)
           IN  /\ lv_not(V) = Vector(n, bv_not(n, x))
               /\ lv_and(V, W) = Vector(n, bv_and(n, x, y))
               /\ lv_or(V, W)  = Vector(n, bv_or(n, x, y))
               /\ lv_xor(V, W) = Vector(n, bv_xor(n, x, y))
               /\ lv_nand(V, W) = Vector(n, bv_nand(n, x, y))
               /\ lv_nor(V, W)  = Vector(n, bv_nor(n, x, y))
               /\ lv_xnor(V, W) = Vector(n, bv_xnor(n, x, y))
               /\ lv_implies(V, W) = Vector(n, bv_implies(n, x, y))
<1> DEFINE N == LimbsFor(n)
           X == Limbs(n, x)
           Y == Limbs(n, y)
           Of(z, i, j) == IF Pos(n, i) + j < n THEN Bit(z, Pos(n, i) + j) ELSE 0
           not  == [i \in 1 .. N |-> LimbNot(X[i])]
           and  == [i \in 1 .. N |-> LimbAnd(X[i], Y[i])]
           or   == [i \in 1 .. N |-> LimbOr(X[i], Y[i])]
           xor  == [i \in 1 .. N |-> LimbXor(X[i], Y[i])]
           nand == [i \in 1 .. N |-> LimbNot(LimbAnd(X[i], Y[i]))]
           nor  == [i \in 1 .. N |-> LimbNot(LimbOr(X[i], Y[i]))]
           xnor == [i \in 1 .. N |-> LimbXor(X[i], LimbNot(Y[i]))]
           implies == [i \in 1 .. N |-> LimbOr(LimbNot(X[i]), Y[i])]
           Tuple(f) == [width |-> n, bits |-> <<>> \o f]
<1>1. n \in 1 .. MaxBitWidth
  BY LimbWidth
<1>2. /\ Vector(n, x).width = n /\ Vector(n, x).bits = X
      /\ Vector(n, y).width = n /\ Vector(n, y).bits = Y
  BY VectorParts
<1>3. /\ lv_not(Vector(n, x)) = set_rem_bits_to_zero(Tuple(not))
      /\ lv_and(Vector(n, x), Vector(n, y)) = Tuple(and)
      /\ lv_or(Vector(n, x), Vector(n, y)) = Tuple(or)
      /\ lv_xor(Vector(n, x), Vector(n, y)) = Tuple(xor)
  BY <1>2 DEF lv_not, lv_and, lv_or, lv_xor, Masked, Limbwise, Build
<1>4. /\ lv_nand(Vector(n, x), Vector(n, y)) = set_rem_bits_to_zero(Tuple(nand))
      /\ lv_nor(Vector(n, x), Vector(n, y)) = set_rem_bits_to_zero(Tuple(nor))
      /\ lv_xnor(Vector(n, x), Vector(n, y)) = set_rem_bits_to_zero(Tuple(xnor))
      /\ lv_implies(Vector(n, x), Vector(n, y)) = set_rem_bits_to_zero(Tuple(implies))
  BY <1>2 DEF lv_nand, lv_nor, lv_xnor, lv_implies, Masked, Limbwise, Build
<1>5. \A i \in 1 .. N : X[i] \in 0 .. Base - 1 /\ Y[i] \in 0 .. Base - 1
  BY LimbBitsOf
<1>6. \A i \in 1 .. N, j \in 0 .. LimbBits - 1 :
        /\ Bit(X[i], j) = Of(x, i, j) /\ Bit(Y[i], j) = Of(y, i, j)
        /\ Pos(n, i) + j < n => Pos(n, i) + j \in 0 .. n - 1
  BY LimbBitsOf
<1> HIDE DEF X, Y
<1>7. /\ not \in [1 .. N -> 0 .. Base - 1] /\ and \in [1 .. N -> 0 .. Base - 1]
      /\ or \in [1 .. N -> 0 .. Base - 1] /\ xor \in [1 .. N -> 0 .. Base - 1]
      /\ nand \in [1 .. N -> 0 .. Base - 1] /\ nor \in [1 .. N -> 0 .. Base - 1]
      /\ xnor \in [1 .. N -> 0 .. Base - 1] /\ implies \in [1 .. N -> 0 .. Base - 1]
  BY <1>5, LimbConnectives
<1>8. /\ bv_not(n, x) \in Values(n) /\ bv_and(n, x, y) \in Values(n)
      /\ bv_or(n, x, y) \in Values(n) /\ bv_xor(n, x, y) \in Values(n)
      /\ bv_nand(n, x, y) \in Values(n) /\ bv_nor(n, x, y) \in Values(n)
      /\ bv_xnor(n, x, y) \in Values(n) /\ bv_implies(n, x, y) \in Values(n)
  BY <1>1, ArithmeticFits, BitwiseFits
<1>9. ASSUME NEW i \in 1 .. N, NEW j \in 0 .. LimbBits - 1
      PROVE  /\ Bit(and[i], j) = Of(bv_and(n, x, y), i, j)
             /\ Bit(or[i], j) = Of(bv_or(n, x, y), i, j)
             /\ Bit(xor[i], j) = Of(bv_xor(n, x, y), i, j)
             /\ Pos(n, i) + j < n =>
                  /\ Bit(not[i], j) = Bit(bv_not(n, x), Pos(n, i) + j)
                  /\ Bit(nand[i], j) = Bit(bv_nand(n, x, y), Pos(n, i) + j)
                  /\ Bit(nor[i], j) = Bit(bv_nor(n, x, y), Pos(n, i) + j)
                  /\ Bit(xnor[i], j) = Bit(bv_xnor(n, x, y), Pos(n, i) + j)
                  /\ Bit(implies[i], j) = Bit(bv_implies(n, x, y), Pos(n, i) + j)
  <2> DEFINE p == Bit(X[i], j)
             q == Bit(Y[i], j)
             m == Pos(n, i) + j
  <2>1. /\ p \in {0, 1} /\ q \in {0, 1}
        /\ Bit(LimbNot(X[i]), j) = 1 - p
        /\ Bit(LimbAnd(X[i], Y[i]), j) = p * q
        /\ Bit(LimbOr(X[i], Y[i]), j) = p + q - p * q
        /\ Bit(LimbXor(X[i], Y[i]), j) = (p + q) % 2
        /\ Bit(LimbNot(LimbAnd(X[i], Y[i])), j) = 1 - p * q
        /\ Bit(LimbNot(LimbOr(X[i], Y[i])), j) = 1 - (p + q - p * q)
        /\ Bit(LimbXor(X[i], LimbNot(Y[i])), j) = 1 - ((p + q) % 2)
        /\ Bit(LimbOr(LimbNot(X[i]), Y[i]), j) = (1 - p) + q - (1 - p) * q
    <3> DEFINE U == X[i]
               V == Y[i]
    <3>1. U \in 0 .. Base - 1 /\ V \in 0 .. Base - 1
      BY <1>5
    <3> HIDE DEF U, V
    <3>2. /\ Bit(U, j) \in {0, 1} /\ Bit(V, j) \in {0, 1}
          /\ Bit(LimbNot(U), j) = 1 - Bit(U, j)
          /\ Bit(LimbAnd(U, V), j) = Bit(U, j) * Bit(V, j)
          /\ Bit(LimbOr(U, V), j) = Bit(U, j) + Bit(V, j) - Bit(U, j) * Bit(V, j)
          /\ Bit(LimbXor(U, V), j) = (Bit(U, j) + Bit(V, j)) % 2
          /\ Bit(LimbNot(LimbAnd(U, V)), j) = 1 - Bit(U, j) * Bit(V, j)
          /\ Bit(LimbNot(LimbOr(U, V)), j) = 1 - (Bit(U, j) + Bit(V, j) - Bit(U, j) * Bit(V, j))
          /\ Bit(LimbXor(U, LimbNot(V)), j) = 1 - ((Bit(U, j) + Bit(V, j)) % 2)
          /\ Bit(LimbOr(LimbNot(U), V), j) =
               (1 - Bit(U, j)) + Bit(V, j) - (1 - Bit(U, j)) * Bit(V, j)
      BY <3>1, LimbConnectives, Zenon
    <3> QED
      BY <3>2 DEF U, V
  <2>2. /\ not[i] = LimbNot(X[i]) /\ and[i] = LimbAnd(X[i], Y[i]) /\ or[i] = LimbOr(X[i], Y[i])
        /\ xor[i] = LimbXor(X[i], Y[i]) /\ nand[i] = LimbNot(LimbAnd(X[i], Y[i]))
        /\ nor[i] = LimbNot(LimbOr(X[i], Y[i])) /\ xnor[i] = LimbXor(X[i], LimbNot(Y[i]))
        /\ implies[i] = LimbOr(LimbNot(X[i]), Y[i])
    OBVIOUS
  <2>3. p = Of(x, i, j) /\ q = Of(y, i, j) /\ (m < n => m \in 0 .. n - 1)
    BY <1>6
  <2> HIDE DEF not, and, or, xor, nand, nor, xnor, implies, p, q
  <2>4. CASE m < n
    <3>1. m \in 0 .. n - 1 /\ p = Bit(x, m) /\ q = Bit(y, m)
      BY <2>3, <2>4
    <3> HIDE DEF m
    <3>2. /\ Bit(bv_not(n, x), m) = 1 - p
          /\ Bit(bv_and(n, x, y), m) = p * q
          /\ Bit(bv_or(n, x, y), m) = p + q - p * q
          /\ Bit(bv_xor(n, x, y), m) = (p + q) % 2
          /\ Bit(bv_nand(n, x, y), m) = 1 - p * q
          /\ Bit(bv_nor(n, x, y), m) = 1 - (p + q - p * q)
          /\ Bit(bv_xnor(n, x, y), m) = 1 - ((p + q) % 2)
          /\ Bit(bv_implies(n, x, y), m) = (1 - p) + q - (1 - p) * q
      BY <1>1, <3>1, ConnectiveBits
    <3> QED
      BY <2>1, <2>2, <2>4, <3>2 DEF m, p, q
  <2>5. CASE ~(m < n)
    <3>1. p = 0 /\ q = 0
      BY <2>3, <2>5
    <3>2. p * q = 0 /\ p + q - p * q = 0 /\ (p + q) % 2 = 0
      BY <3>1
    <3>3. Bit(and[i], j) = 0 /\ Bit(or[i], j) = 0 /\ Bit(xor[i], j) = 0
      BY <2>1, <2>2, <3>2 DEF p, q
    <3> QED
      BY <2>5, <3>3
  <2> QED
    BY <2>4, <2>5
<1> HIDE DEF not, and, or, xor, nand, nor, xnor, implies
<1>10. /\ Tuple(and) = Vector(n, bv_and(n, x, y))
       /\ Tuple(or) = Vector(n, bv_or(n, x, y))
       /\ Tuple(xor) = Vector(n, bv_xor(n, x, y))
  BY <1>7, <1>8, <1>9, Unmasked
<1>11. set_rem_bits_to_zero(Tuple(not)) = Vector(n, bv_not(n, x))
  BY <1>7, <1>8, <1>9, MaskedTuple
<1>12. /\ set_rem_bits_to_zero(Tuple(nand)) = Vector(n, bv_nand(n, x, y))
       /\ set_rem_bits_to_zero(Tuple(nor)) = Vector(n, bv_nor(n, x, y))
  BY <1>7, <1>8, <1>9, MaskedTuple
<1>13. /\ set_rem_bits_to_zero(Tuple(xnor)) = Vector(n, bv_xnor(n, x, y))
       /\ set_rem_bits_to_zero(Tuple(implies)) = Vector(n, bv_implies(n, x, y))
  BY <1>7, <1>8, <1>9, MaskedTuple
<1> QED
  BY <1>3, <1>4, <1>10, <1>11, <1>12, <1>13

----------------------------------------------------------------------------
(* Single bits.                                                            *)

LEMMA GetBit ==
    ASSUME NEW n, Handled(n), NEW x \in Values(n), NEW p \in 0 .. n - 1
    PROVE  get_bit(Vector(n, x), p) = Bit(x, p) /\ Bit(x, p) \in {0, 1}
<1> DEFINE i == LimbsFor(n) - p \div LimbBits
           j == p % LimbBits
<1>1. i \in 1 .. LimbsFor(n) /\ j \in 0 .. LimbBits - 1 /\ p = Pos(n, i) + j
  BY PlaceOf
<1>2. get_bit(Vector(n, x), p) = Bit(Limbs(n, x)[i], j)
  BY VectorParts DEF get_bit
<1> HIDE DEF i, j
<1>3. Bit(Limbs(n, x)[i], j) = Bit(x, p)
  BY <1>1, BitOfLimb
<1>4. MaxBitWidth \in Nat /\ n \in 0 .. MaxBitWidth
  BY LimbWidth
<1>5. p \in 0 .. MaxBitWidth /\ x \in Nat
  BY <1>4, ValuesOf
<1> QED
  BY <1>2, <1>3, <1>5, Bits

\* Setting a bit of a vector sets the bit of the number.
LEMMA SetBit ==
    ASSUME NEW n, Handled(n), NEW x \in Values(n), NEW p \in 0 .. n - 1, NEW c \in {0, 1}
    PROVE  /\ SetTo(x, p, c) \in Values(n)
           /\ set_bit(Vector(n, x), p, c) = Vector(n, SetTo(x, p, c))
<1> DEFINE N == LimbsFor(n)
           L == LimbBits
           X == Limbs(n, x)
           at == N - p \div L
           off == p % L
           y == SetTo(x, p, c)
           g == [X EXCEPT ![at] = SetTo(X[at], off, c)]
<1>1. at \in 1 .. N /\ off \in 0 .. L - 1 /\ p = Pos(n, at) + off
  BY PlaceOf
<1>2. set_bit(Vector(n, x), p, c) = [Vector(n, x) EXCEPT !.bits[at] = @ + (c - Bit(@, off)) * 2 ^ off]
  BY VectorParts DEF set_bit
<1>3. Vector(n, x) = [width |-> n, bits |-> X]
  BY VectorParts
<1> HIDE DEF at, off
<1>4. set_bit(Vector(n, x), p, c) = Built(n, g)
  BY <1>2, <1>3 DEF SetTo, Built
<1>5. /\ n \in Nat /\ MaxBitWidth \in Nat /\ n \in 1 .. MaxBitWidth /\ L \in 1 .. MaxBitWidth
      /\ Values(L) = 0 .. Base - 1 /\ L \in Nat \ {0}
  BY LimbWidth
<1>6. X \in [1 .. N -> 0 .. Base - 1] /\ X[at] \in Values(L)
  BY <1>1, <1>5, VectorIs
<1>7. /\ SetTo(X[at], off, c) \in Values(L)
      /\ \A k \in 0 .. L - 1 : Bit(SetTo(X[at], off, c), k) = IF k = off THEN c ELSE Bit(X[at], k)
  <2> DEFINE u == X[at]
  <2>1. u \in Values(L) /\ off \in 0 .. L - 1 /\ L \in 1 .. MaxBitWidth
    BY <1>1, <1>5, <1>6
  <2> HIDE DEF u, L
  <2>2. /\ SetTo(u, off, c) \in Values(L)
        /\ \A k \in 0 .. L - 1 : Bit(SetTo(u, off, c), k) = IF k = off THEN c ELSE Bit(u, k)
    BY <2>1, SetToBits
  <2> QED
    BY <2>2 DEF u
<1>8. /\ y \in Values(n)
      /\ \A k \in 0 .. n - 1 : Bit(y, k) = IF k = p THEN c ELSE Bit(x, k)
  BY <1>5, SetToBits
<1>9. /\ g \in [1 .. N -> 0 .. Base - 1] /\ g[at] = SetTo(X[at], off, c)
      /\ \A k \in 1 .. N : k # at => g[k] = X[k]
  BY <1>1, <1>5, <1>6, <1>7
<1> HIDE DEF g, y
<1>10. ASSUME NEW k \in 1 .. N, NEW l \in 0 .. L - 1
       PROVE  Bit(g[k], l) = IF Pos(n, k) + l < n THEN Bit(y, Pos(n, k) + l) ELSE 0
  <2> DEFINE m == Pos(n, k) + l
  <2>1. m \in Nat /\ (m < n => m \in 0 .. n - 1) /\ Bit(X[k], l) = IF m < n THEN Bit(x, m) ELSE 0
    BY LimbBitsOf
  <2>2. Pos(n, k) \in Nat /\ Pos(n, at) \in Nat
    BY <1>1, Positions
  <2>3. CASE k = at
    <3>1. m = p <=> l = off
      BY <1>1, <1>5, <2>2, <2>3
    <3>2. m = p => m < n
      BY <1>5
    <3> HIDE DEF m
    <3>3. Bit(g[k], l) = IF l = off THEN c ELSE Bit(X[at], l)
      BY <1>7, <1>9, <2>3
    <3>4. m < n => Bit(y, m) = IF m = p THEN c ELSE Bit(x, m)
      BY <1>8, <2>1
    <3> QED
      BY <2>1, <2>3, <3>1, <3>2, <3>3, <3>4 DEF m
  <2>4. CASE k # at
    <3>1. k < at \/ at < k
      BY <1>1, <1>5, <2>4
    <3>2. \/ Pos(n, at) + L <= Pos(n, k)
          \/ Pos(n, k) + L <= Pos(n, at)
      BY <1>1, <3>1, Positions
    <3>3. m # p
      BY <1>1, <1>5, <2>2, <3>2
    <3> HIDE DEF m
    <3>4. m < n => Bit(y, m) = Bit(x, m)
      BY <1>8, <2>1, <3>3
    <3> QED
      BY <1>9, <2>1, <2>4, <3>4 DEF m
  <2> QED
    BY <2>3, <2>4
<1>11. g = Limbs(n, y)
  <2>1. y \in Values(n) /\ g \in [1 .. LimbsFor(n) -> 0 .. Base - 1]
    BY <1>8, <1>9
  <2>2. LimbsHave(n, y, g)
    BY <1>10 DEF LimbsHave
  <2> QED
    BY <2>1, <2>2, LimbsAre
<1>12. Built(n, g) = Vector(n, y)
  BY <1>8, <1>11, VectorIs
<1> QED
  BY <1>4, <1>8, <1>12 DEF y

LEMMA NewIsZero ==
    ASSUME NEW n, Handled(n)
    PROVE  lv_new(n) = Vector(n, 0) /\ 0 \in Values(n) /\ \A i \in 1 .. LimbsFor(n) : Limbs(n, 0)[i] = 0
<1>1. 2 ^ n \in Nat \ {0} /\ n \in 1 .. MaxBitWidth /\ MaxBitWidth \in Nat
      /\ LimbsFor(n) \in Nat /\ Base \in Nat \ {0} /\ LimbBits \in 1 .. MaxBitWidth
  <2>1. n \in 0 .. MaxBitWidth + 1
    BY LimbWidth
  <2> QED
    BY <2>1, LimbWidth, Positions, Powers
<1>2. 0 \in Values(n)
  BY <1>1 DEF Values
<1> DEFINE f == [i \in 1 .. LimbsFor(n) |-> 0]
<1>3. f \in [1 .. LimbsFor(n) -> 0 .. Base - 1]
  BY <1>1
<1>4. ASSUME NEW i \in 1 .. LimbsFor(n), NEW j \in 0 .. LimbBits - 1
      PROVE  Bit(f[i], j) = IF Pos(n, i) + j < n THEN Bit(0, Pos(n, i) + j) ELSE 0
  <2>1. Pos(n, i) + j \in 0 .. MaxBitWidth /\ j \in 0 .. MaxBitWidth
    BY <1>1, <1>2, BitOfLimb
  <2> HIDE DEF f
  <2>2. Bit(0, Pos(n, i) + j) = 0 /\ Bit(0, j) = 0
    BY <2>1, BitOfZero
  <2>3. f[i] = 0
    BY DEF f
  <2> QED
    BY <2>2, <2>3
<1> HIDE DEF f
<1>5. f = Limbs(n, 0)
  BY <1>2, <1>3, <1>4, LimbsDetermined
<1>6. [width |-> n, bits |-> <<>> \o f] = Vector(n, 0)
  BY <1>2, <1>3, <1>4, Unmasked
<1>7. lv_new(n) = [width |-> n, bits |-> <<>> \o f]
  BY DEF lv_new, Build, f
<1>8. \A i \in 1 .. LimbsFor(n) : f[i] = 0
  BY DEF f
<1> QED
  BY <1>2, <1>5, <1>6, <1>7, <1>8

LEMMA SetInZero ==
    ASSUME NEW n, Handled(n), NEW c \in {0, 1}
    PROVE  set_bit(lv_new(n), 0, c) = Vector(n, c) /\ c \in Values(n) /\ SetTo(0, 0, c) = c
<1>1. 0 \in Values(n) /\ lv_new(n) = Vector(n, 0) /\ n \in Nat \ {0} /\ 0 \in 0 .. n - 1
      /\ MaxBitWidth \in Nat
  BY NewIsZero, LimbWidth
<1>2. /\ SetTo(0, 0, c) \in Values(n)
      /\ set_bit(Vector(n, 0), 0, c) = Vector(n, SetTo(0, 0, c))
  BY <1>1, SetBit
<1>3. 2 ^ 0 = 1 /\ Bit(0, 0) = 0
  <2>1. 0 \in 0 .. MaxBitWidth
    BY <1>1
  <2> QED
    BY <2>1, PowersAssumption, BitOfZero
<1>4. SetTo(0, 0, c) = c
  BY <1>3 DEF SetTo
<1> QED
  BY <1>1, <1>2, <1>4

\* The vectors of width one.
LEMMA OneBitIs ==
    ASSUME NEW P \in BOOLEAN, Handled(1)
    PROVE  OneBit(P) = Vector(1, Truth(P))
<1>1. Truth(P) \in {0, 1}
  BY DEF Truth
<1> QED
  BY <1>1, SetInZero DEF OneBit

----------------------------------------------------------------------------
(* The order of two vectors is that of their numbers.                      *)

LEMMA EqualAbove ==
    ASSUME NEW n, Handled(n), NEW x \in Values(n), NEW y \in Values(n),
           NEW i \in 1 .. LimbsFor(n),
           \A k \in 1 .. LimbsFor(n) : k < i => Limbs(n, x)[k] = Limbs(n, y)[k]
    PROVE  x \div 2 ^ (Pos(n, i) + LimbBits) = y \div 2 ^ (Pos(n, i) + LimbBits)
<1> DEFINE L == LimbBits
           N == LimbsFor(n)
           m == Pos(n, i) + L
<1>1. /\ MaxBitWidth \in Nat /\ n \in 0 .. MaxBitWidth /\ n \in Nat /\ L \in Nat \ {0}
      /\ Pos(n, i) \in Nat /\ Pos(n, i) < n /\ n + L <= MaxBitWidth
      /\ m \in Nat /\ m <= MaxBitWidth
  <2>1. /\ MaxBitWidth \in Nat /\ n \in 0 .. MaxBitWidth /\ n \in Nat /\ L \in Nat \ {0}
        /\ n + L <= MaxBitWidth
    BY LimbWidth
  <2>2. Pos(n, i) \in Nat /\ Pos(n, i) < n
    BY Positions
  <2> QED
    BY <2>1, <2>2
<1>2. CASE n <= m
  <2>1. x \div 2 ^ m = 0 /\ y \div 2 ^ m = 0
    <3> HIDE DEF m
    <3> QED
      BY <1>1, <1>2, HighPartFits
  <2> QED
    BY <2>1
<1>3. CASE m < n
  <2> DEFINE w1 == n - m
             X == x \div 2 ^ m
             Y == y \div 2 ^ m
  <2>1. w1 \in 0 .. MaxBitWidth /\ X \in Values(w1) /\ Y \in Values(w1)
    <3>1. m <= n
      BY <1>1, <1>3
    <3> HIDE DEF m
    <3> QED
      BY <1>1, <3>1, HighPartFits
  <2>2. x \in Int /\ y \in Int
    BY <1>1, ValuesOf
  <2>3. ASSUME NEW j \in 0 .. w1 - 1 PROVE Bit(X, j) = Bit(Y, j)
    <3> DEFINE p == j + m
    <3>1. j \in Nat /\ p \in 0 .. n - 1 /\ p <= MaxBitWidth /\ m <= p
      BY <1>1, <2>1
    <3>2. Bit(X, j) = Bit(x, p) /\ Bit(Y, j) = Bit(y, p)
      <4> HIDE DEF m
      <4> QED
        BY <1>1, <2>2, <3>1, BitOfQuotient
    <3> DEFINE at == N - p \div L
               off == p % L
    <3> HIDE DEF p
    <3>3. at \in 1 .. N /\ off \in 0 .. L - 1 /\ p = Pos(n, at) + off
      BY <3>1, PlaceOf
    <3> HIDE DEF at, off
    <3>4. at < i
      <4>1. CASE i < at
        <5>1. Pos(n, at) + L <= Pos(n, i) /\ Pos(n, at) \in Nat
          BY <3>3, <4>1, Positions
        <5> QED
          BY <1>1, <3>1, <3>3, <5>1
      <4>2. CASE at = i
        BY <1>1, <3>1, <3>3, <4>2
      <4>3. i \in Int /\ at \in Int
        BY <3>3
      <4> QED
        BY <4>1, <4>2, <4>3
    <3>5. Limbs(n, x)[at] = Limbs(n, y)[at]
      BY <3>3, <3>4
    <3>6. Bit(Limbs(n, x)[at], off) = Bit(x, p) /\ Bit(Limbs(n, y)[at], off) = Bit(y, p)
      BY <3>3, BitOfLimb
    <3> QED
      BY <3>2, <3>5, <3>6
  <2> HIDE DEF X, Y, w1
  <2>4. X = Y
    BY <2>1, <2>3, BitsDetermine
  <2> QED
    BY <2>4 DEF X, Y
<1> QED
  BY <1>1, <1>2, <1>3

LEMMA LimbBelowHigh ==
    ASSUME NEW n, Handled(n), NEW x \in Values(n), NEW i \in 1 .. LimbsFor(n)
    PROVE  /\ x \div 2 ^ (Pos(n, i) + LimbBits) \in Int
           /\ Limbs(n, x)[i] \in Int
           /\ x \div 2 ^ Pos(n, i) = (x \div 2 ^ (Pos(n, i) + LimbBits)) * Base + Limbs(n, x)[i]
<1> DEFINE p == Pos(n, i)
           d == 2 ^ p
           q == x \div d
           m == p + LimbBits
<1>1. /\ p \in Nat /\ p < n /\ n + LimbBits <= MaxBitWidth /\ LimbBits \in Nat
      /\ MaxBitWidth \in Nat /\ n \in Nat /\ Base = 2 ^ LimbBits /\ Base \in Nat \ {0}
      /\ n \in 0 .. MaxBitWidth
  BY LimbWidth, Positions
<1> HIDE DEF p
<1>2. m <= MaxBitWidth /\ p \in 0 .. MaxBitWidth + 1 /\ m \in 0 .. MaxBitWidth + 1
  BY <1>1
<1>3. 2 ^ m = d * Base /\ d \in Nat \ {0}
  <2>1. 2 ^ (p + LimbBits) = 2 ^ p * 2 ^ LimbBits
    BY <1>1, <1>2, PowerOfSum
  <2>2. d \in Nat \ {0}
    BY <1>2, Powers
  <2> QED
    BY <1>1, <2>1, <2>2
<1>4. x \in Int
  BY <1>1, ValuesOf
<1> HIDE DEF d
<1>5. q \in Int /\ q \div Base = x \div (d * Base)
  <2>1. x \in Int /\ d \in Nat \ {0} /\ Base \in Nat \ {0}
    BY <1>1, <1>3, <1>4
  <2>2. (x \div d) \div Base = x \div (d * Base)
    BY <2>1, DivisionTwice
  <2>3. q \in Int
    BY <2>1, Division
  <2> QED
    BY <2>2, <2>3
<1> HIDE DEF q
<1>6. q \div Base \in Int /\ q % Base \in 0 .. Base - 1 /\ q = (q \div Base) * Base + (q % Base)
  BY <1>1, <1>5, Division
<1>7. Limbs(n, x)[i] = q % Base
  BY DEF Limbs, q, d, p
<1>8. q \div Base = x \div 2 ^ m
  BY <1>3, <1>5
<1>9. q % Base \in Int
  BY <1>1, <1>6
<1> QED
  BY <1>6, <1>7, <1>8, <1>9 DEF q, d, p

\* The first limb that differs decides.
LEMMA FirstLimbDecides ==
    ASSUME NEW n, Handled(n), NEW x \in Values(n), NEW y \in Values(n),
           NEW i \in 1 .. LimbsFor(n),
           \A k \in 1 .. LimbsFor(n) : k < i => Limbs(n, x)[k] = Limbs(n, y)[k],
           Limbs(n, x)[i] < Limbs(n, y)[i]
    PROVE  x < y
<1> DEFINE p == Pos(n, i)
           d == 2 ^ p
           q == x \div d
           r == y \div d
           s == x \div 2 ^ (p + LimbBits)
           t == s * Base
           u == Limbs(n, x)[i]
           v == Limbs(n, y)[i]
<1>1. s = y \div 2 ^ (p + LimbBits)
  BY EqualAbove
<1>2. s \in Int /\ u \in Int /\ v \in Int /\ q = s * Base + u /\ r = s * Base + v
  <2>1. s \in Int /\ u \in Int /\ q = s * Base + u
    BY LimbBelowHigh
  <2>2. v \in Int /\ r = (y \div 2 ^ (p + LimbBits)) * Base + v
    BY LimbBelowHigh
  <2> QED
    BY <1>1, <2>1, <2>2
<1>3. Base \in Int /\ d \in Nat \ {0} /\ x \in Int /\ y \in Int
  <2>1. Base \in Int /\ n \in 0 .. MaxBitWidth /\ MaxBitWidth \in Nat /\ p \in Nat /\ p < n
    BY LimbWidth, Positions
  <2>2. p \in 0 .. MaxBitWidth + 1
    BY <2>1
  <2> QED
    BY <2>1, <2>2, Powers, ValuesOf
<1>4. u < v
  OBVIOUS
<1> HIDE DEF u, v, s
<1>5. t \in Int /\ q = t + u /\ r = t + v
  BY <1>2, <1>3
<1> HIDE DEF q, r, t
<1>6. q \in Int /\ r \in Int /\ q < r
  BY <1>2, <1>4, <1>5
<1> HIDE DEF d
<1>7. q * d + d <= r * d
  BY <1>3, <1>6, ProductGrows
<1>8. x = q * d + (x % d) /\ x % d \in 0 .. d - 1
  BY <1>3, Division DEF q
<1>9. y = r * d + (y % d) /\ y % d \in 0 .. d - 1
  BY <1>3, Division DEF r
<1>10. q * d \in Int /\ r * d \in Int
  BY <1>3, <1>6
<1> QED
  BY <1>3, <1>7, <1>8, <1>9, <1>10

LEMMA LessIs ==
    ASSUME NEW n, Handled(n), NEW x \in Values(n), NEW y \in Values(n)
    PROVE  /\ Differing(Vector(n, x), Vector(n, y)) = {} <=> x = y
           /\ Less(Vector(n, x), Vector(n, y)) <=> x < y
<1> DEFINE N == LimbsFor(n)
           X == Limbs(n, x)
           Y == Limbs(n, y)
           D == {i \in 1 .. N : X[i] # Y[i]}
<1>1. Differing(Vector(n, x), Vector(n, y)) = D
  BY VectorParts DEF Differing
<1>2. x \in Nat /\ y \in Nat /\ N \in Nat
  BY LimbWidth, ValuesOf, Positions
<1>3. CASE D = {}
  <2>1. \A i \in 1 .. N : X[i] = Y[i]
    BY <1>3
  <2>2. X = Y
    <3>1. X = [i \in 1 .. N |-> X[i]] /\ Y = [i \in 1 .. N |-> Y[i]]
      BY DEF Limbs
    <3> HIDE DEF X, Y
    <3> QED
      BY <2>1, <3>1
  <2>3. x = y
    BY <2>2, NumbersDetermined
  <2> QED
    BY <1>1, <1>2, <1>3, <2>3 DEF Less
<1>4. CASE D # {}
  <2>1. x # y
    BY <1>4
  <2>2. PICK i \in D : \A k \in D : i <= k
    <3>1. D \in SUBSET Nat
      BY <1>2
    <3> HIDE DEF D
    <3> QED
      BY <1>4, <3>1, LeastNumber
  <2>3. Min(D) = i
    <3>1. D \in SUBSET Int
      BY <1>2
    <3> HIDE DEF D
    <3>2. \A k \in D : (\A l \in D : k <= l) => k = i
      BY <2>2, <3>1
    <3>3. Min(D) = CHOOSE k \in D : \A l \in D : k <= l
      BY DEF Min
    <3> QED
      BY <2>2, <3>2, <3>3
  <2>4. i \in 1 .. N /\ X[i] # Y[i] /\ \A k \in 1 .. N : k < i => X[k] = Y[k]
    BY <1>2, <2>2
  <2>5. Less(Vector(n, x), Vector(n, y)) <=> X[i] < Y[i]
    <3> HIDE DEF D
    <3>1. Vector(n, x).bits = X /\ Vector(n, y).bits = Y
      BY VectorParts
    <3> QED
      BY <1>1, <1>4, <2>3, <3>1 DEF Less
  <2>6. X[i] < Y[i] => x < y
    BY <2>4, FirstLimbDecides
  <2>7. Y[i] < X[i] => y < x
    BY <2>4, FirstLimbDecides
  <2>8. X[i] \in Int /\ Y[i] \in Int
    BY <2>4, LimbBelowHigh
  <2> HIDE DEF X, Y
  <2> QED
    BY <1>1, <1>2, <1>4, <2>1, <2>4, <2>5, <2>6, <2>7, <2>8
<1> QED
  BY <1>3, <1>4

LEMMA ComparisonsOnLimbs ==
    ASSUME NEW n, Handled(n), Handled(1), NEW x \in Values(n), NEW y \in Values(n)
    PROVE  LET V == Vector(n, x)
               W == Vector(n, y)
           IN  /\ lv_eq(V, W)  = Vector(1, Truth(x = y))
               /\ lv_ult(V, W) = Vector(1, bv_ult(x, y))
               /\ lv_ulte(V, W) = Vector(1, bv_ulte(x, y))
               /\ lv_slt(V, W)  = Vector(1, bv_slt(n, x, y))
               /\ lv_slte(V, W) = Vector(1, bv_slte(n, x, y))
               /\ compare(V, W) = IF x < y THEN -1 ELSE IF x > y THEN 1 ELSE 0
<1> DEFINE V == Vector(n, x)
           W == Vector(n, y)
<1>1. n \in Nat \ {0} /\ n - 1 \in 0 .. n - 1 /\ x \in Nat /\ y \in Nat
  <2>1. n \in 1 .. MaxBitWidth /\ n \in Nat \ {0}
    BY LimbWidth
  <2>2. n - 1 \in 0 .. n - 1
    BY <2>1
  <2> QED
    BY <2>1, <2>2, ValuesOf
<1>2. V.width = n /\ W.width = n
  BY VectorParts
<1>3. SignOf(V) = Sign(n, x) /\ SignOf(W) = Sign(n, y)
  BY <1>1, <1>2, GetBit DEF SignOf, Sign
<1>4. (Differing(V, W) = {} <=> x = y) /\ (Less(V, W) <=> x < y) /\ (Less(W, V) <=> y < x)
  BY LessIs
<1>5. ~(y < x) <=> x <= y
  BY <1>1
<1> HIDE DEF V, W
<1>6. lv_eq(V, W) = Vector(1, Truth(x = y))
  BY <1>4, OneBitIs DEF lv_eq
<1>7. lv_ult(V, W) = Vector(1, bv_ult(x, y))
  <2>1. Less(V, W) \in BOOLEAN /\ (Less(V, W) <=> x < y)
    BY <1>4 DEF Less
  <2>2. Truth(Less(V, W)) = bv_ult(x, y)
    BY <2>1 DEF Truth, bv_ult
  <2>3. OneBit(Less(V, W)) = Vector(1, Truth(Less(V, W)))
    BY <2>1, OneBitIs
  <2> QED
    BY <2>2, <2>3 DEF lv_ult
<1>8. lv_ulte(V, W) = Vector(1, bv_ulte(x, y))
  <2>1. (~Less(W, V)) \in BOOLEAN /\ (~Less(W, V) <=> x <= y)
    <3>1. Less(W, V) <=> ~(x <= y)
      BY <1>1, <1>4
    <3> QED
      BY <3>1
  <2>2. Truth(~Less(W, V)) = bv_ulte(x, y)
    BY <2>1 DEF Truth, bv_ulte
  <2>3. OneBit(~Less(W, V)) = Vector(1, Truth(~Less(W, V)))
    BY <2>1, OneBitIs
  <2> QED
    BY <2>2, <2>3 DEF lv_ulte
<1>9. lv_slt(V, W) = Vector(1, bv_slt(n, x, y))
  <2>1. CASE Sign(n, x) = Sign(n, y)
    <3>1. lv_slt(V, W) = OneBit(Less(V, W)) /\ bv_slt(n, x, y) = bv_ult(x, y)
      BY <1>3, <2>1 DEF lv_slt, bv_slt
    <3> QED
      BY <1>7, <3>1 DEF lv_ult
  <2>2. CASE Sign(n, x) # Sign(n, y)
    <3>1. lv_slt(V, W) = OneBit(Sign(n, x) = 1) /\ bv_slt(n, x, y) = Truth(Sign(n, x) = 1)
      BY <1>3, <2>2 DEF lv_slt, bv_slt
    <3> QED
      BY <3>1, OneBitIs
  <2> QED
    BY <2>1, <2>2
<1>10. lv_slte(V, W) = Vector(1, bv_slte(n, x, y))
  <2>1. CASE Sign(n, x) = Sign(n, y)
    <3>1. lv_slte(V, W) = OneBit(~Less(W, V)) /\ bv_slte(n, x, y) = bv_ulte(x, y)
      BY <1>3, <2>1 DEF lv_slte, bv_slte
    <3> QED
      BY <1>8, <3>1 DEF lv_ulte
  <2>2. CASE Sign(n, x) # Sign(n, y)
    <3>1. lv_slte(V, W) = OneBit(Sign(n, x) = 1) /\ bv_slte(n, x, y) = Truth(Sign(n, x) = 1)
      BY <1>3, <2>2 DEF lv_slte, bv_slte
    <3> QED
      BY <3>1, OneBitIs
  <2> QED
    BY <2>1, <2>2
<1>11. compare(V, W) = IF x < y THEN -1 ELSE IF x > y THEN 1 ELSE 0
  <2>1. CASE x < y
    BY <1>1, <1>2, <1>4, <2>1 DEF compare
  <2>2. CASE x > y
    BY <1>1, <1>2, <1>4, <2>2 DEF compare
  <2>3. CASE x = y
    BY <1>1, <1>2, <1>4, <2>3 DEF compare
  <2> QED
    BY <1>1, <2>1, <2>2, <2>3
<1> QED
  BY <1>6, <1>7, <1>8, <1>9, <1>10, <1>11 DEF V, W

----------------------------------------------------------------------------
(* Constants and reductions.                                               *)

LEMMA OnesFit == ASSUME NEW n, Handled(n)
                 PROVE  2 ^ n - 1 \in Values(n) /\ bv_not(n, 0) = 2 ^ n - 1
<1>1. n \in 0 .. MaxBitWidth + 1
  BY LimbWidth
<1>2. 2 ^ n \in Nat \ {0}
  BY <1>1, Powers
<1> QED
  BY <1>2 DEF Values, bv_not

LEMMA ConstantsOnLimbs ==
    ASSUME NEW n, Handled(n)
    PROVE  lv_one(n) = Vector(n, 1) /\ lv_ones(n) = Vector(n, 2 ^ n - 1)
<1>1. lv_one(n) = Vector(n, 1)
  BY SetInZero DEF lv_one
<1>2. lv_ones(n) = Vector(n, bv_not(n, 0))
  BY NewIsZero, BitwiseOnLimbs DEF lv_ones
<1> QED
  BY <1>1, <1>2, OnesFit

\* The limbs of the largest number: full ones, but the first where it has spare bits.
LEMMA LimbsOfOnes ==
    ASSUME NEW n, Handled(n), NEW i \in 1 .. LimbsFor(n)
    PROVE  Limbs(n, 2 ^ n - 1)[i] =
             IF i = 1 /\ n # LimbBits * LimbsFor(n) THEN MaskRemBits(n) ELSE Base - 1
<1> DEFINE L == LimbBits
           N == LimbsFor(n)
           short == n # L * N
           k == n % L
           f == [l \in 1 .. N |-> IF l = 1 /\ short THEN 2 ^ k - 1 ELSE 2 ^ L - 1]
           x == 2 ^ n - 1
<1>1. /\ MaxBitWidth \in Nat /\ n \in 0 .. MaxBitWidth /\ n \in Nat /\ L \in Nat \ {0}
      /\ L \in 0 .. MaxBitWidth /\ Base = 2 ^ L /\ Values(L) = 0 .. Base - 1
  BY LimbWidth
<1>2. k \in 0 .. L - 1 /\ MaskRemBits(n) = 2 ^ k - 1
  BY MaskIs
<1>3. k \in 0 .. MaxBitWidth /\ k \in Nat /\ L - k \in Nat /\ k + (L - k) = L
  BY <1>1, <1>2
<1>4. x \in Values(n)
  BY OnesFit
<1>5. 2 ^ L - 1 \in 0 .. Base - 1 /\ 2 ^ k - 1 \in 0 .. Base - 1
  <2> HIDE DEF k
  <2>1. 2 ^ (k + (L - k)) = 2 ^ k * 2 ^ (L - k)
    BY <1>1, <1>3, PowerOfSum
  <2>2. 2 ^ k \in Nat \ {0} /\ 2 ^ (L - k) \in Nat \ {0}
    <3>1. k \in 0 .. MaxBitWidth + 1 /\ L - k \in 0 .. MaxBitWidth + 1
      BY <1>1, <1>3
    <3> QED
      BY <3>1, Powers
  <2>3. \A c, d \in Nat \ {0} : c - 1 \in 0 .. c * d - 1 /\ c * d - 1 \in 0 .. c * d - 1
    OBVIOUS
  <2> QED
    BY <1>1, <1>3, <2>1, <2>2, <2>3
<1>6. f \in [1 .. N -> 0 .. Base - 1]
  BY <1>5
<1>7. ASSUME NEW l \in 1 .. N, NEW j \in 0 .. L - 1
      PROVE  Bit(f[l], j) = IF Pos(n, l) + j < n THEN Bit(x, Pos(n, l) + j) ELSE 0
  <2> DEFINE m == Pos(n, l) + j
  <2>1. m \in 0 .. MaxBitWidth /\ Pos(n, l) \in Nat
    BY <1>4, BitOfLimb, Positions
  <2>2. j \in 0 .. MaxBitWidth
    BY <1>1
  <2>3. Bit(x, m) = IF m < n THEN 1 ELSE 0
    <3> HIDE DEF m
    <3> QED
      BY <1>1, <2>1, BitOfOnes
  <2>4. Bit(2 ^ k - 1, j) = IF j < k THEN 1 ELSE 0
    <3> HIDE DEF k
    <3> QED
      BY <1>3, <2>2, BitOfOnes
  <2>5. Bit(2 ^ L - 1, j) = 1
    BY <1>1, <2>2, BitOfOnes
  <2>6. CASE l = 1 /\ short
    <3>1. k = n - Pos(n, 1)
      BY <2>6, FirstLimbWidth
    <3>2. j < k <=> m < n
      <4> HIDE DEF k
      <4> QED
        BY <1>1, <2>1, <2>6, <3>1
    <3>3. f[l] = 2 ^ k - 1
      BY <2>6
    <3> HIDE DEF f, x, m, k
    <3> QED
      BY <2>3, <2>4, <3>2, <3>3 DEF m
  <2>7. CASE ~(l = 1 /\ short)
    <3>1. f[l] = 2 ^ L - 1
      BY <2>7
    <3>2. m < n
      <4>1. CASE l = 1
        <5>1. n = Pos(n, 1) + L
          BY <2>7, <4>1, FirstLimbWidth
        <5> QED
          BY <1>1, <2>1, <4>1, <5>1
      <4>2. CASE l # 1
        <5>1. 1 \in 1 .. N /\ 1 < l
          BY <4>2, Positions
        <5>2. Pos(n, l) + L <= Pos(n, 1) /\ Pos(n, 1) < n /\ Pos(n, 1) \in Nat
          BY <5>1, Positions
        <5> QED
          BY <1>1, <2>1, <5>2
      <4> QED
        BY <4>1, <4>2
    <3> HIDE DEF f, x, m
    <3> QED
      BY <2>3, <2>5, <3>1, <3>2 DEF m
  <2> QED
    BY <2>6, <2>7
<1> HIDE DEF f, x
<1>8. f = Limbs(n, x)
  <2>1. LimbsHave(n, x, f)
    BY <1>7 DEF LimbsHave
  <2> QED
    BY <1>4, <1>6, <2>1, LimbsAre
<1>9. f[i] = IF i = 1 /\ short THEN 2 ^ k - 1 ELSE 2 ^ L - 1
  BY DEF f
<1> QED
  BY <1>1, <1>2, <1>8, <1>9 DEF x

LEMMA ReductionsOnLimbs ==
    ASSUME NEW n, Handled(n), Handled(1), NEW x \in Values(n)
    PROVE  /\ lv_redand(Vector(n, x)) = Vector(1, bv_redand(n, x))
           /\ lv_redor(Vector(n, x))  = Vector(1, bv_redor(n, x))
           /\ lv_redxor(Vector(n, x)) = Vector(1, bv_redxor(n, x))
<1> DEFINE V == Vector(n, x)
           N == LimbsFor(n)
           X == Limbs(n, x)
           o == 2 ^ n - 1
           O == Limbs(n, o)
           Z == Limbs(n, 0)
<1>1. V.width = n /\ V.bits = X /\ NumLimbs(V) = N /\ DOMAIN X = 1 .. N /\ N \in Nat \ {0}
  BY VectorParts, Positions
<1>2. o \in Values(n) /\ 0 \in Values(n) /\ \A i \in 1 .. N : Z[i] = 0
  BY OnesFit, NewIsZero
<1>3. \A i \in 1 .. N : O[i] = IF i = 1 /\ n # LimbBits * N THEN MaskRemBits(n) ELSE Base - 1
  BY LimbsOfOnes
<1>4. \A f, g : (\E h : f = [i \in 1 .. N |-> h[i]]) /\ (\E h : g = [i \in 1 .. N |-> h[i]])
                /\ (\A i \in 1 .. N : f[i] = g[i]) => f = g
  OBVIOUS
<1>5. ASSUME NEW y \in Values(n), \A i \in 1 .. N : X[i] = Limbs(n, y)[i]
      PROVE  x = y
  <2>1. X = [i \in 1 .. N |-> X[i]] /\ Limbs(n, y) = [i \in 1 .. N |-> Limbs(n, y)[i]]
    BY DEF Limbs
  <2>2. X = Limbs(n, y)
    BY <1>5, <2>1
  <2> QED
    BY <2>2, NumbersDetermined
<1> HIDE DEF V, o
<1>6. lv_redand(V) = Vector(1, bv_redand(n, x))
  <2> DEFINE P == /\ X[1] = (IF n = LimbBits * N THEN Base - 1 ELSE MaskRemBits(n))
                  /\ \A i \in 2 .. N : X[i] = Base - 1
  <2>1. lv_redand(V) = OneBit(P)
    BY <1>1 DEF lv_redand
  <2>2. P <=> \A i \in 1 .. N : X[i] = O[i]
    <3> HIDE DEF X, O, N
    <3> QED
      BY <1>1, <1>3
  <2>3. (\A i \in 1 .. N : X[i] = O[i]) <=> x = o
    BY <1>2, <1>5
  <2>4. P \in BOOLEAN /\ (P <=> x = o)
    BY <2>2, <2>3
  <2> HIDE DEF P
  <2>5. OneBit(P) = Vector(1, Truth(P))
    BY <2>4, OneBitIs
  <2>6. Truth(P) = bv_redand(n, x)
    BY <2>4 DEF Truth, bv_redand, o
  <2> QED
    BY <2>1, <2>5, <2>6
<1>7. lv_redor(V) = Vector(1, bv_redor(n, x))
  <2> DEFINE P == \E i \in 1 .. N : X[i] # 0
  <2>1. lv_redor(V) = OneBit(P)
    BY <1>1 DEF lv_redor
  <2>2. P \in BOOLEAN /\ (P <=> x # 0)
    BY <1>2, <1>5
  <2> HIDE DEF P
  <2>3. OneBit(P) = Vector(1, Truth(P))
    BY <2>2, OneBitIs
  <2>4. Truth(P) = bv_redor(n, x)
    BY <2>2 DEF Truth, bv_redor
  <2> QED
    BY <2>1, <2>3, <2>4
<1>8. lv_redxor(V) = Vector(1, bv_redxor(n, x))
  <2> DEFINE s == SumBelow(n, [i \in 0 .. n - 1 |-> Bit(x, i)])
  <2>1. [i \in 0 .. n - 1 |-> get_bit(V, i)] = [i \in 0 .. n - 1 |-> Bit(x, i)]
    BY GetBit DEF V
  <2>2. lv_redxor(V) = OneBit(s % 2 = 1)
    BY <1>1, <2>1 DEF lv_redxor
  <2>3. bv_redxor(n, x) = s % 2
    BY DEF bv_redxor
  <2>4. bv_redxor(n, x) \in {0, 1}
    <3>1. n \in 1 .. MaxBitWidth
      BY LimbWidth
    <3> QED
      BY <3>1, ComparisonsFit
  <2> HIDE DEF s
  <2>5. OneBit(s % 2 = 1) = Vector(1, Truth(s % 2 = 1))
    BY OneBitIs
  <2>6. Truth(s % 2 = 1) = s % 2
    BY <2>3, <2>4 DEF Truth
  <2> QED
    BY <2>2, <2>3, <2>5, <2>6
<1> QED
  BY <1>6, <1>7, <1>8 DEF V

\* The condition chooses every bit of one operand.
LEMMA IteOnLimbs ==
    ASSUME NEW n, Handled(n), Handled(1), NEW x \in Values(n), NEW y \in Values(n),
           NEW c \in 0 .. 1
    PROVE  lv_ite(Vector(1, c), Vector(n, x), Vector(n, y)) =
             IF c = 1 THEN Vector(n, x) ELSE Vector(n, y)
<1> DEFINE V == Vector(n, x)
           W == Vector(n, y)
           N == LimbsFor(n)
           X == Limbs(n, x)
           Y == Limbs(n, y)
           cc == IF c = 1 THEN Base - 1 ELSE 0
           z == IF c = 1 THEN x ELSE y
           f == [i \in 1 .. N |-> LimbOr(LimbAnd(cc, X[i]), LimbAnd(LimbNot(cc), Y[i]))]
<1>1. c \in {0, 1} /\ c \in Values(1) /\ 0 \in 0 .. 1 - 1 /\ z \in Values(n)
  <2>1. c \in {0, 1}
    OBVIOUS
  <2> QED
    BY <2>1, SetInZero
<1>2. get_bit(Vector(1, c), 0) = c
  <2>1. get_bit(Vector(1, c), 0) = Bit(c, 0)
    BY <1>1, GetBit
  <2> QED
    BY <1>1, <2>1, BitOfTruth
<1>3. V.width = n /\ V.bits = X /\ W.bits = Y
  BY VectorParts
<1>4. lv_ite(Vector(1, c), V, W) = [width |-> n, bits |-> <<>> \o f]
  BY <1>2, <1>3 DEF lv_ite, Limbwise, Build
<1>5. /\ MaxBitWidth \in Nat /\ LimbBits \in 0 .. MaxBitWidth /\ LimbBits \in Nat \ {0}
      /\ Base = 2 ^ LimbBits /\ Base \in Nat \ {0} /\ cc \in 0 .. Base - 1
  <2>1. /\ MaxBitWidth \in Nat /\ LimbBits \in 0 .. MaxBitWidth /\ LimbBits \in Nat \ {0}
        /\ Base = 2 ^ LimbBits /\ Base \in Nat \ {0}
    BY LimbWidth
  <2> QED
    BY <2>1
<1>6. \A j \in 0 .. LimbBits - 1 : Bit(cc, j) = c
  <2> TAKE j \in 0 .. LimbBits - 1
  <2>1. j \in 0 .. MaxBitWidth
    BY <1>5
  <2>2. CASE c = 1
    <3>1. Bit(2 ^ LimbBits - 1, j) = 1
      BY <1>5, <2>1, BitOfOnes
    <3> QED
      BY <1>5, <2>2, <3>1
  <2>3. CASE c = 0
    BY <2>1, <2>3, BitOfZero
  <2> QED
    BY <1>1, <2>2, <2>3
<1> HIDE DEF cc
<1>7. ASSUME NEW i \in 1 .. N
      PROVE  /\ f[i] \in 0 .. Base - 1
             /\ \A j \in 0 .. LimbBits - 1 :
                  Bit(f[i], j) = IF Pos(n, i) + j < n THEN Bit(z, Pos(n, i) + j) ELSE 0
  <2> DEFINE S == LimbAnd(cc, X[i])
             T == LimbAnd(LimbNot(cc), Y[i])
  <2>1. X[i] \in 0 .. Base - 1 /\ Y[i] \in 0 .. Base - 1
    BY LimbBitsOf
  <2>2. LimbNot(cc) \in 0 .. Base - 1
    BY <1>5, LimbConnectives
  <2> HIDE DEF X, Y
  <2>3. S \in 0 .. Base - 1 /\ T \in 0 .. Base - 1
    BY <1>5, <2>1, <2>2, LimbConnectives
  <2>4. f[i] = LimbOr(S, T)
    OBVIOUS
  <2>5. \A j \in 0 .. LimbBits - 1 :
          /\ Bit(S, j) = Bit(cc, j) * Bit(X[i], j) /\ Bit(X[i], j) \in {0, 1}
          /\ Bit(T, j) = Bit(LimbNot(cc), j) * Bit(Y[i], j) /\ Bit(Y[i], j) \in {0, 1}
          /\ Bit(LimbNot(cc), j) = 1 - Bit(cc, j)
    <3> DEFINE C == LimbNot(cc)
               U == X[i]
               W2 == Y[i]
    <3>1. U \in 0 .. Base - 1 /\ W2 \in 0 .. Base - 1 /\ C \in 0 .. Base - 1
      BY <2>1, <2>2
    <3> TAKE j \in 0 .. LimbBits - 1
    <3>2. Bit(C, j) = 1 - Bit(cc, j)
      BY <1>5, LimbConnectives
    <3> HIDE DEF C, U, W2
    <3>3. Bit(LimbAnd(cc, U), j) = Bit(cc, j) * Bit(U, j) /\ Bit(U, j) \in {0, 1}
      BY <1>5, <3>1, LimbConnectives
    <3>4. Bit(LimbAnd(C, W2), j) = Bit(C, j) * Bit(W2, j) /\ Bit(W2, j) \in {0, 1}
      BY <3>1, LimbConnectives
    <3> QED
      BY <3>2, <3>3, <3>4 DEF C, U, W2
  <2> HIDE DEF S, T, f
  <2>6. LimbOr(S, T) \in 0 .. Base - 1
    BY <2>3, LimbConnectives
  <2>7. ASSUME NEW j \in 0 .. LimbBits - 1
        PROVE  Bit(LimbOr(S, T), j) = IF c = 1 THEN Bit(X[i], j) ELSE Bit(Y[i], j)
    <3>1. Bit(LimbOr(S, T), j) = Bit(S, j) + Bit(T, j) - Bit(S, j) * Bit(T, j)
      BY <2>3, LimbConnectives
    <3> DEFINE p == Bit(X[i], j)
               q == Bit(Y[i], j)
    <3>2. p \in {0, 1} /\ q \in {0, 1} /\ Bit(S, j) = c * p /\ Bit(T, j) = (1 - c) * q
      BY <1>6, <2>5
    <3> HIDE DEF p, q
    <3>3. CASE c = 1
      <4>1. Bit(S, j) = p /\ Bit(T, j) = 0 /\ p \in Int
        BY <3>2, <3>3
      <4> QED
        BY <3>1, <3>3, <4>1 DEF p
    <3>4. CASE c = 0
      <4>1. Bit(S, j) = 0 /\ Bit(T, j) = q /\ q \in Int
        BY <3>2, <3>4
      <4> QED
        BY <3>1, <3>4, <4>1 DEF q
    <3> QED
      BY <1>1, <3>3, <3>4
  <2>8. \A j \in 0 .. LimbBits - 1 :
          /\ Bit(X[i], j) = IF Pos(n, i) + j < n THEN Bit(x, Pos(n, i) + j) ELSE 0
          /\ Bit(Y[i], j) = IF Pos(n, i) + j < n THEN Bit(y, Pos(n, i) + j) ELSE 0
    BY LimbBitsOf DEF X, Y
  <2> QED
    BY <2>4, <2>6, <2>7, <2>8
<1>8. f \in [1 .. N -> 0 .. Base - 1]
  <2>1. f = [i \in 1 .. N |-> f[i]]
    OBVIOUS
  <2> HIDE DEF f
  <2> QED
    BY <1>7, <2>1
<1> HIDE DEF f, z
<1>9. [width |-> n, bits |-> <<>> \o f] = Vector(n, z)
  BY <1>1, <1>7, <1>8, Unmasked
<1> QED
  BY <1>1, <1>4, <1>9 DEF z

----------------------------------------------------------------------------
(* Small numbers: all limbs but the last are zero.                         *)

LEMMA LastLimb ==
    ASSUME NEW n, Handled(n), NEW x \in Values(n)
    PROVE  LET N == LimbsFor(n)
           IN  /\ N \in Nat \ {0} /\ Limbs(n, x)[N] \in 0 .. Base - 1
               /\ (\A i \in 1 .. N - 1 : Limbs(n, x)[i] = 0) <=> x < Base
               /\ x < Base => Limbs(n, x)[N] = x
<1> DEFINE N == LimbsFor(n)
           X == Limbs(n, x)
<1>1. /\ N \in Nat \ {0} /\ N \in 1 .. N /\ Pos(n, N) = 0 /\ n \in 0 .. MaxBitWidth
      /\ MaxBitWidth \in Nat /\ LimbBits \in Nat \ {0} /\ Base = 2 ^ LimbBits
      /\ Base \in Nat \ {0} /\ LimbBits \in 0 .. MaxBitWidth /\ Values(LimbBits) = 0 .. Base - 1
      /\ n \in Nat
  BY LimbWidth, Positions
<1>2. x \in Nat /\ 2 ^ 0 = 1 /\ X[N] \in 0 .. Base - 1
  <2>1. n \in 1 .. MaxBitWidth
    BY LimbWidth
  <2> QED
    BY <1>1, <2>1, ValuesOf, PowersAssumption, LimbBitsOf
<1>3. x \div 1 = x
  BY <1>2
<1>4. 0 + LimbBits = LimbBits
  BY <1>1
<1>5. ASSUME \A i \in 1 .. N - 1 : X[i] = 0 PROVE x < Base
  <2> DEFINE Z == Limbs(n, 0)
  <2>1. 0 \in Values(n) /\ \A i \in 1 .. N : Z[i] = 0
    BY NewIsZero
  <2>2. \A k \in 1 .. N : k < N => X[k] = Z[k]
    BY <1>1, <1>5, <2>1
  <2>3. x \div 2 ^ (Pos(n, N) + LimbBits) = 0 \div 2 ^ (Pos(n, N) + LimbBits)
    BY <1>1, <2>1, <2>2, EqualAbove
  <2>4. x \div Base = 0 \div Base
    BY <1>1, <1>4, <2>3
  <2> DEFINE c == Base
  <2>5. c \in Nat \ {0} /\ x \in Nat
    BY <1>1, <1>2
  <2>6. 0 \div c = 0
    <3> HIDE DEF c
    <3> QED
      BY <2>5
  <2>7. x % c \in 0 .. c - 1 /\ x = (x \div c) * c + (x % c)
    <3>1. x \in Int
      BY <2>5
    <3> HIDE DEF c
    <3> QED
      BY <2>5, <3>1, Division
  <2> QED
    BY <2>4, <2>5, <2>6, <2>7
<1>6. ASSUME x < Base PROVE X[N] = x /\ \A i \in 1 .. N - 1 : X[i] = 0
  <2> DEFINE f == [i \in 1 .. N |-> IF i = N THEN x ELSE 0]
  <2>1. f \in [1 .. N -> 0 .. Base - 1] /\ x \in Values(LimbBits)
    BY <1>1, <1>2, <1>6
  <2>2. ASSUME NEW i \in 1 .. N, NEW j \in 0 .. LimbBits - 1
        PROVE  Bit(f[i], j) = IF Pos(n, i) + j < n THEN Bit(x, Pos(n, i) + j) ELSE 0
    <3> DEFINE m == Pos(n, i) + j
    <3>1. m \in 0 .. MaxBitWidth /\ j \in 0 .. MaxBitWidth /\ Pos(n, i) \in Nat
      <4>1. m \in 0 .. MaxBitWidth
        BY BitOfLimb
      <4>2. j \in 0 .. MaxBitWidth
        BY <1>1
      <4>3. Pos(n, i) \in Nat
        BY Positions
      <4> QED
        BY <4>1, <4>2, <4>3
    <3>2. CASE i = N
      <4>1. m = j /\ f[i] = x
        BY <1>1, <3>1, <3>2
      <4>2. ~(j < n) => Bit(x, j) = 0
        <5>1. ~(j < n) => j \in n .. MaxBitWidth
          BY <1>1, <3>1
        <5> QED
          BY <1>1, <5>1, BitAbove
      <4> HIDE DEF f, m
      <4> QED
        BY <4>1, <4>2 DEF m
    <3>3. CASE i # N
      <4>1. Pos(n, N) + LimbBits <= Pos(n, i) /\ f[i] = 0
        <5>1. i < N
          BY <1>1, <3>3
        <5> QED
          BY <1>1, <3>3, <5>1, Positions
      <4>2. m \in LimbBits .. MaxBitWidth
        BY <1>1, <3>1, <4>1
      <4> HIDE DEF f, m
      <4>3. Bit(x, m) = 0 /\ Bit(0, j) = 0
        BY <1>1, <2>1, <3>1, <4>2, BitAbove, BitOfZero
      <4> QED
        BY <4>1, <4>3 DEF m
    <3> QED
      BY <3>2, <3>3
  <2>3. \A i \in 1 .. N : f[i] = IF i = N THEN x ELSE 0
    OBVIOUS
  <2> HIDE DEF f
  <2>4. LimbsHave(n, x, f)
    BY <2>2 DEF LimbsHave
  <2>5. f = X
    BY <2>1, <2>4, LimbsAre
  <2> HIDE DEF X, N
  <2> QED
    BY <1>1, <2>3, <2>5
<1> QED
  BY <1>1, <1>2, <1>5, <1>6

LEMMA QueriesOnLimbs ==
    ASSUME NEW n, Handled(n), NEW x \in Values(n)
    PROVE  LET V == Vector(n, x)
           IN  /\ is_one(V) = (x = 1)
               /\ n = LimbBits \/ n % LimbBits # 0 => is_ones(V) = {x = 2 ^ n - 1}
               /\ small_positive_int(V) = IF x < Base \div 2 THEN x ELSE -1
<1> DEFINE V == Vector(n, x)
           N == LimbsFor(n)
           X == Limbs(n, x)
           half == Base \div 2
<1>1. V.width = n /\ V.bits = X /\ NumLimbs(V) = N
  BY VectorParts
<1>2. /\ N \in Nat \ {0} /\ X[N] \in 0 .. Base - 1
      /\ (\A i \in 1 .. N - 1 : X[i] = 0) <=> x < Base
      /\ x < Base => X[N] = x
  BY LastLimb
<1>3. x \in Nat /\ Base \in Nat /\ 1 < Base /\ half \in Nat /\ half <= Base /\ n \in Nat
      /\ LimbBits \in Nat \ {0} /\ MaxBitWidth \in Nat /\ LimbBits <= MaxBitWidth
  <2>1. /\ n \in 1 .. MaxBitWidth /\ LimbBits \in Nat \ {0} /\ LimbBits <= MaxBitWidth
        /\ MaxBitWidth \in Nat /\ Base = 2 ^ LimbBits /\ n \in Nat
    BY LimbWidth
  <2>2. LimbBits \in 0 .. MaxBitWidth /\ LimbBits < 2 ^ LimbBits
    BY <2>1, WidthFits
  <2>3. Base \in Nat /\ 1 < Base
    BY <2>1, <2>2, LimbWidth
  <2>4. half \in Nat /\ half <= Base
    BY <2>3
  <2> QED
    BY <2>1, <2>3, <2>4, ValuesOf
<1> HIDE DEF V, X, N, half
<1>4. is_one(V) = (x = 1)
  <2>1. is_one(V) <=> x = 1
    BY <1>1, <1>2, <1>3 DEF is_one
  <2> QED
    BY <2>1 DEF is_one
<1>5. small_positive_int(V) = IF x < half THEN x ELSE -1
  <2>1. small_positive_int(V) = IF ~(x < Base) \/ X[N] >= half THEN -1 ELSE X[N]
    BY <1>1, <1>2 DEF small_positive_int, half
  <2> QED
    BY <1>2, <1>3, <2>1
<1>6. ASSUME n = LimbBits \/ n % LimbBits # 0
      PROVE  is_ones(V) = {x = 2 ^ n - 1}
  <2> DEFINE o == 2 ^ n - 1
             O == Limbs(n, o)
             k == n % LimbBits
             s == LimbBits - k
             rest == \A i \in 2 .. N : X[i] = Base - 1
             only == IF n = LimbBits THEN Base - 1 ELSE (Base - 1) \div 2 ^ s
  <2>1. o \in Values(n) /\ \A i \in 1 .. N : O[i] =
             IF i = 1 /\ n # LimbBits * N THEN MaskRemBits(n) ELSE Base - 1
    BY OnesFit, LimbsOfOnes DEF N
  <2>2. x = o <=> \A i \in 1 .. N : X[i] = O[i]
    <3>1. X = [i \in 1 .. N |-> X[i]] /\ O = [i \in 1 .. N |-> O[i]]
      BY DEF Limbs, X, N
    <3>2. X = O => x = o
      BY <2>1, NumbersDetermined DEF X
    <3>3. x = o => X = O
      BY DEF X
    <3> HIDE DEF O
    <3> QED
      BY <3>1, <3>2, <3>3
  <2>3. k \in 0 .. LimbBits - 1 /\ MaskRemBits(n) = 2 ^ k - 1
    BY MaskIs
  <2>4. O[1] = only
    <3>1. CASE n = LimbBits
      <4>1. N = 1
        <5>1. N * LimbBits < 2 * LimbBits
          <6>1. Pos(n, 1) + LimbBits = LimbBits * N /\ Pos(n, 1) < n
            BY <1>2, <1>3, Positions DEF Pos, N
          <6>2. LimbBits * N = N * LimbBits /\ N * LimbBits \in Int
            BY <1>2, <1>3
          <6>3. Pos(n, 1) \in Int
            BY <1>2, Positions DEF N
          <6> QED
            BY <1>3, <3>1, <6>1, <6>2, <6>3
        <5>2. 1 < N => 1 * LimbBits + LimbBits <= N * LimbBits
          BY <1>2, <1>3, ProductGrows
        <5>3. 1 * LimbBits + LimbBits = 2 * LimbBits /\ N * LimbBits \in Int
          BY <1>2, <1>3
        <5> QED
          BY <1>2, <1>3, <5>1, <5>2, <5>3
      <4>2. n = LimbBits * N
        BY <1>3, <3>1, <4>1
      <4> QED
        BY <1>2, <2>1, <3>1, <4>2
    <3>2. CASE n # LimbBits
      <4>1. n # LimbBits * N
        <5>1. n = LimbBits * N => n % LimbBits = 0
          <6> SUFFICES ASSUME n = LimbBits * N PROVE n % LimbBits = 0
            OBVIOUS
          <6>1. n = N * LimbBits + 0 /\ n \in Int /\ N \in Int /\ 0 \in 0 .. LimbBits - 1
            BY <1>2, <1>3
          <6>2. LimbBits \in Nat \ {0}
            BY <1>3
          <6> QED
            BY <6>1, <6>2, QuotientAndRest
        <5> QED
          BY <1>6, <3>2, <5>1
      <4>2. O[1] = 2 ^ k - 1
        BY <1>2, <2>1, <2>3, <4>1
      <4>3. (2 ^ LimbBits - 1) \div 2 ^ (LimbBits - k) = 2 ^ k - 1
        <5>1. LimbBits \in 0 .. MaxBitWidth /\ k \in 0 .. LimbBits
          BY <1>3, <2>3
        <5> HIDE DEF k
        <5> QED
          BY <5>1, OnesShifted
      <4> QED
        BY <3>2, <4>2, <4>3 DEF Base
    <3> QED
      BY <3>1, <3>2
  <2>5. \A i \in 2 .. N : i \in 1 .. N /\ O[i] = Base - 1
    BY <1>2, <2>1
  <2>6. is_ones(V) = {rest /\ X[1] = only}
    <3>1. CASE ~rest
      <4>1. is_ones(V) = {FALSE}
        BY <1>1, <3>1 DEF is_ones
      <4>2. (rest /\ X[1] = only) = FALSE
        BY <3>1
      <4> QED
        BY <4>1, <4>2
    <3>2. CASE rest
      <4>1. (rest /\ X[1] = only) = (X[1] = only)
        BY <3>2
      <4>2. CASE n = LimbBits
        BY <1>1, <3>2, <4>1, <4>2 DEF is_ones
      <4>3. CASE n # LimbBits
        <5>1. s # LimbBits
          BY <1>3, <1>6, <2>3, <4>3
        <5> QED
          BY <1>1, <3>2, <4>1, <4>3, <5>1 DEF is_ones
      <4> QED
        BY <4>2, <4>3
    <3> QED
      BY <3>1, <3>2
  <2>7. rest /\ X[1] = only <=> \A i \in 1 .. N : X[i] = O[i]
    <3> HIDE DEF O, only
    <3> QED
      BY <1>2, <2>4, <2>5
  <2> HIDE DEF rest, only
  <2>8. (rest /\ X[1] = only) = (x = o)
    BY <2>2, <2>7
  <2> QED
    BY <2>6, <2>8
<1> QED
  BY <1>4, <1>5, <1>6 DEF V, half

----------------------------------------------------------------------------
(* Leading and trailing zeros, powers of two.                              *)

LEMMA ZerosOnLimbs ==
    ASSUME NEW n, Handled(n), NEW x \in Values(n), NEW m \in 0 .. n
    PROVE  /\ get_num_leading_zeros(Vector(n, x)) \in Nat
           /\ get_num_leading_zeros(Vector(n, x)) >= m <=> x < 2 ^ (n - m)
           /\ get_num_trailing_zeros(Vector(n, x)) >= m <=> x % 2 ^ m = 0
<1> DEFINE V == Vector(n, x)
           S == {i \in 0 .. n - 1 : Bit(x, i) = 1}
           k == n - m
<1>1. n \in Nat \ {0} /\ n \in 1 .. MaxBitWidth /\ k \in 0 .. n /\ m \in Nat
  BY LimbWidth
<1>2. V.width = n /\ \A i \in 0 .. n - 1 : get_bit(V, i) = Bit(x, i) /\ Bit(x, i) \in {0, 1}
  BY VectorParts, GetBit
<1>3. {i \in 0 .. V.width - 1 : get_bit(V, i) = 1} = S
  BY <1>2
<1>4. (\A j \in k .. n - 1 : Bit(x, j) = 0) <=> x < 2 ^ k
  BY <1>1, ZerosAbove
<1>5. (\A j \in 0 .. m - 1 : Bit(x, j) = 0) <=> x % 2 ^ m = 0
  BY <1>1, ZerosBelow
<1>6. S \in SUBSET Nat /\ S \subseteq 0 .. n - 1
  BY <1>1
<1>7. /\ get_num_leading_zeros(V) \in Nat
      /\ get_num_leading_zeros(V) >= m <=> \A j \in k .. n - 1 : Bit(x, j) = 0
  <2>1. CASE S = {}
    <3>1. get_num_leading_zeros(V) = n
      BY <1>2, <1>3, <2>1 DEF get_num_leading_zeros
    <3>2. \A j \in k .. n - 1 : Bit(x, j) = 0
      BY <1>1, <1>2, <2>1
    <3> QED
      BY <1>1, <3>1, <3>2
  <2>2. CASE S # {}
    <3>1. PICK i \in S : \A j \in S : j <= i
      <4>1. IsFiniteSet(0 .. n - 1)
        BY <1>1, FS_Interval
      <4> HIDE DEF S
      <4>2. IsFiniteSet(S)
        BY <1>6, <4>1, FS_Subset
      <4> QED
        BY <1>6, <2>2, <4>2, GreatestNumber
    <3>2. Max(S) = i
      <4> HIDE DEF S
      <4>1. \A p \in S : (\A l \in S : p >= l) => p = i
        BY <1>6, <3>1
      <4>2. \A l \in S : i >= l
        BY <1>6, <3>1
      <4>3. Max(S) = CHOOSE p \in S : \A l \in S : p >= l
        BY DEF Max
      <4> QED
        BY <3>1, <4>1, <4>2, <4>3
    <3>3. get_num_leading_zeros(V) = n - 1 - i
      BY <1>2, <1>3, <2>2, <3>2 DEF get_num_leading_zeros
    <3>4. i \in 0 .. n - 1 /\ Bit(x, i) = 1 /\ \A j \in 0 .. n - 1 : Bit(x, j) = 1 => j <= i
      BY <3>1
    <3>5. (n - 1 - i >= m <=> i < k) /\ n - 1 - i \in Nat
      BY <1>1, <3>4
    <3>6. i < k <=> \A j \in k .. n - 1 : Bit(x, j) = 0
      <4>1. ASSUME i < k, NEW j \in k .. n - 1 PROVE Bit(x, j) = 0
        BY <1>1, <1>2, <3>4, <4>1
      <4>2. ~(i < k) => i \in k .. n - 1
        BY <1>1, <3>4
      <4> QED
        BY <3>4, <4>1, <4>2
    <3> QED
      BY <3>3, <3>5, <3>6
  <2> QED
    BY <2>1, <2>2
<1>8. get_num_trailing_zeros(V) >= m <=> \A j \in 0 .. m - 1 : Bit(x, j) = 0
  <2>1. CASE S = {}
    <3>1. get_num_trailing_zeros(V) = n
      BY <1>2, <1>3, <2>1 DEF get_num_trailing_zeros
    <3>2. \A j \in 0 .. m - 1 : Bit(x, j) = 0
      BY <1>1, <1>2, <2>1
    <3> QED
      BY <1>1, <3>1, <3>2
  <2>2. CASE S # {}
    <3>1. PICK i \in S : \A j \in S : i <= j
      <4> HIDE DEF S
      <4> QED
        BY <1>6, <2>2, LeastNumber
    <3>2. Min(S) = i
      <4> HIDE DEF S
      <4>1. \A p \in S : (\A l \in S : p <= l) => p = i
        BY <1>6, <3>1
      <4>2. Min(S) = CHOOSE p \in S : \A l \in S : p <= l
        BY DEF Min
      <4> QED
        BY <3>1, <4>1, <4>2
    <3>3. get_num_trailing_zeros(V) = i
      BY <1>2, <1>3, <2>2, <3>2 DEF get_num_trailing_zeros
    <3>4. i \in 0 .. n - 1 /\ Bit(x, i) = 1 /\ \A j \in 0 .. n - 1 : Bit(x, j) = 1 => i <= j
      BY <3>1
    <3>5. i >= m <=> \A j \in 0 .. m - 1 : Bit(x, j) = 0
      <4>1. ASSUME i >= m, NEW j \in 0 .. m - 1 PROVE Bit(x, j) = 0
        BY <1>1, <1>2, <3>4, <4>1
      <4>2. ~(i >= m) => i \in 0 .. m - 1
        BY <1>1, <3>4
      <4> QED
        BY <3>4, <4>1, <4>2
    <3> QED
      BY <3>3, <3>5
  <2> QED
    BY <2>1, <2>2
<1> QED
  BY <1>4, <1>5, <1>7, <1>8

LEMMA PowerOnLimbs ==
    ASSUME NEW n, Handled(n), NEW x \in Values(n)
    PROVE  power_of_two(Vector(n, x)) =
             IF \E i \in 0 .. n - 1 : x = 2 ^ i
             THEN CHOOSE i \in 0 .. n - 1 : x = 2 ^ i
             ELSE IF x = 0 THEN 0 ELSE -1
<1> DEFINE V == Vector(n, x)
           S == {i \in 0 .. n - 1 : Bit(x, i) = 1}
<1>1. /\ n \in Nat \ {0} /\ n \in 1 .. MaxBitWidth /\ n \in 0 .. MaxBitWidth
      /\ MaxBitWidth \in Nat /\ 0 \in Values(n)
  BY LimbWidth, NewIsZero
<1>2. V.width = n /\ \A i \in 0 .. n - 1 : get_bit(V, i) = Bit(x, i) /\ Bit(x, i) \in {0, 1}
  BY VectorParts, GetBit
<1>3. {i \in 0 .. V.width - 1 : get_bit(V, i) = 1} = S
  BY <1>2
<1>4. IsFiniteSet(S) /\ Cardinality(S) \in Nat
  <2>1. IsFiniteSet(0 .. n - 1) /\ S \subseteq 0 .. n - 1
    BY <1>1, FS_Interval
  <2> QED
    BY <2>1, FS_Subset, FS_CardinalityType
<1>5. \A i \in 0 .. n - 1 : x = 2 ^ i <=> S = {i}
  <2> TAKE i \in 0 .. n - 1
  <2>1. 2 ^ i \in Values(n) /\ \A j \in 0 .. n - 1 : Bit(2 ^ i, j) = IF j = i THEN 1 ELSE 0
    BY <1>1, BitOfPower
  <2>2. x = 2 ^ i => S = {i}
    BY <2>1
  <2>3. ASSUME S = {i} PROVE x = 2 ^ i
    <3>1. \A j \in 0 .. n - 1 : Bit(x, j) = Bit(2 ^ i, j)
      <4> TAKE j \in 0 .. n - 1
      <4>1. Bit(x, j) = 1 <=> j = i
        BY <2>3
      <4> QED
        BY <1>2, <2>1, <4>1
    <3> DEFINE y == 2 ^ i
    <3> HIDE DEF y
    <3>2. y \in Values(n) /\ \A j \in 0 .. n - 1 : Bit(x, j) = Bit(y, j)
      BY <2>1, <3>1 DEF y
    <3>3. x = y
      BY <1>1, <3>2, BitsDetermine
    <3> QED
      BY <3>3 DEF y
  <2> QED
    BY <2>2, <2>3
<1>6. S = {} <=> x = 0
  <2>1. \A j \in 0 .. n - 1 : Bit(0, j) = 0
    <3>1. \A j \in 0 .. n - 1 : j \in 0 .. MaxBitWidth
      BY <1>1
    <3> QED
      BY <3>1, BitOfZero
  <2>2. x = 0 => S = {}
    BY <2>1
  <2>3. ASSUME S = {} PROVE x = 0
    <3>1. \A j \in 0 .. n - 1 : Bit(x, j) = Bit(0, j)
      BY <1>2, <2>1, <2>3
    <3> QED
      BY <1>1, <3>1, BitsDetermine
  <2> QED
    BY <2>2, <2>3
<1> DEFINE c == Cardinality(S)
<1>7. power_of_two(V) = CASE c > 1 -> -1
                          [] c = 1 -> Min(S)
                          [] OTHER -> 0
  BY <1>3 DEF power_of_two
<1>8. (c = 0 <=> S = {}) /\ (c = 1 <=> \E i : S = {i}) /\ c \in Nat
  BY <1>4, FS_EmptySet, FS_Singleton
<1> HIDE DEF V, c
<1>9. CASE \E i \in 0 .. n - 1 : x = 2 ^ i
  <2>1. PICK i \in 0 .. n - 1 : x = 2 ^ i
    BY <1>9
  <2>2. S = {i} /\ \A k \in 0 .. n - 1 : x = 2 ^ k => k = i
    BY <1>5, <2>1
  <2>3. c = 1
    BY <1>8, <2>2
  <2>4. Min(S) = i
    <3>1. Min(S) = CHOOSE p \in S : \A l \in S : p <= l
      BY DEF Min
    <3> HIDE DEF S
    <3>2. i \in S /\ (\A l \in S : i <= l) /\ \A p \in S : p = i
      BY <2>2
    <3> QED
      BY <3>1, <3>2
  <2>5. power_of_two(V) = i
    BY <1>7, <2>3, <2>4
  <2>6. (CHOOSE k \in 0 .. n - 1 : x = 2 ^ k) = i
    BY <2>1, <2>2
  <2> QED
    BY <1>9, <2>5, <2>6 DEF V
<1>10. CASE ~\E i \in 0 .. n - 1 : x = 2 ^ i
  <2>1. c # 1
    <3>1. ASSUME NEW i, S = {i} PROVE FALSE
      <4>1. i \in 0 .. n - 1
        BY <3>1
      <4> QED
        BY <1>5, <1>10, <3>1, <4>1
    <3> HIDE DEF S
    <3> QED
      BY <1>8, <3>1
  <2>2. CASE x = 0
    <3>1. c = 0
      BY <1>6, <1>8, <2>2
    <3>2. power_of_two(V) = 0
      BY <1>7, <3>1
    <3> QED
      BY <1>10, <2>2, <3>2 DEF V
  <2>3. CASE x # 0
    <3>1. c > 1
      <4>1. c # 0
        BY <1>6, <1>8, <2>3
      <4> QED
        BY <1>8, <2>1, <4>1
    <3>2. power_of_two(V) = -1
      BY <1>7, <2>1, <3>1
    <3> QED
      BY <1>10, <2>3, <3>2 DEF V
  <2> QED
    BY <2>2, <2>3
<1> QED
  BY <1>9, <1>10

----------------------------------------------------------------------------
(* The property.                                                           *)

\* The operations on bits, the reductions, the comparisons and the queries give, limb
\* by limb, what they say of numbers, for every width and every width of a limb.
THEOREM LimbBitsAndOrderRight ==
    MaxWidth + DoubleBits <= MaxBitWidth => (Spec => []LimbBitsAndOrder)
<1> SUFFICES ASSUME MaxWidth + DoubleBits <= MaxBitWidth PROVE Spec => []LimbBitsAndOrder
  OBVIOUS
<1>0. MaxWidth \in Nat \ {0} /\ MaxBitWidth \in Nat /\ DoubleBits \in Nat
  BY MaxWidthAssumption, MaxBitWidthAssumption, LimbBitsAssumption DEF DoubleBits
<1>1. 1 <= MaxBitWidth
  BY <1>0
<1>2. Spec => []Operands
  BY <1>1, OperandsInvariant
<1>3. Operands => LimbBitsAndOrder
  <2> SUFFICES ASSUME Operands PROVE LimbBitsAndOrder
    OBVIOUS
  <2>1. w \in 1 .. MaxWidth /\ a \in Values(w) /\ b \in Values(w)
    BY DEF Operands
  <2>2. Handled(w) /\ Handled(1)
    BY <1>0, <2>1 DEF Handled
  <2>3. /\ lv_not(A) = Vector(w, bv_not(w, a))
        /\ lv_and(A, B) = Vector(w, bv_and(w, a, b))
        /\ lv_or(A, B)  = Vector(w, bv_or(w, a, b))
        /\ lv_xor(A, B) = Vector(w, bv_xor(w, a, b))
        /\ lv_nand(A, B) = Vector(w, bv_nand(w, a, b))
        /\ lv_nor(A, B)  = Vector(w, bv_nor(w, a, b))
        /\ lv_xnor(A, B) = Vector(w, bv_xnor(w, a, b))
        /\ lv_implies(A, B) = Vector(w, bv_implies(w, a, b))
    BY <2>1, <2>2, BitwiseOnLimbs DEF A, B
  <2>4. \A c \in 0 .. 1 : lv_ite(Vector(1, c), A, B) = IF c = 1 THEN A ELSE B
    BY <2>1, <2>2, IteOnLimbs DEF A, B
  <2>5. /\ lv_redand(A) = Vector(1, bv_redand(w, a))
        /\ lv_redor(A)  = Vector(1, bv_redor(w, a))
        /\ lv_redxor(A) = Vector(1, bv_redxor(w, a))
    BY <2>1, <2>2, ReductionsOnLimbs DEF A
  <2>6. /\ lv_eq(A, B)  = Vector(1, Truth(a = b))
        /\ lv_ult(A, B) = Vector(1, bv_ult(a, b))
        /\ lv_ulte(A, B) = Vector(1, bv_ulte(a, b))
        /\ lv_slt(A, B)  = Vector(1, bv_slt(w, a, b))
        /\ lv_slte(A, B) = Vector(1, bv_slte(w, a, b))
        /\ compare(A, B) = IF a < b THEN -1 ELSE IF a > b THEN 1 ELSE 0
    BY <2>1, <2>2, ComparisonsOnLimbs DEF A, B
  <2>7. lv_one(w) = Vector(w, 1) /\ lv_ones(w) = Vector(w, 2 ^ w - 1)
    BY <2>2, ConstantsOnLimbs
  <2>8. /\ is_one(A) = (a = 1)
        /\ w = LimbBits \/ w % LimbBits # 0 => is_ones(A) = {a = 2 ^ w - 1}
        /\ small_positive_int(A) = IF a < Base \div 2 THEN a ELSE -1
    BY <2>1, <2>2, QueriesOnLimbs DEF A
  <2>9. power_of_two(A) = IF \E i \in 0 .. w - 1 : a = 2 ^ i
                          THEN CHOOSE i \in 0 .. w - 1 : a = 2 ^ i
                          ELSE IF a = 0 THEN 0 ELSE -1
    BY <2>1, <2>2, PowerOnLimbs DEF A
  <2>10. /\ \A n \in 0 .. w : get_num_leading_zeros(A) >= n <=> a < 2 ^ (w - n)
         /\ \A n \in 0 .. w : get_num_trailing_zeros(A) >= n <=> a % 2 ^ n = 0
    BY <2>1, <2>2, ZerosOnLimbs DEF A
  <2> QED
    BY <2>3, <2>4, <2>5, <2>6, <2>7, <2>8, <2>9, <2>10 DEF LimbBitsAndOrder
<1> QED
  BY <1>2, <1>3, PTL

----------------------------------------------------------------------------
(* Loops.                                                                  *)

\* btorsim_bv_to_uint64 gives the number of a vector.
LEMMA NumberOf ==
    ASSUME NEW n, Handled(n), NEW x \in Values(n)
    PROVE  Number(Vector(n, x)) = x
<1> DEFINE N == LimbsFor(n)
           X == Limbs(n, x)
           F(f) == [i \in 0 .. N |-> IF i = 0 THEN 0 ELSE f[i - 1] * Base + X[i]]
           g == [i \in 0 .. N |-> IF i = 0 THEN 0 ELSE x \div 2 ^ Pos(n, i)]
<1>1. /\ N \in Nat \ {0} /\ Pos(n, N) = 0 /\ n <= Pos(n, 1) + LimbBits
      /\ \A i \in 2 .. N : Pos(n, i - 1) = Pos(n, i) + LimbBits
  BY Positions
<1>2. /\ n \in 0 .. MaxBitWidth /\ MaxBitWidth \in Nat /\ n \in Nat /\ Base \in Nat
      /\ LimbBits \in Nat /\ n + LimbBits <= MaxBitWidth /\ n \in 1 .. MaxBitWidth
  BY LimbWidth
<1>3. x \in Nat
  BY <1>2, ValuesOf
<1>4. ASSUME NEW i \in 1 .. N PROVE g[i] = g[i - 1] * Base + X[i]
  <2> DEFINE m == Pos(n, i) + LimbBits
             h == x \div 2 ^ m
  <2>1. h \in Int /\ X[i] \in Int /\ x \div 2 ^ Pos(n, i) = h * Base + X[i]
    BY LimbBelowHigh
  <2>2. Pos(n, i) \in Nat /\ Pos(n, i) < n
    BY Positions
  <2>3. CASE i = 1
    <3>1. h = 0
      <4>1. m \in Nat /\ m <= MaxBitWidth /\ n <= m
        BY <1>1, <1>2, <2>2, <2>3
      <4> HIDE DEF m
      <4> QED
        BY <1>2, <4>1, HighPartFits
    <3>2. g[0] = 0 /\ g[1] = x \div 2 ^ Pos(n, 1)
      BY <1>1
    <3> HIDE DEF g, h, X
    <3> QED
      BY <1>2, <2>1, <2>3, <3>1, <3>2
  <2>4. CASE i # 1
    <3>1. i \in 2 .. N /\ i - 1 \in 1 .. N /\ i - 1 # 0 /\ i # 0
      BY <1>1, <2>4
    <3>2. Pos(n, i - 1) = m
      BY <1>1, <3>1
    <3>3. g[i - 1] = x \div 2 ^ Pos(n, i - 1) /\ g[i] = x \div 2 ^ Pos(n, i)
      BY <3>1
    <3>4. g[i - 1] = h
      BY <3>2, <3>3
    <3> HIDE DEF g, h, X, m
    <3> QED
      BY <2>1, <3>3, <3>4
  <2> QED
    BY <2>3, <2>4
<1>5. g = F(g)
  <2>1. g[0] = 0
    BY <1>1
  <2>2. g = [i \in 0 .. N |-> g[i]]
    OBVIOUS
  <2>3. \A i \in 0 .. N : i # 0 => i \in 1 .. N
    BY <1>1
  <2> HIDE DEF g, X
  <2> QED
    BY <1>4, <2>1, <2>2, <2>3
<1> DEFINE f == CHOOSE f : f = F(f)
<1>6. f = F(f)
  <2>1. \E e : e = F(e)
    BY <1>5
  <2> QED
    BY <2>1
<1>7. Number(Vector(n, x)) = f[N]
  <2>1. Vector(n, x).bits = X /\ NumLimbs(Vector(n, x)) = N
    BY VectorParts
  <2> HIDE DEF N, X
  <2> QED
    BY <2>1 DEF Number
<1> HIDE DEF f
<1>8. f[0] = 0 /\ \A i \in 1 .. N : f[i] = f[i - 1] * Base + X[i]
  BY <1>1, <1>6
<1>9. g[0] = 0
  BY <1>1
<1>10. g[N] = x
  <2>1. x \div 2 ^ 0 = x
    BY <1>2, <1>3, PowersAssumption
  <2>2. N \in 0 .. N /\ N # 0
    BY <1>1
  <2>3. g[N] = x \div 2 ^ Pos(n, N)
    BY <2>2
  <2> QED
    BY <1>1, <2>1, <2>3
<1> HIDE DEF g, X, F
<1>11. f[N] = g[N]
  <2>1. \A k \in 1 .. N : f[k - 1] = g[k - 1] => f[k] = g[k]
    BY <1>4, <1>8
  <2>2. N \in Nat /\ N \in 0 .. N
    BY <1>1
  <2> QED
    BY <1>8, <1>9, <2>1, <2>2, LoopComputes
<1> QED
  BY <1>7, <1>10, <1>11

----------------------------------------------------------------------------
(* Cutting numbers to a width.                                             *)

\* The limbs of any number, without the spare bits, are those of what is left of it.
LEMMA LimbsCut ==
    ASSUME NEW n, Handled(n), NEW z \in Int
    PROVE  set_rem_bits_to_zero([width |-> n, bits |-> <<>> \o Limbs(n, z)]) = Vector(n, z % 2 ^ n)
<1> DEFINE N == LimbsFor(n)
           f == Limbs(n, z)
           x == z % 2 ^ n
<1>1. /\ n \in 0 .. MaxBitWidth /\ n \in Nat /\ MaxBitWidth \in Nat /\ LimbBits \in 0 .. MaxBitWidth
      /\ n + LimbBits <= MaxBitWidth /\ LimbBits \in Nat \ {0} /\ Base \in Nat \ {0}
      /\ Base = 2 ^ LimbBits
  BY LimbWidth
<1>2. x \in Values(n)
  BY <1>1, RestFits
<1>3. ASSUME NEW i \in 1 .. N
      PROVE  /\ f[i] \in 0 .. Base - 1
             /\ \A j \in 0 .. LimbBits - 1 : Pos(n, i) + j < n => Bit(f[i], j) = Bit(x, Pos(n, i) + j)
  <2> DEFINE p == Pos(n, i)
             q == z \div 2 ^ p
  <2>1. p \in Nat /\ p < n
    BY Positions
  <2>2. f[i] = q % Base
    BY DEF Limbs
  <2> HIDE DEF p
  <2>3. q \in Int
    <3>1. p \in 0 .. MaxBitWidth + 1
      BY <1>1, <2>1
    <3>2. 2 ^ p \in Nat \ {0}
      BY <3>1, Powers
    <3> DEFINE d == 2 ^ p
    <3>3. d \in Nat \ {0}
      BY <3>2
    <3> HIDE DEF d
    <3>4. z \div d \in Int
      BY <3>3, Division
    <3> QED
      BY <3>4 DEF d
  <2>4. q % Base \in 0 .. Base - 1
    <3> HIDE DEF q
    <3> QED
      BY <1>1, <2>3, Division
  <2>5. ASSUME NEW j \in 0 .. LimbBits - 1, p + j < n
        PROVE  Bit(q % Base, j) = Bit(x, p + j)
    <3>1. j \in Nat /\ j + p <= MaxBitWidth /\ p + j = j + p /\ p + j \in 0 .. n - 1
      BY <1>1, <2>1, <2>5
    <3>2. Bit(q % Base, j) = Bit(q, j)
      <4> HIDE DEF q
      <4> QED
        BY <1>1, <2>3, BitOfRest
    <3>3. Bit(q, j) = Bit(z, j + p)
      BY <2>1, <3>1, BitOfQuotient
    <3>4. Bit(x, p + j) = Bit(z, p + j)
      BY <1>1, <3>1, BitOfRest
    <3> QED
      BY <3>1, <3>2, <3>3, <3>4
  <2> HIDE DEF q
  <2> QED
    BY <2>2, <2>4, <2>5 DEF p
<1>4. f \in [1 .. N -> 0 .. Base - 1]
  <2>1. f = [i \in 1 .. N |-> f[i]]
    BY DEF Limbs
  <2> HIDE DEF f
  <2> QED
    BY <1>3, <2>1
<1> HIDE DEF f, x
<1>5. set_rem_bits_to_zero([width |-> n, bits |-> <<>> \o f]) = Vector(n, x)
  BY <1>2, <1>3, <1>4, MaskedTuple
<1> QED
  BY <1>5 DEF f, x

LEMMA MaskedVector ==
    ASSUME NEW n, Handled(n), NEW x \in Values(n)
    PROVE  set_rem_bits_to_zero(Vector(n, x)) = Vector(n, x)
<1>1. n \in 0 .. MaxBitWidth /\ x \in Int
  <2>1. n \in 1 .. MaxBitWidth /\ n \in 0 .. MaxBitWidth
    BY LimbWidth
  <2> QED
    BY <2>1, ValuesOf
<1>2. Vector(n, x) = [width |-> n, bits |-> <<>> \o Limbs(n, x)]
  BY DEF Vector, Build, Limbs, Pos
<1>3. x % 2 ^ n = x
  BY <1>1, RestOfValue
<1> QED
  BY <1>1, <1>2, <1>3, LimbsCut

\* btorsim_bv_uint64_to_bv
LEMMA FromUint64 ==
    ASSUME NEW n, Handled(n), NEW z \in Int
    PROVE  uint64_to_bv(z, n) = Vector(n, (z % 2 ^ DoubleBits) % 2 ^ n)
<1> DEFINE N == LimbsFor(n)
           y == z % 2 ^ DoubleBits
           Z == lv_new(n)
           f == [i \in 1 .. N |-> IF i < NumLimbs(Z) - 1 THEN Z.bits[i]
                                  ELSE (y \div 2 ^ (LimbBits * (NumLimbs(Z) - i))) % Base]
<1>1. /\ n \in 0 .. MaxBitWidth /\ n \in Nat /\ MaxBitWidth \in Nat /\ LimbBits \in Nat \ {0}
      /\ Base \in Nat \ {0} /\ DoubleBits \in 0 .. MaxBitWidth /\ DoubleBits = LimbBits + LimbBits
      /\ DoubleBits \in Nat
  <2>1. n \in 0 .. MaxBitWidth /\ MaxBitWidth \in Nat /\ LimbBits \in Nat \ {0} /\ n \in Nat \ {0}
        /\ Base \in Nat \ {0}
    BY LimbWidth
  <2>2. DoubleBits = LimbBits + LimbBits /\ n + DoubleBits <= MaxBitWidth
    BY <2>1 DEF DoubleBits, Handled
  <2> QED
    BY <2>1, <2>2
<1>2. N \in Nat \ {0} /\ Pos(n, N) = 0 /\ \A i \in 2 .. N : Pos(n, i - 1) = Pos(n, i) + LimbBits
  BY Positions
<1>3. y \in Values(DoubleBits) /\ y \in Nat
  BY <1>1, RestFits
<1>4. Z.width = n /\ Z.bits = Limbs(n, 0) /\ NumLimbs(Z) = N /\ \A i \in 1 .. N : Limbs(n, 0)[i] = 0
  BY NewIsZero, VectorParts
<1>5. uint64_to_bv(z, n) = set_rem_bits_to_zero([width |-> n, bits |-> <<>> \o f])
  BY <1>4 DEF uint64_to_bv, WithLowLimbs, Build
<1> HIDE DEF Z, y
<1>6. f = Limbs(n, y)
  <2>1. ASSUME NEW i \in 1 .. N PROVE f[i] = (y \div 2 ^ Pos(n, i)) % Base
    <3>1. CASE i < N - 1
      <4>1. Pos(n, i) \in Nat /\ Pos(n, i) <= MaxBitWidth /\ DoubleBits <= Pos(n, i)
        <5>1. i \in 1 .. N /\ i + 1 \in 2 .. N /\ i + 2 \in 2 .. N /\ i + 2 \in 1 .. N
              /\ (i + 1) - 1 = i /\ (i + 2) - 1 = i + 1
          BY <1>2, <3>1
        <5>2. Pos(n, i) = Pos(n, i + 1) + LimbBits /\ Pos(n, i + 1) = Pos(n, i + 2) + LimbBits
          BY <1>2, <5>1
        <5>3. Pos(n, i + 2) \in Nat /\ Pos(n, i) < n
          BY <5>1, Positions
        <5> QED
          BY <1>1, <5>2, <5>3
      <4>2. y \div 2 ^ Pos(n, i) = 0
        BY <1>1, <1>3, <4>1, HighPartFits
      <4>3. 0 % Base = 0
        BY <1>1
      <4>4. f[i] = 0
        BY <1>4, <3>1
      <4> HIDE DEF f
      <4> QED
        BY <4>2, <4>3, <4>4
    <3>2. CASE ~(i < N - 1)
      BY <1>4, <3>2 DEF Pos
    <3> QED
      BY <3>1, <3>2
  <2>2. f = [i \in 1 .. N |-> f[i]]
    BY <1>4
  <2> HIDE DEF f
  <2>3. Limbs(n, y) = [i \in 1 .. N |-> (y \div 2 ^ Pos(n, i)) % Base]
    BY DEF Limbs
  <2> QED
    BY <2>1, <2>2, <2>3
<1> HIDE DEF f
<1>7. set_rem_bits_to_zero([width |-> n, bits |-> <<>> \o Limbs(n, y)]) = Vector(n, y % 2 ^ n)
  BY <1>3, LimbsCut
<1> QED
  BY <1>5, <1>6, <1>7 DEF y

----------------------------------------------------------------------------
(* Addition and what is made from it.                                      *)

\* The quotient up to the next limb, of any number.
LEMMA NextQuotient ==
    ASSUME NEW n, Handled(n), NEW z \in Int, NEW i \in 1 .. LimbsFor(n)
    PROVE  LET high == z \div 2 ^ (Pos(n, i) + LimbBits)
               low  == z \div 2 ^ Pos(n, i)
           IN  /\ high \in Int /\ low \in Int
               /\ low % Base \in 0 .. Base - 1
               /\ low = high * Base + (low % Base)
<1> DEFINE p == Pos(n, i)
           d == 2 ^ p
           low == z \div d
           high == z \div 2 ^ (p + LimbBits)
<1>1. /\ p \in Nat /\ p + LimbBits <= MaxBitWidth /\ p \in 0 .. MaxBitWidth
      /\ LimbBits \in Nat /\ Base \in Nat \ {0} /\ Base = 2 ^ LimbBits
  <2>1. p \in Nat /\ p < n
    BY Positions
  <2> HIDE DEF p
  <2> QED
    BY <2>1, LimbWidth
<1>2. 2 ^ (p + LimbBits) = d * Base
  <2> HIDE DEF p
  <2> QED
    BY <1>1, PowerOfSum
<1>3. d \in Nat \ {0} /\ low \in Int
  <2> HIDE DEF p
  <2> QED
    BY <1>1, QuotientInPowers
<1> HIDE DEF d
<1>4. low \div Base = z \div (d * Base)
  BY <1>1, <1>3, DivisionTwice
<1> HIDE DEF low
<1>5. low \div Base \in Int /\ low % Base \in 0 .. Base - 1 /\ low = (low \div Base) * Base + (low % Base)
  BY <1>1, <1>3, Division
<1> QED
  BY <1>2, <1>3, <1>4, <1>5 DEF low, d

\* Adding limb by limb with carries: the carry into a limb is what the sum of the
\* lower parts gives in addition to the sum of the higher parts.
LEMMA SumOfLimbs ==
    ASSUME NEW n, Handled(n), NEW x \in Values(n), NEW y \in Values(n)
    PROVE  AddLimbs(Vector(n, x), Vector(n, y)) = [width |-> n, bits |-> <<>> \o Limbs(n, x + y)]
<1> DEFINE N == LimbsFor(n)
           X == Limbs(n, x)
           Y == Limbs(n, y)
           V == Vector(n, x)
           W == Vector(n, y)
           up(z, i) == z \div 2 ^ Pos(n, i)
           F(f) == [i \in 1 .. N |-> IF i = N THEN 0 ELSE (X[i + 1] + Y[i + 1] + f[i + 1]) \div Base]
           g == [i \in 1 .. N |-> up(x + y, i) - up(x, i) - up(y, i)]
<1>1. /\ N \in Nat \ {0} /\ Pos(n, N) = 0
      /\ \A i \in 2 .. N : Pos(n, i - 1) = Pos(n, i) + LimbBits
  BY Positions
<1>2. x \in Int /\ y \in Int /\ x + y \in Int /\ Base \in Nat \ {0}
  <2>1. n \in 1 .. MaxBitWidth /\ Base \in Nat \ {0}
    BY LimbWidth
  <2> QED
    BY <2>1, ValuesOf
<1>3. ASSUME NEW i \in 1 .. N
      PROVE  /\ (X[i] + Y[i] + g[i]) % Base = Limbs(n, x + y)[i]
             /\ i # 1 => (X[i] + Y[i] + g[i]) \div Base = g[i - 1]
  <2> DEFINE q(z) == z \div 2 ^ (Pos(n, i) + LimbBits)
             s == up(x + y, i)
             c == q(x + y) - q(x) - q(y)
  <2>1. /\ up(x, i) \in Int /\ q(x) \in Int /\ up(x, i) = q(x) * Base + (up(x, i) % Base)
        /\ up(y, i) \in Int /\ q(y) \in Int /\ up(y, i) = q(y) * Base + (up(y, i) % Base)
        /\ s \in Int /\ q(x + y) \in Int /\ s = q(x + y) * Base + (s % Base)
        /\ s % Base \in 0 .. Base - 1
    BY <1>2, NextQuotient
  <2>2. X[i] = up(x, i) % Base /\ Y[i] = up(y, i) % Base /\ Limbs(n, x + y)[i] = s % Base
    BY DEF Limbs
  <2>3. g[i] = s - up(x, i) - up(y, i)
    OBVIOUS
  <2>4. X[i] + Y[i] + g[i] = c * Base + (s % Base)
    <3> DEFINE ux == up(x, i)
               uy == up(y, i)
               qx == q(x)
               qy == q(y)
               qs == q(x + y)
               rx == ux % Base
               ry == uy % Base
               rs == s % Base
    <3>1. /\ ux \in Int /\ uy \in Int /\ s \in Int /\ qx \in Int /\ qy \in Int /\ qs \in Int
          /\ Base \in Int /\ rs \in Int
          /\ ux = qx * Base + rx /\ uy = qy * Base + ry /\ s = qs * Base + rs
      BY <1>2, <2>1
    <3>2. rx \in Int /\ ry \in Int
      <4> HIDE DEF ux, uy
      <4> QED
        BY <1>2, <3>1, Division
    <3>3. c = qs - qx - qy
      OBVIOUS
    <3>4. X[i] = rx /\ Y[i] = ry /\ g[i] = s - ux - uy
      BY <2>2, <2>3
    <3> HIDE DEF ux, uy, qx, qy, qs, rx, ry, rs, s, c, g, X, Y
    <3>5. (qs - qx - qy) * Base = qs * Base - qx * Base - qy * Base
      BY <3>1
    <3>6. qs * Base \in Int /\ qx * Base \in Int /\ qy * Base \in Int
      BY <3>1
    <3>7. rs = s % Base
      BY DEF rs
    <3> HIDE DEF s
    <3>8. ux = qx * Base + rx /\ uy = qy * Base + ry /\ s = qs * Base + rs
      BY <3>1
    <3> DEFINE px == qx * Base
               py == qy * Base
               ps == qs * Base
               cB == c * Base
    <3>9. cB = ps - px - py
      BY <3>3, <3>5
    <3>10. ux = px + rx /\ uy = py + ry /\ s = ps + rs /\ px \in Int /\ py \in Int /\ ps \in Int
      BY <3>6, <3>8
    <3> HIDE DEF px, py, ps, cB
    <3>11. rx + ry + (s - ux - uy) = cB + rs
      BY <3>1, <3>2, <3>9, <3>10
    <3> QED
      BY <3>4, <3>7, <3>11 DEF cB
  <2>5. c \in Int
    BY <2>1
  <2>6. i # 1 => c = g[i - 1]
    <3>1. ASSUME i # 1 PROVE Pos(n, i - 1) = Pos(n, i) + LimbBits /\ i - 1 \in 1 .. N
      BY <1>1, <3>1
    <3> QED
      BY <3>1
  <2> DEFINE t == X[i] + Y[i] + g[i]
             r == s % Base
  <2>7. t = c * Base + r /\ r \in 0 .. Base - 1
    BY <2>1, <2>4
  <2>8. t \in Int
    <3> HIDE DEF t, c, r
    <3> QED
      BY <1>2, <2>5, <2>7
  <2>9. t \div Base = c /\ t % Base = r
    <3> HIDE DEF t, c, r
    <3> QED
      BY <1>2, <2>5, <2>7, <2>8, QuotientAndRest
  <2> QED
    BY <2>2, <2>6, <2>9
<1>4. V.bits = X /\ W.bits = Y /\ NumLimbs(V) = N /\ V.width = n
  BY VectorParts
<1>5. g = F(g)
  <2>1. g[N] = 0
    <3>1. \A z \in Int : up(z, N) = z
      <4>1. 2 ^ 0 = 1
        BY PowersAssumption
      <4>2. \A z \in Int : z \div 1 = z
        OBVIOUS
      <4> QED
        BY <1>1, <4>1, <4>2
    <3>2. N \in 1 .. N /\ g[N] = up(x + y, N) - up(x, N) - up(y, N)
      BY <1>1
    <3> QED
      BY <1>2, <3>1, <3>2
  <2>2. ASSUME NEW i \in 1 .. N, i # N
        PROVE  g[i] = (X[i + 1] + Y[i + 1] + g[i + 1]) \div Base
    <3>1. i + 1 \in 1 .. N /\ i + 1 # 1 /\ (i + 1) - 1 = i
      BY <1>1, <2>2
    <3> HIDE DEF g, X, Y
    <3> QED
      BY <1>3, <3>1
  <2>3. g = [i \in 1 .. N |-> g[i]]
    OBVIOUS
  <2> HIDE DEF g, X, Y
  <2> QED
    BY <2>1, <2>2, <2>3
<1> DEFINE f == CHOOSE f : f = F(f)
<1>6. f = F(f)
  <2>1. \E e : e = F(e)
    BY <1>5
  <2> QED
    BY <2>1
<1>7. Carries(V, W) = f
  <2> HIDE DEF N, X, Y
  <2> QED
    BY <1>4 DEF Carries
<1>8. \A i \in 1 .. N : f[i] = g[i]
  <2> DEFINE bad == {i \in 1 .. N : f[i] # g[i]}
  <2>1. ASSUME bad # {} PROVE FALSE
    <3>1. bad \in SUBSET Nat /\ IsFiniteSet(bad)
      <4>1. IsFiniteSet(1 .. N)
        BY <1>1, FS_Interval
      <4>2. bad \in SUBSET (1 .. N)
        OBVIOUS
      <4>3. 1 .. N \in SUBSET Nat
        BY <1>1
      <4> HIDE DEF bad
      <4> QED
        BY <4>1, <4>2, <4>3, FS_Subset
    <3>2. PICK i \in bad : \A j \in bad : j <= i
      <4> HIDE DEF bad
      <4> QED
        BY <2>1, <3>1, GreatestNumber
    <3>3. i \in 1 .. N /\ f[i] # g[i]
      OBVIOUS
    <3>4. CASE i = N
      <4>1. f[i] = 0 /\ g[i] = 0
        <5> HIDE DEF f, g
        <5> QED
          BY <1>5, <1>6, <3>3, <3>4
      <4> QED
        BY <3>3, <4>1
    <3>5. CASE i # N
      <4>1. i + 1 \in 1 .. N /\ ~(i + 1 <= i)
        BY <1>1, <3>3, <3>5
      <4>2. f[i + 1] = g[i + 1]
        <5>1. i + 1 \notin bad
          <6> HIDE DEF bad
          <6> QED
            BY <3>2, <4>1
        <5> HIDE DEF f, g
        <5> QED
          BY <4>1, <5>1
      <4>3. f[i] = (X[i + 1] + Y[i + 1] + f[i + 1]) \div Base
            /\ g[i] = (X[i + 1] + Y[i + 1] + g[i + 1]) \div Base
        <5> HIDE DEF f, g, X, Y
        <5> QED
          BY <1>5, <1>6, <3>3, <3>5
      <4> QED
        BY <3>3, <4>2, <4>3
    <3> QED
      BY <3>4, <3>5
  <2> QED
    BY <2>1
<1> HIDE DEF f, g
<1>9. AddLimbs(V, W) = [width |-> n, bits |-> <<>> \o [i \in 1 .. N |-> (X[i] + Y[i] + f[i]) % Base]]
  BY <1>4, <1>7 DEF AddLimbs, Build
<1>10. \A i \in 1 .. N : (X[i] + Y[i] + f[i]) % Base = Limbs(n, x + y)[i]
  BY <1>3, <1>8
<1>11. [i \in 1 .. N |-> (X[i] + Y[i] + f[i]) % Base] = Limbs(n, x + y)
  <2>1. Limbs(n, x + y) = [i \in 1 .. N |-> Limbs(n, x + y)[i]]
    BY DEF Limbs
  <2> QED
    BY <1>10, <2>1
<1> QED
  BY <1>9, <1>11

\* Cutting a number to the width before it is cut to the vector.
LEMMA FromUint64Fit ==
    ASSUME NEW n, Handled(n), n <= DoubleBits, NEW z \in Int
    PROVE  uint64_to_bv(z, n) = Vector(n, Fit(n, z)) /\ Fit(n, z) \in Values(n)
<1>1. n \in Nat /\ n \in 0 .. MaxBitWidth /\ DoubleBits \in Nat /\ DoubleBits <= MaxBitWidth
  <2>1. LimbBits \in Nat /\ n \in Nat /\ n \in 0 .. MaxBitWidth /\ MaxBitWidth \in Nat
    BY LimbWidth
  <2>2. DoubleBits \in Nat
    BY <2>1 DEF DoubleBits
  <2> QED
    BY <2>1, <2>2 DEF Handled
<1>2. (z % 2 ^ DoubleBits) % 2 ^ n = z % 2 ^ n
  BY <1>1, RestOfRest
<1>3. z % 2 ^ n \in Values(n)
  BY <1>1, RestFits
<1> QED
  BY <1>2, <1>3, FromUint64 DEF Fit

LEMMA AddOnLimbs ==
    ASSUME NEW n, Handled(n), NEW x \in Values(n), NEW y \in Values(n)
    PROVE  lv_add(Vector(n, x), Vector(n, y)) = Vector(n, bv_add(n, x, y))
<1> DEFINE V == Vector(n, x)
           W == Vector(n, y)
<1>1. x \in Int /\ y \in Int /\ x + y \in Int /\ n \in 0 .. MaxBitWidth
  <2>1. n \in 1 .. MaxBitWidth /\ n \in 0 .. MaxBitWidth
    BY LimbWidth
  <2>2. x \in Nat /\ y \in Nat
    BY <2>1, ValuesOf
  <2> QED
    BY <2>1, <2>2
<1>2. V.width = n /\ Number(V) = x /\ Number(W) = y
  BY NumberOf, VectorParts
<1>3. bv_add(n, x, y) = Fit(n, x + y) /\ Fit(n, x + y) = (x + y) % 2 ^ n
  BY DEF bv_add, Fit
<1>4. AddLimbs(V, W) = [width |-> n, bits |-> <<>> \o Limbs(n, x + y)]
  BY SumOfLimbs
<1> HIDE DEF V, W
<1>5. CASE n <= DoubleBits
  <2>1. lv_add(V, W) = set_rem_bits_to_zero(uint64_to_bv(x + y, n))
    BY <1>2, <1>5 DEF lv_add
  <2>2. uint64_to_bv(x + y, n) = Vector(n, Fit(n, x + y)) /\ Fit(n, x + y) \in Values(n)
    BY <1>1, <1>5, FromUint64Fit
  <2>3. set_rem_bits_to_zero(Vector(n, Fit(n, x + y))) = Vector(n, Fit(n, x + y))
    BY <2>2, MaskedVector
  <2> QED
    BY <1>3, <2>1, <2>2, <2>3 DEF V, W
<1>6. CASE ~(n <= DoubleBits)
  <2>1. lv_add(V, W) = set_rem_bits_to_zero(AddLimbs(V, W))
    BY <1>2, <1>6 DEF lv_add
  <2>2. set_rem_bits_to_zero([width |-> n, bits |-> <<>> \o Limbs(n, x + y)]) = Vector(n, (x + y) % 2 ^ n)
    BY <1>1, LimbsCut
  <2> QED
    BY <1>3, <1>4, <2>1, <2>2 DEF V, W
<1> QED
  BY <1>5, <1>6

\* neg, inc, dec and sub are made from add.
LEMMA SumsOnLimbs ==
    ASSUME NEW n, Handled(n), NEW x \in Values(n), NEW y \in Values(n)
    PROVE  /\ lv_neg(Vector(n, x)) = Vector(n, bv_neg(n, x))
           /\ lv_inc(Vector(n, x)) = Vector(n, bv_inc(n, x))
           /\ lv_dec(Vector(n, x)) = Vector(n, bv_dec(n, x))
           /\ lv_sub(Vector(n, x), Vector(n, y)) = Vector(n, bv_sub(n, x, y))
<1>1. n \in 1 .. MaxBitWidth /\ n \in 0 .. MaxBitWidth
  BY LimbWidth
<1>2. 1 \in Values(n) /\ 2 ^ n - 1 \in Values(n) /\ lv_one(n) = Vector(n, 1) /\ 2 ^ n \in Nat \ {0}
  BY <1>1, ValuesOf, ConstantsOnLimbs
<1>3. ASSUME NEW z \in Values(n)
      PROVE  lv_neg(Vector(n, z)) = Vector(n, bv_neg(n, z)) /\ bv_neg(n, z) \in Values(n)
  <2>1. bv_not(n, z) \in Values(n) /\ bv_neg(n, z) \in Values(n)
    BY <1>1, <1>2, ArithmeticFits
  <2>2. lv_not(Vector(n, z)) = Vector(n, bv_not(n, z)) /\ Vector(n, z).width = n
    BY BitwiseOnLimbs, VectorParts
  <2>3. lv_add(Vector(n, bv_not(n, z)), Vector(n, 1)) = Vector(n, bv_add(n, bv_not(n, z), 1))
    BY <1>2, <2>1, AddOnLimbs
  <2>4. bv_add(n, bv_not(n, z), 1) = bv_neg(n, z)
    BY DEF bv_add, bv_neg
  <2> QED
    BY <1>2, <2>1, <2>2, <2>3, <2>4 DEF lv_neg
<1>4. lv_neg(Vector(n, x)) = Vector(n, bv_neg(n, x))
  BY <1>3
<1>5. lv_inc(Vector(n, x)) = Vector(n, bv_inc(n, x))
  <2>1. lv_add(Vector(n, x), Vector(n, 1)) = Vector(n, bv_add(n, x, 1)) /\ Vector(n, x).width = n
    BY <1>2, AddOnLimbs, VectorParts
  <2>2. bv_add(n, x, 1) = bv_inc(n, x)
    BY DEF bv_add, bv_inc
  <2> QED
    BY <1>2, <2>1, <2>2 DEF lv_inc
<1>6. lv_dec(Vector(n, x)) = Vector(n, bv_dec(n, x))
  <2> DEFINE m == 2 ^ n - 1
  <2>1. lv_neg(Vector(n, 1)) = Vector(n, bv_neg(n, 1))
    BY <1>2, <1>3
  <2>2. bv_neg(n, 1) = m
    <3>1. bv_neg(n, 1) = Fit(n, m) /\ m % 2 ^ n = m
      <4>1. 2 ^ n - 1 - 1 + 1 = m
        BY <1>2
      <4> QED
        BY <1>1, <1>2, <4>1, RestOfValue DEF bv_neg, bv_not
    <3> QED
      BY <3>1 DEF Fit
  <2>3. lv_add(Vector(n, x), Vector(n, m)) = Vector(n, bv_add(n, x, m)) /\ Vector(n, x).width = n
    BY <1>2, AddOnLimbs, VectorParts
  <2>4. bv_add(n, x, m) = bv_dec(n, x)
    <3>1. x \in Nat
      BY <1>1, ValuesOf
    <3>2. x + m = x + 2 ^ n - 1
      BY <1>2, <3>1
    <3> QED
      BY <3>2 DEF bv_add, bv_dec
  <2> QED
    BY <1>2, <2>1, <2>2, <2>3, <2>4 DEF lv_dec
<1>7. lv_sub(Vector(n, x), Vector(n, y)) = Vector(n, bv_sub(n, x, y))
  <2>1. lv_neg(Vector(n, y)) = Vector(n, bv_neg(n, y)) /\ bv_neg(n, y) \in Values(n)
    BY <1>3
  <2>2. lv_add(Vector(n, x), Vector(n, bv_neg(n, y))) = Vector(n, bv_add(n, x, bv_neg(n, y)))
    BY <2>1, AddOnLimbs
  <2> QED
    BY <2>1, <2>2 DEF lv_sub, bv_sub
<1> QED
  BY <1>4, <1>5, <1>6, <1>7

----------------------------------------------------------------------------
(* Shifts by a number.                                                     *)

\* A shift by s goes over s \div LimbBits limbs and s % LimbBits bits.
LEMMA SkippedLimbs ==
    ASSUME NEW n, Handled(n), NEW s \in Nat
    PROVE  LET k == s % LimbBits
               skip == s \div LimbBits
               N == LimbsFor(n)
           IN  /\ k \in 0 .. LimbBits - 1 /\ skip \in Nat /\ skip * LimbBits \in Nat
               /\ s = skip * LimbBits + k
               /\ \A j \in 1 .. N :
                    /\ j + skip <= N => Pos(n, j + skip) + skip * LimbBits = Pos(n, j)
                    /\ j + skip > N => Pos(n, j) + LimbBits <= skip * LimbBits
                    /\ j > skip => Pos(n, j - skip) = Pos(n, j) + skip * LimbBits
                    /\ j <= skip => n <= Pos(n, j) + skip * LimbBits
<1> DEFINE k == s % LimbBits
           skip == s \div LimbBits
           N == LimbsFor(n)
<1>1. LimbBits \in Nat \ {0} /\ N \in Nat \ {0} /\ n \in Nat
  BY LimbWidth, Positions
<1>2. k \in 0 .. LimbBits - 1 /\ skip \in Int /\ s = skip * LimbBits + k
  <2>1. s \in Int
    OBVIOUS
  <2> QED
    BY <1>1, <2>1, Division
<1>3. skip \in Nat
  <2>1. s \in Nat
    OBVIOUS
  <2> QED
    BY <1>1, <2>1, DivMod
<1>4. n <= Pos(n, 1) + LimbBits
  BY Positions
<1> HIDE DEF k, skip, N
<1> DEFINE L == LimbBits
           d == skip * L
<1>5. L \in Nat \ {0} /\ d \in Nat
  BY <1>1, <1>3
<1>6. ASSUME NEW j \in 1 .. N
      PROVE  /\ j + skip <= N => Pos(n, j + skip) + d = Pos(n, j)
             /\ j + skip > N => Pos(n, j) + L <= d
             /\ j > skip => Pos(n, j - skip) = Pos(n, j) + d
             /\ j <= skip => n <= Pos(n, j) + d
  <2>1. \A i \in Int : Pos(n, i) = L * (N - i)
    BY DEF Pos, N
  <2>2. \A i \in Int : L * (N - i) = L * N - L * i /\ L * i \in Int /\ L * N \in Int
    BY <1>1, <1>5
  <2>3. L * (j + skip) = L * j + d /\ L * (j - skip) = L * j - d /\ L * 1 = L
    BY <1>3, <1>5
  <2>4. j \in Int /\ skip \in Int /\ j + skip \in Int /\ j - skip \in Int /\ N \in Int
    BY <1>1, <1>3
  <2> DEFINE LN == L * N
             Lj == L * j
  <2>5. LN \in Int /\ Lj \in Int /\ Pos(n, j) = LN - Lj /\ Pos(n, 1) = LN - L
        /\ Pos(n, j + skip) = LN - (Lj + d) /\ Pos(n, j - skip) = LN - (Lj - d)
    BY <2>1, <2>2, <2>3, <2>4
  <2>6. ASSUME j + skip > N PROVE LN + L <= Lj + d
    <3>1. N * L + L <= (j + skip) * L
      BY <1>5, <2>4, <2>6, ProductGrows
    <3>2. N * L = LN /\ (j + skip) * L = L * (j + skip)
      BY <1>1, <1>5, <2>4
    <3> HIDE DEF L, d
    <3> QED
      BY <2>3, <3>1, <3>2
  <2>7. ASSUME j <= skip PROVE Lj <= d
    <3>1. j * L = Lj
      BY <1>5
    <3>2. j < skip => j * L + L <= skip * L
      BY <1>5, <2>4, ProductGrows
    <3> HIDE DEF Lj, L
    <3> QED
      BY <1>5, <2>4, <2>5, <2>7, <3>1, <3>2
  <2> HIDE DEF LN, Lj, d
  <2> QED
    BY <1>1, <1>4, <1>5, <2>4, <2>5, <2>6, <2>7
<1> QED
  BY <1>2, <1>3, <1>5, <1>6 DEF d, k, skip, N

\* A limb made of a limb, moved up by k bits, and the k bits of its lower neighbour.
LEMMA MovedUp ==
    ASSUME NEW n, Handled(n), NEW X \in 0 .. Base - 1, NEW Y \in 0 .. Base - 1,
           NEW k \in 0 .. LimbBits - 1
    PROVE  LET high == (X * 2 ^ k) % Base
               low  == IF k = 0 THEN 0 ELSE Y \div 2 ^ (LimbBits - k)
           IN  /\ LimbOr(high, low) \in 0 .. Base - 1 /\ LimbOr(low, high) \in 0 .. Base - 1
               /\ \A t \in 0 .. LimbBits - 1 :
                    /\ Bit(LimbOr(high, low), t) =
                         IF t >= k THEN Bit(X, t - k) ELSE Bit(Y, t + LimbBits - k)
                    /\ Bit(LimbOr(low, high), t) =
                         IF t >= k THEN Bit(X, t - k) ELSE Bit(Y, t + LimbBits - k)
<1> DEFINE high == (X * 2 ^ k) % Base
           low  == IF k = 0 THEN 0 ELSE Y \div 2 ^ (LimbBits - k)
           L == LimbBits
<1>1. /\ L \in Nat \ {0} /\ L \in 0 .. MaxBitWidth /\ Base = 2 ^ L /\ Base \in Nat \ {0}
      /\ L + L <= MaxBitWidth /\ MaxBitWidth \in Nat /\ Values(L) = 0 .. Base - 1
  <2>1. L \in Nat \ {0} /\ L \in 0 .. MaxBitWidth /\ n \in Nat /\ MaxBitWidth \in Nat
    BY LimbWidth
  <2>2. n + (L + L) <= MaxBitWidth
    BY <2>1 DEF Handled, DoubleBits
  <2> QED
    BY <2>1, <2>2, LimbWidth
<1>2. k \in 0 .. MaxBitWidth /\ L - k \in 0 .. MaxBitWidth /\ k \in Nat /\ L - k \in Nat
  BY <1>1
<1>3. 2 ^ k \in Nat \ {0} /\ X \in Int /\ Y \in Int /\ Y \in Values(L) /\ Y \in Nat
  <2>1. 2 ^ k \in Nat \ {0}
    BY <1>2, PowerIs
  <2> QED
    BY <1>1, <2>1
<1>4. X * 2 ^ k \in Int
  BY <1>3
<1>5. high \in 0 .. Base - 1
  <2> HIDE DEF L
  <2> QED
    BY <1>1, <1>4, Division
<1>6. low \in 0 .. Base - 1
  <2>1. 0 \in 0 .. Base - 1
    BY <1>1
  <2>2. Y \div 2 ^ (L - k) \in 0 .. Base - 1
    <3> DEFINE e == 2 ^ (L - k)
    <3>1. e \in Nat \ {0}
      BY <1>2, <1>3, QuotientInPowers
    <3> HIDE DEF e
    <3>2. Y \div e \in 0 .. Y
      BY <1>3, <3>1, DivMod
    <3> QED
      BY <1>1, <1>3, <3>2 DEF e
  <2> QED
    BY <2>1, <2>2
<1>7. ASSUME NEW t \in 0 .. L - 1
      PROVE  /\ Bit(high, t) = IF t >= k THEN Bit(X, t - k) ELSE 0
             /\ Bit(low, t) = IF t >= k THEN 0 ELSE Bit(Y, t + L - k)
             /\ Bit(low, t) \in Int /\ Bit(high, t) \in Int
  <2>1. t \in 0 .. MaxBitWidth /\ t \in Nat /\ t + (L - k) <= MaxBitWidth /\ t + (L - k) = t + L - k
    BY <1>1, <1>2
  <2>2. Bit(high, t) = Bit(X * 2 ^ k, t)
    BY <1>1, <1>4, BitOfRest
  <2>3. Bit(X * 2 ^ k, t) = IF t >= k THEN Bit(X, t - k) ELSE 0
    BY <1>2, <1>3, <2>1, BitOfProduct
  <2>4. CASE k = 0
    <3>1. low = 0 /\ Bit(0, t) = 0 /\ t >= k
      BY <2>1, <2>4, BitOfZero
    <3> QED
      BY <2>2, <2>3, <3>1, <1>5, <1>6, <2>1, Bits
  <2>5. CASE k # 0
    <3>1. low = Y \div 2 ^ (L - k)
      BY <2>5
    <3>2. Bit(low, t) = Bit(Y, t + L - k)
      BY <1>2, <1>3, <2>1, <3>1, BitOfQuotient
    <3>3. t >= k => Bit(Y, t + L - k) = 0
      <4>1. t >= k => t + L - k \in L .. MaxBitWidth
        BY <1>1, <1>2, <2>1
      <4> QED
        BY <1>1, <1>3, <4>1, BitAbove
    <3> HIDE DEF high, low
    <3> QED
      BY <1>5, <1>6, <2>1, <2>2, <2>3, <3>2, <3>3, Bits
  <2> QED
    BY <2>4, <2>5
<1> HIDE DEF high, low
<1>8. /\ LimbOr(high, low) \in 0 .. Base - 1 /\ LimbOr(low, high) \in 0 .. Base - 1
      /\ \A t \in 0 .. L - 1 :
           /\ Bit(LimbOr(high, low), t) = Bit(high, t) + Bit(low, t) - Bit(high, t) * Bit(low, t)
           /\ Bit(LimbOr(low, high), t) = Bit(low, t) + Bit(high, t) - Bit(low, t) * Bit(high, t)
  <2>1. LimbOr(high, low) \in 0 .. Base - 1
        /\ \A t \in 0 .. L - 1 : Bit(LimbOr(high, low), t) = Bit(high, t) + Bit(low, t) - Bit(high, t) * Bit(low, t)
    BY <1>5, <1>6, LimbConnectives
  <2>2. LimbOr(low, high) \in 0 .. Base - 1
        /\ \A t \in 0 .. L - 1 : Bit(LimbOr(low, high), t) = Bit(low, t) + Bit(high, t) - Bit(low, t) * Bit(high, t)
    BY <1>5, <1>6, LimbConnectives
  <2> QED
    BY <2>1, <2>2
<1>9. ASSUME NEW t \in 0 .. L - 1
      PROVE  /\ Bit(LimbOr(high, low), t) = IF t >= k THEN Bit(X, t - k) ELSE Bit(Y, t + L - k)
             /\ Bit(LimbOr(low, high), t) = IF t >= k THEN Bit(X, t - k) ELSE Bit(Y, t + L - k)
  <2> DEFINE p == Bit(high, t)
             q == Bit(low, t)
  <2>1. p \in Int /\ q \in Int /\ Bit(LimbOr(high, low), t) = p + q - p * q
        /\ Bit(LimbOr(low, high), t) = q + p - q * p
    BY <1>7, <1>8
  <2>2. CASE t >= k
    <3>1. q = 0 /\ p = Bit(X, t - k)
      BY <1>7, <2>2
    <3> HIDE DEF p, q
    <3>2. p + q - p * q = p /\ q + p - q * p = p
      BY <2>1, <3>1
    <3> QED
      BY <2>1, <2>2, <3>1, <3>2
  <2>3. CASE ~(t >= k)
    <3>1. p = 0 /\ q = Bit(Y, t + L - k)
      BY <1>7, <2>3
    <3> HIDE DEF p, q
    <3>2. p + q - p * q = q /\ q + p - q * p = q
      BY <2>1, <3>1
    <3> QED
      BY <2>1, <2>3, <3>1, <3>2
  <2> QED
    BY <2>2, <2>3
<1> QED
  BY <1>8, <1>9 DEF high, low

\* sll_bv: the product with a power of two, cut to the width.
LEMMA ShiftLeftOnLimbs ==
    ASSUME NEW n, Handled(n), NEW x \in Values(n), NEW s \in Nat
    PROVE  sll_bv(Vector(n, x), s) = Vector(n, IF s >= n THEN 0 ELSE (x * 2 ^ s) % 2 ^ n)
<1> DEFINE V == Vector(n, x)
           N == LimbsFor(n)
           X == Limbs(n, x)
           k == s % LimbBits
           skip == s \div LimbBits
           z == x * 2 ^ s
           y == z % 2 ^ n
           high(i) == (X[i] * 2 ^ k) % Base
           low(i)  == IF k = 0 \/ i > N THEN 0 ELSE X[i] \div 2 ^ (LimbBits - k)
           f == [j \in 1 .. N |-> IF j + skip > N THEN 0
                                  ELSE LimbOr(high(j + skip), low(j + skip + 1))]
<1>1. /\ n \in Nat /\ n \in 1 .. MaxBitWidth /\ n \in 0 .. MaxBitWidth /\ MaxBitWidth \in Nat
      /\ LimbBits \in Nat \ {0} /\ Base \in Nat \ {0} /\ LimbBits \in 0 .. MaxBitWidth
  BY LimbWidth
<1>2. x \in Int
  BY <1>1, ValuesOf
<1>3. V.width = n /\ V.bits = X /\ NumLimbs(V) = N
  BY VectorParts
<1>4. CASE s >= n
  <2>1. sll_bv(V, s) = lv_new(n)
    BY <1>3, <1>4 DEF sll_bv
  <2> QED
    BY <1>4, <2>1, NewIsZero
<1>5. CASE ~(s >= n)
  <2>1. sll_bv(V, s) = set_rem_bits_to_zero([width |-> n, bits |-> <<>> \o f])
    <3> HIDE DEF V, X, N
    <3> QED
      BY <1>3, <1>5 DEF sll_bv, Build, N
  <2>2. s < n /\ s \in 0 .. MaxBitWidth
    BY <1>1, <1>5
  <2>3. z \in Int
    <3>1. 2 ^ s \in Nat \ {0}
      BY <2>2, PowerIs
    <3> QED
      BY <1>2, <3>1
  <2>4. y \in Values(n)
    <3> HIDE DEF z
    <3> QED
      BY <1>1, <2>3, RestFits
  <2>5. /\ k \in 0 .. LimbBits - 1 /\ skip \in Nat /\ skip * LimbBits \in Nat
        /\ s = skip * LimbBits + k
        /\ \A j \in 1 .. N :
             /\ j + skip <= N => Pos(n, j + skip) + skip * LimbBits = Pos(n, j)
             /\ j + skip > N => Pos(n, j) + LimbBits <= skip * LimbBits
    BY SkippedLimbs
  <2>6. N \in Nat \ {0} /\ Pos(n, N) = 0
    BY Positions
  <2> DEFINE d == skip * LimbBits
  <2>7. ASSUME NEW j \in 1 .. N
        PROVE  /\ f[j] \in 0 .. Base - 1
               /\ \A t \in 0 .. LimbBits - 1 : Pos(n, j) + t < n => Bit(f[j], t) = Bit(y, Pos(n, j) + t)
    <3> DEFINE p == Pos(n, j)
    <3>1. p \in Nat
      BY Positions
    <3>2. ASSUME NEW t \in 0 .. LimbBits - 1, p + t < n
          PROVE  /\ Bit(y, p + t) = IF p + t >= s THEN Bit(x, p + t - s) ELSE 0
                 /\ t \in Nat /\ t \in 0 .. MaxBitWidth
      <4>1. t \in Nat /\ t \in 0 .. MaxBitWidth /\ p + t \in 0 .. n - 1 /\ p + t \in 0 .. MaxBitWidth
        BY <1>1, <3>1, <3>2
      <4>2. Bit(y, p + t) = Bit(z, p + t)
        <5> HIDE DEF z, p
        <5> QED
          BY <1>1, <2>3, <4>1, BitOfRest
      <4>3. Bit(z, p + t) = IF p + t >= s THEN Bit(x, p + t - s) ELSE 0
        <5> DEFINE u == p + t
        <5>1. u \in 0 .. MaxBitWidth
          BY <4>1
        <5> HIDE DEF u
        <5>2. Bit(x * 2 ^ s, u) = IF u >= s THEN Bit(x, u - s) ELSE 0
          BY <1>2, <2>2, <5>1, BitOfProduct
        <5>3. u = p + t /\ Bit(z, u) = Bit(x * 2 ^ s, u)
          BY DEF u
        <5>4. Bit(z, u) = IF u >= s THEN Bit(x, u - s) ELSE 0
          <6> HIDE DEF z
          <6> QED
            BY <5>2, <5>3
        <5>5. u - s = p + t - s
          <6> HIDE DEF p
          <6> QED
            BY <3>1, <4>1, <5>3
        <5> HIDE DEF p, z
        <5> QED
          BY <5>3, <5>4, <5>5
      <4> QED
        BY <4>1, <4>2, <4>3
    <3>3. CASE j + skip > N
      <4>1. f[j] = 0 /\ 0 \in 0 .. Base - 1
        BY <1>1, <3>3
      <4>2. p + LimbBits <= d
        BY <2>5, <3>3
      <4>3. ASSUME NEW t \in 0 .. LimbBits - 1, p + t < n PROVE Bit(0, t) = Bit(y, p + t)
        <5>1. ~(p + t >= s)
          <6>1. d \in Nat /\ s = d + k
            BY <2>5
          <6> HIDE DEF d, p, k
          <6> QED
            BY <1>1, <2>5, <3>1, <4>2, <6>1
        <5>2. Bit(0, t) = 0
          BY <3>2, <4>3, BitOfZero
        <5> QED
          BY <3>2, <4>3, <5>1, <5>2
      <4> HIDE DEF f, y
      <4> QED
        BY <4>1, <4>3
    <3>4. CASE j + skip <= N
      <4> DEFINE i == j + skip
                 q == Pos(n, i)
                 Y == IF i + 1 > N THEN 0 ELSE X[i + 1]
      <4>1. i \in 1 .. N /\ q + d = p /\ q \in Nat /\ d \in Nat
        <5>1. i \in 1 .. N
          BY <2>5, <2>6, <3>4
        <5>2. q \in Nat
          BY <5>1, Positions
        <5> QED
          BY <2>5, <3>4, <5>1, <5>2
      <4>2. ~(i + 1 > N) => i + 1 \in 1 .. N /\ i + 1 \in 2 .. N /\ (i + 1) - 1 = i
        <5>1. i \in 1 .. N
          BY <4>1
        <5> HIDE DEF i, N
        <5> QED
          BY <2>6, <5>1
      <4>3. X[i] \in 0 .. Base - 1 /\ Y \in 0 .. Base - 1
        <5>1. X[i] \in 0 .. Base - 1
          BY <4>1, BitOfLimb
        <5>2. ~(i + 1 > N) => X[i + 1] \in 0 .. Base - 1
          BY <4>2, BitOfLimb
        <5> HIDE DEF X, i
        <5> QED
          BY <1>1, <5>1, <5>2
      <4>4. f[j] = LimbOr((X[i] * 2 ^ k) % Base, IF k = 0 THEN 0 ELSE Y \div 2 ^ (LimbBits - k))
        <5>1. f[j] = LimbOr(high(i), low(i + 1))
          <6>1. ~(j + skip > N)
            BY <2>5, <2>6, <3>4
          <6> QED
            BY <6>1
        <5>2. low(i + 1) = IF k = 0 THEN 0 ELSE Y \div 2 ^ (LimbBits - k)
          <6>1. CASE i + 1 > N
            <7>1. k # 0 => 0 \div 2 ^ (LimbBits - k) = 0
              <8> DEFINE e == 2 ^ (LimbBits - k)
              <8>1. LimbBits - k \in 0 .. MaxBitWidth
                BY <1>1, <2>5
              <8>2. e \in Nat \ {0}
                <9> HIDE DEF k
                <9> QED
                  BY <8>1, PowerIs
              <8> HIDE DEF e
              <8>3. 0 \div e = 0
                BY <8>2
              <8> QED
                BY <8>3 DEF e
            <7> QED
              BY <6>1, <7>1
          <6>2. CASE ~(i + 1 > N)
            BY <6>2
          <6> QED
            BY <6>1, <6>2
        <5> QED
          BY <5>1, <5>2
      <4>5. /\ f[j] \in 0 .. Base - 1
            /\ \A t \in 0 .. LimbBits - 1 :
                 Bit(f[j], t) = IF t >= k THEN Bit(X[i], t - k) ELSE Bit(Y, t + LimbBits - k)
        <5> DEFINE U == X[i]
        <5>1. U \in 0 .. Base - 1
          BY <4>3
        <5> DEFINE W == LimbOr((U * 2 ^ k) % Base, IF k = 0 THEN 0 ELSE Y \div 2 ^ (LimbBits - k))
        <5>2. f[j] = W
          BY <4>4
        <5>3. k \in 0 .. LimbBits - 1 /\ Y \in 0 .. Base - 1
          BY <2>5, <4>3
        <5> HIDE DEF Y, U, k, f
        <5>4. /\ W \in 0 .. Base - 1
              /\ \A t \in 0 .. LimbBits - 1 :
                   Bit(W, t) = IF t >= k THEN Bit(U, t - k) ELSE Bit(Y, t + LimbBits - k)
          BY <5>1, <5>3, MovedUp
        <5> HIDE DEF W
        <5> QED
          BY <5>2, <5>4 DEF U
      <4>6. ASSUME NEW t \in 0 .. LimbBits - 1, p + t < n PROVE Bit(f[j], t) = Bit(y, p + t)
        <5>1. s = d + k /\ k \in Nat /\ t \in Nat /\ t \in 0 .. MaxBitWidth
          BY <1>1, <2>5, <3>2, <4>6
        <5>2. CASE t >= k
          <6>1. p + t >= s /\ p + t - s = q + (t - k) /\ t - k \in 0 .. LimbBits - 1
            <7> HIDE DEF p, d, k, q
            <7> QED
              BY <1>1, <3>1, <4>1, <5>1, <5>2
          <6>2. Bit(X[i], t - k) = Bit(x, q + (t - k))
            BY <4>1, <6>1, BitOfLimb
          <6> HIDE DEF f, y, X
          <6> QED
            BY <3>2, <4>5, <4>6, <5>2, <6>1, <6>2
        <5>3. CASE ~(t >= k)
          <6>1. CASE i + 1 > N
            <7>1. i = N
              BY <2>6, <4>1, <6>1
            <7>2. q = 0
              BY <2>6, <7>1
            <7>3. ~(p + t >= s) /\ t + LimbBits - k \in 0 .. MaxBitWidth
              <8>1. k <= LimbBits
                BY <1>1, <2>5
              <8> HIDE DEF p, d, k, q
              <8> QED
                BY <1>1, <3>1, <4>1, <5>1, <5>3, <7>2, <8>1
            <7>4. Y = 0 /\ Bit(0, t + LimbBits - k) = 0
              BY <6>1, <7>3, BitOfZero
            <7> HIDE DEF f, y, X
            <7> QED
              BY <3>2, <4>5, <4>6, <5>3, <7>3, <7>4
          <6>2. CASE ~(i + 1 > N)
            <7>1. i + 1 \in 1 .. N /\ i + 1 \in 2 .. N /\ (i + 1) - 1 = i
              BY <4>2, <6>2
            <7>2. q = Pos(n, i + 1) + LimbBits /\ Pos(n, i + 1) \in Nat
              <8> HIDE DEF i
              <8> QED
                BY <7>1, Positions
            <7> DEFINE r == Pos(n, i + 1)
                       u == t + LimbBits - k
            <7>3. p + t >= s /\ p + t - s = r + u /\ u \in 0 .. LimbBits - 1
              <8>1. q = r + LimbBits /\ r \in Nat /\ u = t + LimbBits - k /\ k <= LimbBits
                BY <1>1, <2>5, <7>2
              <8> HIDE DEF p, d, k, q, r, u
              <8> QED
                BY <1>1, <3>1, <4>1, <5>1, <5>3, <8>1
            <7>4. Bit(X[i + 1], u) = Bit(x, r + u)
              BY <7>1, <7>3, BitOfLimb
            <7>5. Y = X[i + 1]
              BY <6>2
            <7>6. Bit(f[j], t) = Bit(Y, u)
              <8> HIDE DEF f, X, Y, k
              <8> QED
                BY <4>5, <5>3
            <7> HIDE DEF f, y, X, Y, r, u
            <7> QED
              BY <3>2, <4>6, <7>3, <7>4, <7>5, <7>6
          <6> QED
            BY <6>1, <6>2
        <5> QED
          BY <5>2, <5>3
      <4> HIDE DEF f, y
      <4> QED
        BY <4>5, <4>6
    <3> QED
      BY <2>5, <2>6, <3>3, <3>4
  <2>8. f \in [1 .. N -> 0 .. Base - 1]
    <3>1. f = [j \in 1 .. N |-> f[j]]
      OBVIOUS
    <3> HIDE DEF f
    <3> QED
      BY <2>7, <3>1
  <2> HIDE DEF f, y
  <2>9. set_rem_bits_to_zero([width |-> n, bits |-> <<>> \o f]) = Vector(n, y)
    BY <2>4, <2>7, <2>8, MaskedTuple
  <2> QED
    BY <1>5, <2>1, <2>9 DEF y
<1> QED
  BY <1>4, <1>5

----------------------------------------------------------------------------
(* Multiplication.                                                         *)

LEMMA MulOnLimbs ==
    ASSUME NEW n, Handled(n), NEW x \in Values(n), NEW y \in Values(n)
    PROVE  lv_mul(Vector(n, x), Vector(n, y)) = Vector(n, bv_mul(n, x, y))
<1> DEFINE V == Vector(n, x)
           W == Vector(n, y)
           part(i) == x * (y % 2 ^ i)
           term(i) == IF get_bit(W, i) = 1 THEN sll_bv(V, i) ELSE lv_new(n)
           F(f) == [i \in 0 .. n |-> IF i = 0 THEN lv_new(n) ELSE lv_add(f[i - 1], term(i - 1))]
           g == [i \in 0 .. n |-> Vector(n, part(i) % 2 ^ n)]
<1>1. /\ n \in Nat \ {0} /\ n \in 1 .. MaxBitWidth /\ n \in 0 .. MaxBitWidth
      /\ MaxBitWidth \in Nat /\ n + 1 <= MaxBitWidth /\ 2 ^ n \in Nat \ {0}
  <2>1. n \in Nat \ {0} /\ n \in 0 .. MaxBitWidth /\ MaxBitWidth \in Nat
        /\ LimbBits \in Nat \ {0} /\ n + LimbBits <= MaxBitWidth /\ n \in 1 .. MaxBitWidth
    BY LimbWidth
  <2> QED
    BY <2>1, PowerIs
<1>2. x \in Nat /\ y \in Nat /\ x \in Int /\ y \in Int /\ x * y \in Int
  <2>1. x \in Nat /\ y \in Nat
    BY <1>1, ValuesOf
  <2> QED
    BY <2>1
<1>3. V.width = n /\ Number(V) = x /\ Number(W) = y /\ lv_new(n) = Vector(n, 0) /\ 0 \in Values(n)
  BY NumberOf, VectorParts, NewIsZero
<1>4. bv_mul(n, x, y) = Fit(n, x * y) /\ Fit(n, x * y) = (x * y) % 2 ^ n
  BY DEF bv_mul, Fit
<1>5. CASE n <= DoubleBits
  <2>1. lv_mul(V, W) = uint64_to_bv(x * y, n)
    <3> HIDE DEF V, W
    <3> QED
      BY <1>3, <1>5 DEF lv_mul
  <2>2. uint64_to_bv(x * y, n) = Vector(n, Fit(n, x * y))
    BY <1>2, <1>5, FromUint64Fit
  <2> QED
    BY <1>4, <2>1, <2>2
<1>6. CASE ~(n <= DoubleBits)
  <2>1. \A i \in 0 .. n : part(i) \in Int
    <3>1. ASSUME NEW i \in 0 .. n PROVE part(i) \in Int
      <4>1. i \in 0 .. MaxBitWidth
        BY <1>1
      <4>2. y % 2 ^ i \in Nat
        BY <1>2, <4>1, RestFits
      <4> QED
        BY <1>2, <4>2
    <3> QED
      BY <3>1
  <2>2. ASSUME NEW i \in 1 .. n PROVE g[i] = lv_add(g[i - 1], term(i - 1))
    <3> DEFINE j == i - 1
               P == part(j)
               c == Bit(y, j)
               t == x * 2 ^ j
               T == IF c = 1 THEN t ELSE 0
    <3>1. j \in 0 .. n /\ j \in 0 .. n - 1 /\ j \in Nat /\ j + 1 <= MaxBitWidth /\ j + 1 = i
          /\ j < n /\ j \in 0 .. MaxBitWidth
      BY <1>1
    <3> HIDE DEF j
    <3>2. /\ y % 2 ^ i = (y % 2 ^ j) + c * 2 ^ j /\ c \in {0, 1} /\ y % 2 ^ j \in Nat
          /\ 2 ^ j \in Nat
      BY <1>2, <3>1, OneMoreBit, PowerIs
    <3>3. T \in Int /\ P \in Int
      <4>1. t \in Int
        BY <1>2, <3>2
      <4> HIDE DEF t, c
      <4> QED
        BY <2>1, <3>1, <4>1
    <3>4. term(j) = Vector(n, T % 2 ^ n)
      <4>1. get_bit(W, j) = c
        BY <3>1, GetBit
      <4>2. sll_bv(V, j) = Vector(n, t % 2 ^ n)
        <5>1. sll_bv(V, j) = Vector(n, IF j >= n THEN 0 ELSE (x * 2 ^ j) % 2 ^ n)
          BY <3>1, ShiftLeftOnLimbs
        <5>2. ~(j >= n)
          BY <1>1, <3>1
        <5> QED
          BY <5>1, <5>2
      <4>3. 0 % 2 ^ n = 0
        BY <1>1, <1>3, RestOfValue
      <4> HIDE DEF V, W, c, t
      <4> QED
        BY <1>3, <4>1, <4>2, <4>3
    <3>5. part(i) = P + T
      <4> DEFINE u == y % 2 ^ j
                 e == 2 ^ j
      <4>1. u \in Int /\ e \in Int /\ y % 2 ^ i = u + c * e
        BY <3>2
      <4>2. part(i) = x * (u + c * e) /\ P = x * u /\ t = x * e
        BY <4>1
      <4>3. c \in {0, 1}
        BY <3>2
      <4> HIDE DEF u, e, c, part, t, P
      <4>4. CASE c = 0
        BY <1>2, <4>1, <4>2, <4>4
      <4>5. CASE c = 1
        <5>1. x * (u + e) = x * u + x * e
          BY <1>2, <4>1
        <5>2. u + c * e = u + e
          BY <4>1, <4>5
        <5> QED
          BY <4>2, <4>5, <5>1, <5>2
      <4> QED
        BY <4>3, <4>4, <4>5
    <3> DEFINE M == 2 ^ n
    <3>6. P % M \in Values(n) /\ T % M \in Values(n) /\ M \in Nat \ {0}
      <4> HIDE DEF P, T
      <4> QED
        BY <1>1, <3>3, RestFits
    <3>7. g[j] = Vector(n, P % M) /\ g[i] = Vector(n, (P + T) % M)
      BY <3>1, <3>5
    <3> HIDE DEF P, T, M, V, W, g, term
    <3>8. lv_add(Vector(n, P % M), Vector(n, T % M)) = Vector(n, bv_add(n, P % M, T % M))
      BY <3>6, AddOnLimbs
    <3>9. bv_add(n, P % M, T % M) = (P + T) % M
      <4>1. bv_add(n, P % M, T % M) = ((P % M) + (T % M)) % M
        BY DEF bv_add, Fit, M
      <4> QED
        BY <3>3, <3>6, <4>1, RestOfSum
    <3>10. term(j) = Vector(n, T % M)
      BY <3>4 DEF M
    <3> QED
      BY <3>7, <3>8, <3>9, <3>10 DEF j
  <2>3. g[0] = lv_new(n)
    <3>1. y % 2 ^ 0 = 0
      BY <1>2, PowersAssumption
    <3>2. part(0) = 0
      <4> DEFINE u == y % 2 ^ 0
      <4>1. u = 0
        BY <3>1
      <4> HIDE DEF u
      <4>2. x * u = 0
        BY <1>2, <4>1
      <4> QED
        BY <4>2 DEF u
    <3>3. 0 % 2 ^ n = 0
      BY <1>1, <1>3, RestOfValue
    <3>4. g[0] = Vector(n, part(0) % 2 ^ n)
      BY <1>1
    <3> HIDE DEF g, part
    <3> QED
      BY <1>3, <3>2, <3>3, <3>4
  <2>4. g = F(g)
    <3>1. g = [i \in 0 .. n |-> g[i]]
      OBVIOUS
    <3>2. \A i \in 0 .. n : i # 0 => i \in 1 .. n
      BY <1>1
    <3> HIDE DEF g, term
    <3> QED
      BY <2>2, <2>3, <3>1, <3>2
  <2> DEFINE f == CHOOSE f : f = F(f)
  <2>5. f = F(f)
    <3>1. \E e : e = F(e)
      BY <2>4
    <3> QED
      BY <3>1
  <2>6. lv_mul(V, W) = f[n]
    <3> HIDE DEF V, W
    <3> QED
      BY <1>3, <1>6 DEF lv_mul
  <2> HIDE DEF f
  <2>7. f[0] = lv_new(n) /\ \A i \in 1 .. n : f[i] = lv_add(f[i - 1], term(i - 1))
    <3> HIDE DEF term
    <3> QED
      BY <1>1, <2>5
  <2>8. g[n] = Vector(n, (x * y) % 2 ^ n)
    <3>1. y % 2 ^ n = y
      BY <1>1, RestOfValue
    <3>2. g[n] = Vector(n, part(n) % 2 ^ n) /\ part(n) = x * y
      BY <1>1, <3>1
    <3> HIDE DEF g, part
    <3> QED
      BY <3>2
  <2>9. f[n] = g[n]
    <3> HIDE DEF g, term, F
    <3>1. \A k \in 1 .. n : f[k - 1] = g[k - 1] => f[k] = g[k]
      BY <2>2, <2>7
    <3>2. n \in Nat /\ n \in 0 .. n /\ f[0] = g[0]
      BY <1>1, <2>3, <2>7
    <3> QED
      BY <3>1, <3>2, LoopComputes
  <2> QED
    BY <1>4, <2>6, <2>8, <2>9
<1> QED
  BY <1>5, <1>6

----------------------------------------------------------------------------
(* Long division.                                                          *)

\* The next bit of the dividend comes down to the end of the rest.
LEMMA BringDown ==
    ASSUME NEW n, Handled(n), n > 1, NEW s \in Nat, NEW c \in {0, 1}, 2 * s + c \in Values(n)
    PROVE  /\ s \in Values(n)
           /\ set_bit(sll_bv(Vector(n, s), 1), 0, c) = Vector(n, 2 * s + c)
<1> DEFINE t == 2 * s
<1>1. /\ n \in Nat \ {0} /\ n \in 0 .. MaxBitWidth /\ 2 ^ n \in Nat \ {0} /\ MaxBitWidth \in Nat
      /\ 0 \in 0 .. n - 1
  <2>1. n \in Nat \ {0} /\ n \in 0 .. MaxBitWidth /\ MaxBitWidth \in Nat
    BY LimbWidth
  <2> QED
    BY <2>1, PowerIs
<1>2. s \in Values(n) /\ t \in Values(n)
  <2> DEFINE d == 2 ^ n
  <2>1. d \in Nat \ {0} /\ 2 * s + c <= d - 1 /\ c \in Nat
    BY <1>1 DEF Values
  <2> HIDE DEF d
  <2>2. s \in 0 .. d - 1 /\ 2 * s \in 0 .. d - 1
    BY <2>1
  <2> QED
    BY <2>2 DEF Values, d
<1>3. 2 ^ 1 = 2 /\ 2 ^ 0 = 1
  <2>1. 0 \in 0 .. MaxBitWidth
    BY <1>1
  <2>2. 2 ^ 0 = 1 /\ 2 ^ (0 + 1) = 2 * 2 ^ 0
    BY <2>1, PowersAssumption
  <2> QED
    BY <2>2
<1>4. sll_bv(Vector(n, s), 1) = Vector(n, t)
  <2>1. sll_bv(Vector(n, s), 1) = Vector(n, IF 1 >= n THEN 0 ELSE (s * 2 ^ 1) % 2 ^ n)
    BY <1>2, ShiftLeftOnLimbs
  <2>2. ~(1 >= n) /\ s * 2 ^ 1 = t
    BY <1>1, <1>3
  <2>3. t % 2 ^ n = t
    BY <1>1, <1>2, RestOfValue
  <2> HIDE DEF t
  <2> QED
    BY <2>1, <2>2, <2>3
<1>5. set_bit(Vector(n, t), 0, c) = Vector(n, SetTo(t, 0, c))
  <2> HIDE DEF t
  <2> QED
    BY <1>1, <1>2, SetBit
<1>6. SetTo(t, 0, c) = t + c
  <2>1. Bit(t, 0) = 0
    <3>1. t \div 1 = t /\ t % 2 = 0
      OBVIOUS
    <3> QED
      BY <1>3, <3>1 DEF Bit
  <2> QED
    BY <1>3, <2>1 DEF SetTo
<1> QED
  BY <1>2, <1>4, <1>5, <1>6

LEMMA VectorsEqual ==
    ASSUME NEW n, Handled(n), NEW x \in Values(n), NEW y \in Values(n)
    PROVE  Vector(n, x) = Vector(n, y) <=> x = y
<1>1. Vector(n, x).bits = Limbs(n, x) /\ Vector(n, y).bits = Limbs(n, y)
  BY VectorParts
<1> QED
  BY <1>1, NumbersDetermined

\* The next bit of the quotient.
LEMMA NextBitOfQuotient ==
    ASSUME NEW n, Handled(n), NEW i \in 0 .. n - 1, NEW q \in Nat,
           q * 2 ^ (i + 1) \in Values(n)
    PROVE  /\ set_bit(Vector(n, q * 2 ^ (i + 1)), i, 1) = Vector(n, (2 * q + 1) * 2 ^ i)
           /\ q * 2 ^ (i + 1) = (2 * q) * 2 ^ i
<1> DEFINE t == q * 2 ^ (i + 1)
           e == 2 ^ i
<1>1. n \in Nat /\ n <= MaxBitWidth /\ i \in 0 .. MaxBitWidth /\ i + 1 \in 0 .. MaxBitWidth /\ ~(i >= i + 1)
      /\ q \in Int
  <2>1. n \in 0 .. MaxBitWidth /\ MaxBitWidth \in Nat
    BY LimbWidth
  <2> QED
    BY <2>1
<1>2. e \in Nat \ {0} /\ 2 ^ (i + 1) = 2 * e
  BY <1>1, PowerIs, PowersAssumption
<1>3. Bit(t, i) = 0
  BY <1>1, BitOfProduct
<1>4. set_bit(Vector(n, t), i, 1) = Vector(n, SetTo(t, i, 1))
  BY SetBit
<1>5. SetTo(t, i, 1) = t + e
  BY <1>2, <1>3 DEF SetTo
<1>6. t = (2 * q) * e /\ t + e = (2 * q + 1) * e
  <2>1. t = q * (2 * e)
    BY <1>2
  <2> HIDE DEF t, e
  <2> QED
    BY <1>1, <1>2, <2>1
<1> QED
  BY <1>4, <1>5, <1>6

\* After k rounds quotient and rest are those of the k highest bits, the quotient
\* at the place of the lowest of them.
LEMMA LongDivisionOnLimbs ==
    ASSUME NEW n, Handled(n), n > DoubleBits, NEW x \in Values(n), NEW y \in Values(n)
    PROVE  LongDivision(Vector(n, x), Vector(n, y)) =
             [quot |-> Vector(n, bv_udiv(n, x, y)), rem |-> Vector(n, bv_urem(n, x, y))]
<1> DEFINE V == Vector(n, x)
           W == Vector(n, y)
           high(k) == x \div 2 ^ (n - k)
           q(k) == bv_udiv(k, high(k), y)
           r(k) == bv_urem(k, high(k), y)
           next(last, i) ==
             LET s == set_bit(sll_bv(last.rem, 1), 0, get_bit(V, i))
             IN  IF Less(W, s) \/ W = s
                 THEN [quot |-> set_bit(last.quot, i, 1), rem |-> lv_add(s, lv_neg(W))]
                 ELSE [quot |-> last.quot, rem |-> s]
           new == [quot |-> lv_new(n), rem |-> lv_new(n)]
           F(f) == [k \in 0 .. n |-> IF k = 0 THEN new ELSE next(f[k - 1], n - k)]
           g == [k \in 0 .. n |-> [quot |-> Vector(n, q(k) * 2 ^ (n - k)), rem |-> Vector(n, r(k))]]
<1>1. /\ n \in Nat \ {0} /\ n \in 1 .. MaxBitWidth /\ n \in 0 .. MaxBitWidth
      /\ MaxBitWidth \in Nat /\ n + 1 <= MaxBitWidth /\ n > 1
  <2>1. n \in Nat \ {0} /\ n \in 0 .. MaxBitWidth /\ MaxBitWidth \in Nat
        /\ LimbBits \in Nat \ {0} /\ n + LimbBits <= MaxBitWidth /\ n \in 1 .. MaxBitWidth
    BY LimbWidth
  <2>2. DoubleBits \in Nat /\ DoubleBits >= 2
    BY <2>1 DEF DoubleBits
  <2> QED
    BY <2>1, <2>2
<1>2. x \in Nat /\ y \in Nat
  BY <1>1, ValuesOf
<1>3. V.width = n /\ lv_new(n) = Vector(n, 0) /\ 0 \in Values(n)
  BY VectorParts, NewIsZero
<1>4. ASSUME NEW k \in 1 .. n PROVE g[k] = next(g[k - 1], n - k)
  <2> DEFINE j == k - 1
             i == n - k
             h == high(j)
             c == Bit(x, i)
             u == bv_urem(j, h, y)
             p == bv_udiv(j, h, y)
             t == 2 * u + c
  <2>1. /\ j \in Nat /\ j + 1 = k /\ j + 1 <= MaxBitWidth /\ i \in Nat /\ n - j = i + 1
        /\ i + 1 <= MaxBitWidth /\ i \in 0 .. n - 1 /\ i + 1 <= n /\ j = n - (i + 1) /\ j \in 0 .. n
        /\ k \in 0 .. n
    BY <1>1
  <2> HIDE DEF i, j
  <2>2. h = x \div 2 ^ (i + 1) /\ h \in Values(j)
    <3>1. h = x \div 2 ^ (i + 1)
      BY <2>1
    <3>2. i + 1 \in Nat
      BY <2>1
    <3>3. x \div 2 ^ (i + 1) \in Values(n - (i + 1))
      BY <1>1, <2>1, <3>2, HighPartFits
    <3> QED
      BY <2>1, <3>1, <3>3
  <2>3. high(k) = 2 * h + c /\ c \in {0, 1} /\ h \in Nat
    <3>1. x \div 2 ^ i = 2 * (x \div 2 ^ (i + 1)) + Bit(x, i) /\ x \div 2 ^ (i + 1) \in Nat
          /\ Bit(x, i) \in {0, 1}
      BY <1>2, <2>1, OneMoreBit
    <3>2. high(k) = x \div 2 ^ i
      BY DEF i
    <3> QED
      BY <2>2, <3>1, <3>2
  <2> HIDE DEF h, c, high
  <2>4. /\ u \in Nat /\ p \in Nat /\ t <= 2 * h + c /\ p \in Values(j)
        /\ y <= t => q(k) = 2 * p + 1 /\ r(k) = t - y
        /\ ~(y <= t) => q(k) = 2 * p /\ r(k) = t
    <3>1. /\ u \in Nat /\ p \in Nat /\ t <= 2 * h + c /\ p \in Values(j)
          /\ y <= t => bv_udiv(j + 1, 2 * h + c, y) = 2 * p + 1 /\ bv_urem(j + 1, 2 * h + c, y) = t - y
          /\ ~(y <= t) => bv_udiv(j + 1, 2 * h + c, y) = 2 * p /\ bv_urem(j + 1, 2 * h + c, y) = t
      <4>1. j \in Nat /\ j + 1 <= MaxBitWidth /\ h \in Values(j) /\ c \in {0, 1} /\ y \in Nat
        BY <1>2, <2>1, <2>2, <2>3
      <4> HIDE DEF V, W, next, new, g
      <4> QED
        BY <4>1, DivisionRound, ZenonT(60)
    <3> HIDE DEF u, p
    <3> QED
      BY <2>1, <2>3, <3>1
  <2>5. g[j] = [quot |-> Vector(n, p * 2 ^ (i + 1)), rem |-> Vector(n, u)]
    BY <2>1 DEF h
  <2>6. g[k] = [quot |-> Vector(n, q(k) * 2 ^ i), rem |-> Vector(n, r(k))]
    BY <2>1 DEF i
  <2>7. get_bit(V, i) = c
    BY <2>1, GetBit DEF c
  <2> HIDE DEF u, p, q, r, g
  <2>8. t \in Values(n) /\ t \in Nat
    <3>1. x \div 2 ^ i \in 0 .. x
      <4>1. 2 ^ i \in Nat \ {0}
        BY <1>1, <2>1, PowerIs
      <4> DEFINE d == 2 ^ i
      <4>2. d \in Nat \ {0}
        BY <4>1
      <4> HIDE DEF d
      <4>3. x \div d \in 0 .. x
        BY <1>2, <4>2, DivMod
      <4> QED
        BY <4>3 DEF d
    <3>2. 2 * h + c <= x
      BY <1>2, <2>3, <3>1 DEF high, i
    <3>3. t \in Nat
      BY <2>3, <2>4
    <3> DEFINE M == 2 ^ n
    <3>4. x \in 0 .. M - 1 /\ M \in Nat \ {0}
      BY <1>1, PowerIs DEF Values
    <3> HIDE DEF M, t
    <3>5. t \in 0 .. M - 1
      BY <1>2, <2>3, <2>4, <3>2, <3>3, <3>4
    <3> QED
      BY <3>3, <3>5 DEF Values, M
  <2>9. set_bit(sll_bv(Vector(n, u), 1), 0, c) = Vector(n, t)
    BY <1>1, <2>3, <2>4, <2>8, BringDown
  <2>10. p * 2 ^ (i + 1) \in Values(n)
    <3> DEFINE e == 2 ^ (i + 1)
               d == 2 ^ j
    <3>1. e \in Nat \ {0} /\ d \in Nat \ {0} /\ 2 ^ n = d * e
      <4>1. i + 1 \in 0 .. MaxBitWidth /\ j \in 0 .. MaxBitWidth /\ j + (i + 1) = n
            /\ i + 1 \in Nat /\ j \in Nat /\ j + (i + 1) <= MaxBitWidth
        BY <1>1, <2>1
      <4>2. 2 ^ (j + (i + 1)) = 2 ^ j * 2 ^ (i + 1)
        BY <4>1, PowerOfSum
      <4> QED
        BY <4>1, <4>2, PowerIs
    <3>2. p \in 0 .. d - 1
      BY <2>4 DEF Values
    <3> HIDE DEF e, d
    <3>3. p * e + e <= d * e
      BY <2>4, <3>1, <3>2, ProductGrows
    <3>4. p * e \in Nat /\ d * e \in Nat
      BY <2>4, <3>1
    <3> DEFINE pe == p * e
               de == d * e
    <3>5. pe \in 0 .. de - 1
      <4>1. pe \in Nat /\ de \in Nat /\ pe + e <= de
        BY <3>3, <3>4
      <4> HIDE DEF pe, de
      <4> QED
        BY <3>1, <4>1
    <3> QED
      BY <3>1, <3>5 DEF Values, e
  <2>11. /\ set_bit(Vector(n, p * 2 ^ (i + 1)), i, 1) = Vector(n, (2 * p + 1) * 2 ^ i)
         /\ p * 2 ^ (i + 1) = (2 * p) * 2 ^ i
    BY <2>1, <2>4, <2>10, NextBitOfQuotient
  <2> HIDE DEF t
  <2>12. (Less(W, Vector(n, t)) \/ W = Vector(n, t)) <=> y <= t
    <3>1. Less(W, Vector(n, t)) <=> y < t
      BY <2>8, LessIs
    <3>2. W = Vector(n, t) <=> y = t
      BY <2>8, VectorsEqual
    <3> HIDE DEF W
    <3> QED
      BY <1>2, <2>8, <3>1, <3>2
  <2> DEFINE last == g[j]
  <2>13. /\ next(last, i) = IF y <= t
                            THEN [quot |-> set_bit(last.quot, i, 1), rem |-> lv_add(Vector(n, t), lv_neg(W))]
                            ELSE [quot |-> last.quot, rem |-> Vector(n, t)]
         /\ last.quot = Vector(n, p * 2 ^ (i + 1))
    <3>1. last.quot = Vector(n, p * 2 ^ (i + 1)) /\ last.rem = Vector(n, u)
      BY <2>5
    <3>2. set_bit(sll_bv(last.rem, 1), 0, get_bit(V, i)) = Vector(n, t)
      BY <2>7, <2>9, <3>1
    <3> HIDE DEF last, V, W
    <3> QED
      BY <2>12, <3>1, <3>2
  <2>14. CASE y <= t
    <3>1. lv_sub(Vector(n, t), W) = Vector(n, bv_sub(n, t, y))
      BY <2>8, SumsOnLimbs
    <3>2. bv_sub(n, t, y) = t - y
      BY <1>1, <2>8, <2>14, Differences
    <3>3. lv_sub(Vector(n, t), W) = lv_add(Vector(n, t), lv_neg(W))
      BY DEF lv_sub
    <3>4. q(k) = 2 * p + 1 /\ r(k) = t - y
      BY <2>4, <2>14
    <3> HIDE DEF W, next, last
    <3>5. next(last, i) = [quot |-> set_bit(last.quot, i, 1), rem |-> lv_add(Vector(n, t), lv_neg(W))]
      BY <2>13, <2>14
    <3>6. next(last, i) = g[k]
      BY <2>6, <2>11, <2>13, <3>1, <3>2, <3>3, <3>4, <3>5
    <3> QED
      BY <3>6 DEF last, j, i
  <2>15. CASE ~(y <= t)
    <3>1. q(k) = 2 * p /\ r(k) = t
      BY <2>4, <2>15
    <3> HIDE DEF W, next, last
    <3>2. next(last, i) = [quot |-> last.quot, rem |-> Vector(n, t)]
      BY <2>13, <2>15
    <3>3. next(last, i) = g[k]
      BY <2>6, <2>11, <2>13, <3>1, <3>2
    <3> QED
      BY <3>3 DEF last, j, i
  <2> QED
    BY <2>14, <2>15
<1>5. g[0] = new
  <2>1. n - 0 = n /\ 0 \in 0 .. n
    BY <1>1
  <2>2. x \div 2 ^ n = 0
    BY <1>1, HighPartFits
  <2>3. high(0) = 0
    BY <2>1, <2>2
  <2>4. q(0) = 0 /\ r(0) = 0
    <3>1. y # 0 => 0 \div y = 0 /\ 0 % y = 0
      BY <1>2
    <3>2. 2 ^ 0 - 1 = 0
      BY PowersAssumption
    <3> HIDE DEF high
    <3> QED
      BY <2>3, <3>1, <3>2 DEF bv_udiv, bv_urem
  <2>5. q(0) * 2 ^ (n - 0) = 0
    <3> DEFINE d == 2 ^ n
    <3>1. d \in Nat
      BY <1>1, PowerIs
    <3> HIDE DEF d
    <3>2. 0 * d = 0
      BY <3>1
    <3> HIDE DEF q
    <3> QED
      BY <2>1, <2>4, <3>2 DEF d
  <2>6. g[0] = [quot |-> Vector(n, q(0) * 2 ^ (n - 0)), rem |-> Vector(n, r(0))]
    BY <2>1
  <2> HIDE DEF g, q, r
  <2> QED
    BY <1>3, <2>4, <2>5, <2>6
<1>6. g = F(g)
  <2>1. g = [k \in 0 .. n |-> g[k]]
    OBVIOUS
  <2>2. \A k \in 0 .. n : k # 0 => k \in 1 .. n
    BY <1>1
  <2> HIDE DEF g, next, new
  <2> QED
    BY <1>4, <1>5, <2>1, <2>2, ZenonT(30)
<1> DEFINE f == CHOOSE f : f = F(f)
<1>7. f = F(f)
  <2>1. \E e : e = F(e)
    BY <1>6
  <2> QED
    BY <2>1, Zenon
<1>8. LongDivision(V, W) = f[n]
  <2> HIDE DEF V, W
  <2> QED
    BY <1>3 DEF LongDivision
<1> HIDE DEF f
<1>9. f[0] = new /\ \A k \in 1 .. n : f[k] = next(f[k - 1], n - k)
  <2> HIDE DEF next, new
  <2> QED
    BY <1>1, <1>7
<1>10. g[n] = [quot |-> Vector(n, bv_udiv(n, x, y)), rem |-> Vector(n, bv_urem(n, x, y))]
  <2>1. n - n = 0 /\ 2 ^ 0 = 1 /\ n \in 0 .. n
    BY <1>1, PowersAssumption
  <2>2. x \div 1 = x
    BY <1>2
  <2>3. high(n) = x
    BY <2>1, <2>2
  <2>4. q(n) = bv_udiv(n, x, y) /\ r(n) = bv_urem(n, x, y)
    <3> HIDE DEF high
    <3> QED
      BY <2>3
  <2>5. q(n) * 1 = q(n)
    <3>1. bv_udiv(n, x, y) \in Values(n)
      BY <1>1, DivisionFits
    <3>2. q(n) \in Nat
      BY <1>1, <2>4, <3>1, ValuesOf
    <3> HIDE DEF q
    <3> QED
      BY <3>2
  <2>6. g[n] = [quot |-> Vector(n, q(n) * 2 ^ (n - n)), rem |-> Vector(n, r(n))]
    BY <2>1
  <2> HIDE DEF g, q, r
  <2> QED
    BY <2>1, <2>4, <2>5, <2>6
<1>11. f[n] = g[n]
  <2> HIDE DEF g, next, new, F
  <2>1. \A k \in 1 .. n : f[k - 1] = g[k - 1] => f[k] = g[k]
    BY <1>4, <1>9
  <2>2. n \in Nat /\ n \in 0 .. n /\ f[0] = g[0]
    BY <1>1, <1>5, <1>9
  <2> QED
    BY <2>1, <2>2, LoopComputes
<1> QED
  BY <1>8, <1>10, <1>11

LEMMA DivisionOnLimbs ==
    ASSUME NEW n, Handled(n), NEW x \in Values(n), NEW y \in Values(n)
    PROVE  /\ udiv_urem_bv(Vector(n, x), Vector(n, y)).quot = Vector(n, bv_udiv(n, x, y))
           /\ udiv_urem_bv(Vector(n, x), Vector(n, y)).rem = Vector(n, bv_urem(n, x, y))
<1> DEFINE V == Vector(n, x)
           W == Vector(n, y)
           res == udiv_urem_bv(V, W)
<1>1. /\ n \in 1 .. MaxBitWidth /\ n \in 0 .. MaxBitWidth /\ n \in Nat /\ MaxBitWidth \in Nat
      /\ DoubleBits \in Nat /\ DoubleBits <= MaxBitWidth
  <2>1. LimbBits \in Nat /\ n \in 1 .. MaxBitWidth /\ n \in 0 .. MaxBitWidth /\ n \in Nat /\ MaxBitWidth \in Nat
    BY LimbWidth
  <2>2. DoubleBits \in Nat
    BY <2>1 DEF DoubleBits
  <2> QED
    BY <2>1, <2>2 DEF Handled
<1>2. V.width = n /\ Number(V) = x /\ Number(W) = y
  BY NumberOf, VectorParts
<1>3. x \in Nat /\ y \in Nat /\ bv_udiv(n, x, y) \in Values(n) /\ bv_urem(n, x, y) \in Values(n)
  BY <1>1, ValuesOf, DivisionFits
<1>4. CASE n > DoubleBits
  <2>1. res = LongDivision(V, W)
    <3> HIDE DEF V, W
    <3> QED
      BY <1>1, <1>2, <1>4 DEF udiv_urem_bv
  <2> QED
    BY <1>4, <2>1, LongDivisionOnLimbs
<1>5. CASE n <= DoubleBits
  <2>1. \A z \in Values(n) : uint64_to_bv(z, n) = Vector(n, z)
    <3>1. ASSUME NEW z \in Values(n) PROVE uint64_to_bv(z, n) = Vector(n, z)
      <4>1. z \in Int
        BY <1>1, ValuesOf
      <4>2. uint64_to_bv(z, n) = Vector(n, Fit(n, z))
        BY <1>5, <4>1, FromUint64Fit
      <4>3. Fit(n, z) = z
        BY <1>1, RestOfValue DEF Fit
      <4> QED
        BY <4>2, <4>3
    <3> QED
      BY <3>1
  <2>2. CASE y = 0
    <3> DEFINE D == 2 ^ DoubleBits
               d == 2 ^ n
               k == DoubleBits - n
               e == 2 ^ k
    <3>1. k \in Nat /\ n + k = DoubleBits /\ n + k <= MaxBitWidth /\ k \in 0 .. MaxBitWidth
          /\ DoubleBits \in 0 .. MaxBitWidth
      BY <1>1, <1>5
    <3>2. d \in Nat \ {0} /\ e \in Nat \ {0} /\ D \in Nat \ {0} /\ D = d * e
      <4> HIDE DEF k
      <4>1. 2 ^ (n + k) = 2 ^ n * 2 ^ k
        BY <1>1, <3>1, PowerOfSum
      <4> QED
        BY <1>1, <3>1, <4>1, PowerIs
    <3>3. Fit(n, D - 1) = d - 1
      <4> DEFINE q == e - 1
                 t == d - 1
                 z == D - 1
      <4> HIDE DEF d, e, D
      <4>1. z = q * d + t /\ q \in Int /\ t \in 0 .. d - 1 /\ z \in Int
        BY <3>2
      <4> HIDE DEF z, q, t
      <4>2. z % d = t
        BY <3>2, <4>1, QuotientAndRest
      <4> QED
        BY <4>2 DEF Fit, z, t, d
    <3>4. res = [quot |-> uint64_to_bv(D - 1, n), rem |-> uint64_to_bv(x, n)]
      <4> HIDE DEF V, W
      <4> QED
        BY <1>1, <1>2, <1>5, <2>2 DEF udiv_urem_bv
    <3>5. uint64_to_bv(D - 1, n) = Vector(n, d - 1)
      <4>1. D - 1 \in Int
        BY <3>2
      <4> HIDE DEF d, D
      <4>2. uint64_to_bv(D - 1, n) = Vector(n, Fit(n, D - 1))
        BY <1>5, <4>1, FromUint64Fit
      <4> QED
        BY <3>3, <4>2
    <3>6. bv_udiv(n, x, y) = d - 1 /\ bv_urem(n, x, y) = x
      BY <2>2 DEF bv_udiv, bv_urem
    <3> HIDE DEF D, d, res
    <3> QED
      BY <2>1, <3>4, <3>5, <3>6 DEF res
  <2>3. CASE y # 0
    <3>1. res = [quot |-> uint64_to_bv(x \div y, n), rem |-> uint64_to_bv(x % y, n)]
      <4> HIDE DEF V, W
      <4> QED
        BY <1>1, <1>2, <1>5, <2>3 DEF udiv_urem_bv
    <3>2. bv_udiv(n, x, y) = x \div y /\ bv_urem(n, x, y) = x % y
      BY <2>3 DEF bv_udiv, bv_urem
    <3>3. uint64_to_bv(x \div y, n) = Vector(n, bv_udiv(n, x, y))
          /\ uint64_to_bv(x % y, n) = Vector(n, bv_urem(n, x, y))
      <4> DEFINE p == x \div y
                 r == x % y
      <4>1. p \in Values(n) /\ r \in Values(n) /\ bv_udiv(n, x, y) = p /\ bv_urem(n, x, y) = r
        BY <1>3, <3>2
      <4> HIDE DEF p, r
      <4> QED
        BY <2>1, <4>1 DEF p, r
    <3>4. res.quot = uint64_to_bv(x \div y, n) /\ res.rem = uint64_to_bv(x % y, n)
      <4> HIDE DEF res
      <4> QED
        BY <3>1
    <3> QED
      BY <3>3, <3>4
  <2> QED
    BY <2>2, <2>3
<1> QED
  BY <1>1, <1>4, <1>5

----------------------------------------------------------------------------
(* Parts and extensions.                                                   *)

\* Limbs of zeros come before those of the number.
LEMMA ZeroExtensionOnLimbs ==
    ASSUME NEW n, Handled(n), NEW x \in Values(n), NEW len \in Nat, Handled(n + len)
    PROVE  lv_uext(Vector(n, x), len) = Vector(n + len, x) /\ x \in Values(n + len)
<1> DEFINE V == Vector(n, x)
           m == n + len
           N == LimbsFor(n)
           M == LimbsFor(m)
           X == Limbs(n, x)
           more == M - N
           f == [j \in 1 .. M |-> IF j <= more THEN 0 ELSE X[j - more]]
<1>1. /\ n \in Nat \ {0} /\ n \in 0 .. MaxBitWidth /\ n \in 1 .. MaxBitWidth /\ LimbBits \in Nat \ {0}
      /\ Base \in Nat \ {0} /\ MaxBitWidth \in Nat /\ m \in Nat /\ m \in 0 .. MaxBitWidth
      /\ m \in 1 .. MaxBitWidth
  <2>1. m \in 1 .. MaxBitWidth /\ m \in 0 .. MaxBitWidth
    <3> HIDE DEF m
    <3> QED
      BY LimbWidth DEF m
  <2> QED
    BY <2>1, LimbWidth
<1>2. V.width = n /\ V.bits = X /\ NumLimbs(V) = N
  BY VectorParts
<1>3. N \in Nat \ {0} /\ M \in Nat \ {0} /\ n <= Pos(n, 1) + LimbBits
  <2>1. N \in Nat \ {0} /\ n <= Pos(n, 1) + LimbBits
    BY Positions
  <2>2. M \in Nat \ {0}
    BY Positions
  <2> QED
    BY <2>1, <2>2
<1>4. x \in Nat /\ x \in Values(m)
  <2>1. x \in Nat
    BY <1>1, ValuesOf
  <2> DEFINE d == 2 ^ n
             e == 2 ^ len
             D == 2 ^ m
  <2>2. len \in 0 .. MaxBitWidth /\ n + len <= MaxBitWidth
    BY <1>1
  <2>3. d \in Nat \ {0} /\ e \in Nat \ {0} /\ D = d * e
    BY <1>1, <2>2, PowerIs, PowerOfSum
  <2>4. x \in 0 .. d - 1
    BY DEF Values
  <2> HIDE DEF d, e, D
  <2>5. d <= d * e
    BY <2>3
  <2>6. x \in 0 .. D - 1
    BY <2>1, <2>3, <2>4, <2>5
  <2> QED
    BY <2>1, <2>6 DEF Values, D
<1>5. lv_uext(V, len) = [width |-> m, bits |-> <<>> \o f]
  <2> HIDE DEF V, X, N
  <2> QED
    BY <1>2 DEF lv_uext, Build
<1>6. ASSUME NEW j \in 1 .. M PROVE f[j] = (x \div 2 ^ Pos(m, j)) % Base
  <2> DEFINE p == Pos(m, j)
  <2>1. p = LimbBits * (M - j) /\ p \in Nat /\ p < m /\ p <= MaxBitWidth
    <3>1. p = LimbBits * (M - j)
      BY DEF Pos
    <3>2. p \in Nat /\ p < m
      <4> HIDE DEF m
      <4> QED
        BY Positions DEF m
    <3> HIDE DEF p, m
    <3> QED
      BY <1>1, <3>1, <3>2
  <2>2. CASE j <= more
    <3>1. n <= p
      <4>1. Pos(n, 1) + LimbBits = LimbBits * N
        <5>1. Pos(n, 1) = LimbBits * (N - 1)
          BY DEF Pos
        <5>2. LimbBits * (N - 1) = LimbBits * N - LimbBits /\ LimbBits * N \in Int
          BY <1>1, <1>3
        <5> HIDE DEF N
        <5> QED
          BY <1>1, <5>1, <5>2
      <4>2. LimbBits * N <= LimbBits * (M - j)
        <5> DEFINE c == M - j
        <5>1. c \in Int /\ N <= c /\ N \in Int
          BY <1>3, <2>2
        <5> HIDE DEF c, N
        <5>2. N < c => N * LimbBits + LimbBits <= c * LimbBits
          BY <1>1, <5>1, ProductGrows
        <5>3. N * LimbBits = LimbBits * N /\ c * LimbBits = LimbBits * c /\ LimbBits * N \in Int
              /\ LimbBits * c \in Int
          BY <1>1, <5>1
        <5> DEFINE lN == LimbBits * N
                   lc == LimbBits * c
        <5>4. lN \in Int /\ lc \in Int /\ (N < c => lN + LimbBits <= lc) /\ (N = c => lN = lc)
          BY <5>2, <5>3
        <5> HIDE DEF lN, lc
        <5>5. lN <= lc
          BY <1>1, <5>1, <5>4
        <5> QED
          BY <5>5 DEF lN, lc, c
      <4> DEFINE lN == LimbBits * N
                 lc == LimbBits * (M - j)
      <4>3. n <= lN /\ lN <= lc /\ lN \in Int /\ lc = p
        BY <1>1, <1>3, <2>1, <4>1, <4>2
      <4> HIDE DEF lN, lc, p
      <4> QED
        BY <1>1, <2>1, <4>3
    <3>2. x \div 2 ^ p = 0
      <4> HIDE DEF p
      <4> QED
        BY <1>1, <2>1, <3>1, HighPartFits
    <3>3. 0 % Base = 0 /\ f[j] = 0
      BY <1>1, <2>2
    <3> HIDE DEF f
    <3> QED
      BY <3>2, <3>3
  <2>3. CASE ~(j <= more)
    <3>1. j - more \in 1 .. N /\ M - j = N - (j - more)
      <4> HIDE DEF M, N
      <4> QED
        BY <1>3, <2>3
    <3>2. f[j] = X[j - more]
      BY <2>3
    <3>3. X[j - more] = (x \div 2 ^ Pos(n, j - more)) % Base
      BY <3>1 DEF Limbs
    <3>4. Pos(n, j - more) = p
      <4>1. Pos(n, j - more) = LimbBits * (N - (j - more))
        BY DEF Pos
      <4> QED
        BY <2>1, <3>1, <4>1
    <3> HIDE DEF f, X
    <3> QED
      BY <3>2, <3>3, <3>4
  <2> QED
    BY <2>2, <2>3
<1>7. f = Limbs(m, x)
  <2>1. f = [j \in 1 .. M |-> f[j]]
    OBVIOUS
  <2> HIDE DEF f
  <2> QED
    BY <1>6, <2>1 DEF Limbs
<1>8. Vector(m, x) = [width |-> m, bits |-> <<>> \o Limbs(m, x)]
  BY DEF Vector, Build, Limbs, Pos
<1> QED
  BY <1>4, <1>5, <1>7, <1>8

\* Bits are copied one by one.
LEMMA SliceOnLimbs ==
    ASSUME NEW n, Handled(n), NEW x \in Values(n), NEW lower \in Nat, NEW upper \in Nat,
           lower <= upper, upper < n
    PROVE  /\ lv_slice(Vector(n, x), upper, lower) =
                Vector(upper - lower + 1, bv_slice(x, upper, lower))
           /\ Handled(upper - lower + 1)
           /\ bv_slice(x, upper, lower) \in Values(upper - lower + 1)
<1> DEFINE V == Vector(n, x)
           m == upper - lower + 1
           z == x \div 2 ^ lower
           F(f) == [j \in 0 .. m |-> IF j = 0 THEN lv_new(m)
                                     ELSE set_bit(f[j - 1], j - 1, get_bit(V, lower + j - 1))]
           g == [j \in 0 .. m |-> Vector(m, z % 2 ^ j)]
<1>1. /\ n \in Nat \ {0} /\ n \in 0 .. MaxBitWidth /\ n \in 1 .. MaxBitWidth /\ MaxBitWidth \in Nat
      /\ n + 1 <= MaxBitWidth
  <2>1. n \in Nat \ {0} /\ n \in 0 .. MaxBitWidth /\ MaxBitWidth \in Nat
        /\ LimbBits \in Nat \ {0} /\ n + LimbBits <= MaxBitWidth /\ n \in 1 .. MaxBitWidth
    BY LimbWidth
  <2> QED
    BY <2>1
<1>2. m \in Nat \ {0} /\ lower + m <= n /\ m <= n /\ m \in 0 .. MaxBitWidth /\ lower \in 0 .. MaxBitWidth
  BY <1>1
<1>3. Handled(m)
  <2>1. DoubleBits \in Nat /\ n + DoubleBits <= MaxBitWidth
    BY LimbBitsAssumption DEF DoubleBits, Handled
  <2> HIDE DEF m
  <2> QED
    BY <1>1, <1>2, <2>1 DEF Handled
<1>4. x \in Nat /\ x \in Int /\ z \in Nat
  <2>1. x \in Nat
    BY <1>1, ValuesOf
  <2> DEFINE d == 2 ^ lower
  <2>2. d \in Nat \ {0}
    BY <1>2, PowerIs
  <2> HIDE DEF d
  <2>3. x \div d \in 0 .. x
    BY <2>1, <2>2, DivMod
  <2>4. x \div d \in Nat
    BY <2>1, <2>3
  <2> QED
    BY <2>1, <2>4 DEF d
<1> HIDE DEF m
<1>5. ASSUME NEW j \in 1 .. m
      PROVE  g[j] = set_bit(g[j - 1], j - 1, get_bit(V, lower + j - 1))
  <2> DEFINE i == j - 1
             y == z % 2 ^ i
             c == Bit(z, i)
  <2>1. /\ i \in Nat /\ i + 1 = j /\ i + 1 <= MaxBitWidth /\ i \in 0 .. m - 1 /\ i \in 0 .. m
        /\ lower + j - 1 = i + lower /\ i + lower <= MaxBitWidth /\ i + lower \in 0 .. n - 1
        /\ i \in 0 .. MaxBitWidth /\ i \in i .. MaxBitWidth /\ i <= m
    BY <1>1, <1>2
  <2> HIDE DEF i
  <2>2. get_bit(V, lower + j - 1) = c
    <3>1. get_bit(V, i + lower) = Bit(x, i + lower)
      BY <2>1, GetBit
    <3>2. Bit(z, i) = Bit(x, i + lower)
      BY <1>4, <2>1, BitOfQuotient
    <3> QED
      BY <2>1, <3>1, <3>2
  <2> HIDE DEF z
  <2>3. z % 2 ^ j = y + c * 2 ^ i /\ c \in {0, 1}
    BY <1>4, <2>1, OneMoreBit
  <2>4. y \in Values(i) /\ y \in Nat
    <3>1. z \in Int
      BY <1>4
    <3> QED
      BY <2>1, <3>1, RestFits
  <2>5. y \in Values(m)
    <3> DEFINE k == m - i
               d == 2 ^ i
               e == 2 ^ k
    <3>1. k \in Nat /\ i + k = m /\ i + k <= MaxBitWidth /\ k \in 0 .. MaxBitWidth
      BY <1>1, <1>2, <2>1
    <3>2. 2 ^ m = d * e /\ d \in Nat \ {0} /\ e \in Nat \ {0}
      <4> HIDE DEF k
      <4>1. 2 ^ (i + k) = 2 ^ i * 2 ^ k
        BY <2>1, <3>1, PowerOfSum
      <4> QED
        BY <2>1, <3>1, <4>1, PowerIs
    <3>3. y \in 0 .. d - 1
      BY <2>4 DEF Values
    <3> HIDE DEF d, e, y
    <3>4. d <= d * e
      BY <3>2
    <3>5. y \in 0 .. d * e - 1
      BY <3>2, <3>3, <3>4
    <3> QED
      BY <3>2, <3>5 DEF Values
  <2>6. Bit(y, i) = 0
    <3> HIDE DEF y
    <3> QED
      BY <2>1, <2>4, BitAbove
  <2> HIDE DEF y, c
  <2>7. set_bit(Vector(m, y), i, c) = Vector(m, SetTo(y, i, c))
    BY <1>3, <2>1, <2>3, <2>5, SetBit
  <2>8. SetTo(y, i, c) = y + c * 2 ^ i
    <3>1. c - 0 = c
      BY <2>3
    <3> QED
      BY <2>6, <3>1 DEF SetTo
  <2>9. g[i] = Vector(m, y) /\ g[j] = Vector(m, z % 2 ^ j)
    BY <2>1 DEF y
  <2> HIDE DEF g, V
  <2> QED
    BY <2>2, <2>3, <2>7, <2>8, <2>9 DEF i
<1>6. g[0] = lv_new(m)
  <2>1. z % 2 ^ 0 = 0
    <3>1. z % 1 = 0
      BY <1>4
    <3> QED
      BY <3>1, PowersAssumption
  <2>2. g[0] = Vector(m, z % 2 ^ 0)
    BY <1>2
  <2> HIDE DEF g, z
  <2> QED
    BY <1>3, <2>1, <2>2, NewIsZero
<1>7. g = F(g)
  <2>1. g = [j \in 0 .. m |-> g[j]]
    OBVIOUS
  <2>2. \A j \in 0 .. m : j # 0 => j \in 1 .. m
    BY <1>2
  <2> HIDE DEF g, V
  <2> QED
    BY <1>5, <1>6, <2>1, <2>2
<1> DEFINE f == CHOOSE f : f = F(f)
<1>8. f = F(f)
  <2>1. \E e : e = F(e)
    BY <1>7
  <2> QED
    BY <2>1
<1>9. lv_slice(V, upper, lower) = f[m]
  <2> HIDE DEF V
  <2> QED
    BY DEF lv_slice, m
<1> HIDE DEF f
<1>10. f[0] = lv_new(m) /\ \A j \in 1 .. m : f[j] = set_bit(f[j - 1], j - 1, get_bit(V, lower + j - 1))
  <2> HIDE DEF V
  <2> QED
    BY <1>2, <1>8
<1>11. g[m] = Vector(m, bv_slice(x, upper, lower))
  BY <1>2 DEF bv_slice, Fit, m
<1>12. f[m] = g[m]
  <2> HIDE DEF g, F, V
  <2>1. \A k \in 1 .. m : f[k - 1] = g[k - 1] => f[k] = g[k]
    BY <1>5, <1>10
  <2>2. m \in Nat /\ m \in 0 .. m /\ f[0] = g[0]
    BY <1>2, <1>6, <1>10
  <2> QED
    BY <2>1, <2>2, LoopComputes
<1>13. bv_slice(x, upper, lower) \in Values(m)
  <2>1. z \in Int
    BY <1>4
  <2>2. z % 2 ^ m \in Values(m)
    <3> HIDE DEF z
    <3> QED
      BY <1>2, <2>1, RestFits
  <2> QED
    BY <2>2 DEF bv_slice, Fit, m
<1> QED
  BY <1>3, <1>9, <1>11, <1>12, <1>13 DEF m

----------------------------------------------------------------------------
(* Overflow, and conversions from integers.                                *)

LEMMA NoLimbSet ==
    ASSUME NEW n, Handled(n), NEW x \in Values(n)
    PROVE  is_zero(Vector(n, x)) <=> x = 0
<1>1. Vector(n, x).bits = Limbs(n, x) /\ DOMAIN Limbs(n, x) = 1 .. LimbsFor(n)
  BY VectorParts
<1>2. 0 \in Values(n) /\ \A i \in 1 .. LimbsFor(n) : Limbs(n, 0)[i] = 0
  BY NewIsZero
<1>3. is_zero(Vector(n, x)) <=> \A i \in 1 .. LimbsFor(n) : Limbs(n, x)[i] = 0
  BY <1>1 DEF is_zero
<1>4. ASSUME \A i \in 1 .. LimbsFor(n) : Limbs(n, x)[i] = 0 PROVE x = 0
  <2>1. /\ Limbs(n, x) = [i \in 1 .. LimbsFor(n) |-> Limbs(n, x)[i]]
        /\ Limbs(n, 0) = [i \in 1 .. LimbsFor(n) |-> Limbs(n, 0)[i]]
    BY DEF Limbs
  <2>2. Limbs(n, x) = Limbs(n, 0)
    BY <1>2, <1>4, <2>1
  <2> QED
    BY <1>2, <2>2, NumbersDetermined
<1> QED
  BY <1>2, <1>3, <1>4

\* The product in twice the width has no bit set in its upper half.
LEMMA OverflowOnLimbs ==
    ASSUME NEW n, Handled(n), Handled(n + n), NEW x \in Values(n), NEW y \in Values(n)
    PROVE  is_umulo(Vector(n, x), Vector(n, y)) = (n > 1 /\ x * y >= 2 ^ n)
<1> DEFINE V == Vector(n, x)
           W == Vector(n, y)
           m == n + n
           d == 2 ^ n
           p == x * y
           U == Vector(m, p)
<1>1. /\ n \in Nat \ {0} /\ n \in 0 .. MaxBitWidth /\ n \in 1 .. MaxBitWidth /\ MaxBitWidth \in Nat
      /\ m \in 0 .. MaxBitWidth /\ m \in Nat /\ n + n <= MaxBitWidth
  <2>1. m \in 0 .. MaxBitWidth
    <3> HIDE DEF m
    <3> QED
      BY LimbWidth DEF m
  <2> QED
    BY <2>1, LimbWidth
<1>2. d \in Nat \ {0} /\ 2 ^ m = d * d
  BY <1>1, PowerIs, PowerOfSum
<1>3. x \in 0 .. d - 1 /\ y \in 0 .. d - 1
  BY DEF Values
<1>4. lv_uext(V, n) = Vector(m, x) /\ lv_uext(W, n) = Vector(m, y) /\ x \in Values(m) /\ y \in Values(m)
  BY <1>1, ZeroExtensionOnLimbs
<1>5. p \in Values(m) /\ p \in Nat /\ p < d * d
  <2> HIDE DEF d
  <2>1. p \in Nat
    BY <1>2, <1>3
  <2>2. p < d * d
    <3>1. x * y <= x * d
      BY <1>2, <1>3
    <3>2. x * d + d <= d * d
      BY <1>2, <1>3, ProductGrows
    <3>3. x * d \in Int /\ d * d \in Int
      BY <1>2, <1>3
    <3> DEFINE xd == x * d
               dd == d * d
    <3>4. p <= xd /\ xd + d <= dd /\ xd \in Int /\ dd \in Int
      BY <3>1, <3>2, <3>3
    <3> HIDE DEF xd, dd, p
    <3>5. p < dd
      BY <1>2, <2>1, <3>4
    <3> QED
      BY <3>5 DEF dd
  <2> DEFINE D == 2 ^ m
  <2>3. D = d * d /\ D \in Nat
    BY <1>2
  <2> HIDE DEF D, p
  <2>4. p \in 0 .. D - 1
    BY <2>1, <2>2, <2>3
  <2> QED
    BY <2>1, <2>2, <2>4 DEF Values, D
<1>6. lv_mul(Vector(m, x), Vector(m, y)) = U
  <2>1. lv_mul(Vector(m, x), Vector(m, y)) = Vector(m, bv_mul(m, x, y))
    <3> HIDE DEF m
    <3> QED
      BY <1>4, MulOnLimbs DEF m
  <2>2. bv_mul(m, x, y) = p
    <3> HIDE DEF m, p
    <3>1. p % 2 ^ m = p
      BY <1>1, <1>5, RestOfValue
    <3> QED
      BY <3>1 DEF bv_mul, Fit, p
  <2> QED
    BY <2>1, <2>2
<1>7. V.width = n /\ W.width = n /\ U.width = m
  <2>1. V.width = n /\ W.width = n
    BY VectorParts
  <2>2. U.width = m
    <3> HIDE DEF m, p
    <3> QED
      BY <1>5, VectorParts DEF m
  <2> QED
    BY <2>1, <2>2
<1>8. is_umulo(V, W) = (n > 1 /\ ~is_zero(lv_slice(U, m - 1, n)))
  <2> HIDE DEF V, W, U, m
  <2> QED
    BY <1>4, <1>6, <1>7 DEF is_umulo
<1> DEFINE h == p \div d
<1>9. h \in 0 .. d - 1
  <2>1. p = h * d + (p % d) /\ p % d \in 0 .. d - 1 /\ h \in Int
    <3>1. p \in Int
      BY <1>5
    <3> HIDE DEF p, d
    <3> QED
      BY <1>2, <3>1, Division
  <2>2. h \in Nat
    <3> HIDE DEF p, d
    <3> QED
      <4>1. p \div d \in 0 .. p /\ p \in Nat
        BY <1>2, <1>5, DivMod
      <4> QED
        BY <4>1
  <2> HIDE DEF p, d, h
  <2>3. h < d
    <3>1. ASSUME ~(h < d) PROVE FALSE
      <4> DEFINE hd == h * d
                 dd == d * d
      <4>1. hd >= dd
        <5>1. d < h => d * d + d <= h * d
          BY <1>2, <2>1, ProductGrows
        <5>2. hd \in Int /\ dd \in Int /\ (d < h => dd + d <= hd) /\ (d = h => dd = hd)
          BY <1>2, <2>1, <5>1
        <5> HIDE DEF hd, dd
        <5> QED
          BY <1>2, <2>1, <3>1, <5>2
      <4>2. p = hd + (p % d) /\ p < dd /\ hd \in Int /\ dd \in Int /\ p % d \in Nat
        BY <1>2, <1>5, <2>1
      <4> HIDE DEF hd, dd
      <4> QED
        BY <1>5, <4>1, <4>2
    <3> QED
      BY <3>1
  <2> QED
    BY <1>2, <2>2, <2>3
<1>10. lv_slice(U, m - 1, n) = Vector(n, h)
  <2>1. n \in Nat /\ m - 1 \in Nat /\ n <= m - 1 /\ m - 1 < m /\ m - 1 - n + 1 = n
    BY <1>1
  <2>2. lv_slice(U, m - 1, n) = Vector(m - 1 - n + 1, bv_slice(p, m - 1, n))
    <3> DEFINE u == m - 1
    <3>1. u \in Nat /\ n <= u /\ u < m /\ n \in Nat /\ Handled(m) /\ p \in Values(m)
      BY <1>5, <2>1
    <3> HIDE DEF u, m, p
    <3>2. lv_slice(Vector(m, p), u, n) = Vector(u - n + 1, bv_slice(p, u, n))
      BY <3>1, SliceOnLimbs
    <3> QED
      BY <3>2 DEF u
  <2>3. bv_slice(p, m - 1, n) = h
    <3>1. bv_slice(p, m - 1, n) = h % d
      BY <2>1 DEF bv_slice, Fit
    <3>2. h % d = h
      <4> HIDE DEF h, d
      <4> QED
        BY <1>2, <1>9, RestNearby
    <3> QED
      BY <3>1, <3>2
  <2> HIDE DEF m, U, h
  <2> QED
    BY <2>1, <2>2, <2>3
<1>11. is_zero(Vector(n, h)) <=> h = 0
  <2>1. h \in Values(n)
    BY <1>9 DEF Values
  <2> HIDE DEF h
  <2> QED
    BY <2>1, NoLimbSet
<1>12. h = 0 <=> p < d
  <2>1. p = h * d + (p % d) /\ p % d \in 0 .. d - 1 /\ p \in Int
    <3>1. p \in Int
      BY <1>5
    <3> HIDE DEF p, d
    <3> QED
      BY <1>2, <3>1, Division
  <2>2. ASSUME p < d PROVE h = 0
    <3> HIDE DEF p, d
    <3>1. p \in 0 .. d - 1 /\ p = 0 * d + p /\ 0 \in Int
      BY <1>2, <1>5, <2>2
    <3>2. p \div d = 0
      BY <1>2, <2>1, <3>1, QuotientAndRest
    <3> QED
      BY <3>2
  <2>3. ASSUME h = 0 PROVE p < d
    <3> HIDE DEF p, d, h
    <3>1. h * d = 0
      BY <1>2, <2>3
    <3> QED
      BY <1>2, <2>1, <3>1
  <2> QED
    BY <2>2, <2>3
<1> HIDE DEF U, V, W, m, h, p, d
<1>13. ~(p < d) <=> p >= d
  BY <1>2, <1>5
<1>14. is_umulo(V, W) = (n > 1 /\ p >= d)
  <2>1. ~is_zero(lv_slice(U, m - 1, n)) <=> p >= d
    BY <1>10, <1>11, <1>12, <1>13
  <2> QED
    BY <1>8, <2>1
<1> QED
  BY <1>14 DEF p, d, V, W

LEMMA FromUint64Wide ==
    ASSUME NEW n, Handled(n), NEW x \in Values(n)
    PROVE  uint64_to_bv(x, n) = Vector(n, x % 2 ^ DoubleBits)
<1> DEFINE y == x % 2 ^ DoubleBits
<1>1. /\ n \in 1 .. MaxBitWidth /\ n \in 0 .. MaxBitWidth /\ n \in Nat
      /\ DoubleBits \in 0 .. MaxBitWidth /\ MaxBitWidth \in Nat
  <2>1. LimbBits \in Nat /\ n \in 1 .. MaxBitWidth /\ n \in 0 .. MaxBitWidth /\ n \in Nat /\ MaxBitWidth \in Nat
    BY LimbWidth
  <2>2. DoubleBits \in Nat
    BY <2>1 DEF DoubleBits
  <2> QED
    BY <2>1, <2>2 DEF Handled
<1>2. x \in Nat /\ x \in Int
  BY <1>1, ValuesOf
<1>3. y \in Values(n)
  <2> DEFINE d == 2 ^ DoubleBits
             M == 2 ^ n
  <2>1. d \in Nat \ {0} /\ M \in Nat \ {0} /\ x \in 0 .. M - 1
    BY <1>1, PowerIs DEF Values
  <2> HIDE DEF d, M
  <2>2. x % d \in 0 .. x
    BY <1>2, <2>1, DivMod
  <2>3. x % d \in 0 .. M - 1
    BY <2>1, <2>2
  <2> QED
    BY <2>3 DEF Values, d, M
<1>4. uint64_to_bv(x, n) = Vector(n, y % 2 ^ n)
  BY <1>2, FromUint64
<1>5. y % 2 ^ n = y
  <2> HIDE DEF y
  <2> QED
    BY <1>1, <1>3, RestOfValue
<1> QED
  BY <1>4, <1>5

\* btorsim_bv_int64_to_bv of the signed number that the vector stands for.
LEMMA FromInt64 ==
    ASSUME NEW n, Handled(n), NEW x \in Values(n), NEW z \in Int,
           z = x \/ z = x - 2 ^ n,
           z \in -(2 ^ (DoubleBits - 1)) .. 2 ^ (DoubleBits - 1) - 1
    PROVE  int64_to_bv(z, n) = Vector(n, x)
<1> DEFINE N == LimbsFor(n)
           d == 2 ^ n
           I == IF z < 0 /\ n > DoubleBits THEN lv_ones(n) ELSE lv_new(n)
           o == IF z < 0 /\ n > DoubleBits THEN d - 1 ELSE 0
           f == [i \in 1 .. N |-> IF i < N - 1 THEN Limbs(n, o)[i] ELSE (z \div 2 ^ Pos(n, i)) % Base]
<1>1. /\ n \in 0 .. MaxBitWidth /\ n \in 1 .. MaxBitWidth /\ n \in Nat \ {0} /\ MaxBitWidth \in Nat
      /\ LimbBits \in Nat \ {0} /\ LimbBits \in 0 .. MaxBitWidth
      /\ Base \in Nat \ {0} /\ Base = 2 ^ LimbBits /\ DoubleBits \in 0 .. MaxBitWidth
      /\ DoubleBits = LimbBits + LimbBits
      /\ DoubleBits - 1 \in Nat /\ DoubleBits - 1 \in 0 .. MaxBitWidth
      /\ n + LimbBits <= MaxBitWidth /\ d \in Nat \ {0}
  <2>1. /\ n \in 0 .. MaxBitWidth /\ n \in 1 .. MaxBitWidth /\ n \in Nat \ {0} /\ MaxBitWidth \in Nat
        /\ LimbBits \in Nat \ {0} /\ LimbBits \in 0 .. MaxBitWidth /\ n + LimbBits <= MaxBitWidth
        /\ Base \in Nat \ {0} /\ Base = 2 ^ LimbBits /\ d \in Nat \ {0}
    BY LimbWidth, PowerIs
  <2>2. DoubleBits = LimbBits + LimbBits /\ n + DoubleBits <= MaxBitWidth
    BY <2>1 DEF DoubleBits, Handled
  <2> HIDE DEF d
  <2> QED
    BY <2>1, <2>2
<1>2. /\ N \in Nat \ {0} /\ \A i \in 2 .. N : Pos(n, i - 1) = Pos(n, i) + LimbBits
  BY Positions
<1>3. o \in Values(n) /\ I = Vector(n, o)
  <2>1. lv_ones(n) = Vector(n, d - 1) /\ d - 1 \in Values(n)
    BY ConstantsOnLimbs, OnesFit
  <2>2. lv_new(n) = Vector(n, 0) /\ 0 \in Values(n)
    BY NewIsZero
  <2> HIDE DEF d
  <2> QED
    BY <2>1, <2>2
<1> HIDE DEF o, I
<1>4. I.width = n /\ I.bits = Limbs(n, o) /\ NumLimbs(I) = N
  BY <1>3, VectorParts
<1>5. int64_to_bv(z, n) = set_rem_bits_to_zero([width |-> n, bits |-> <<>> \o f])
  <2>1. int64_to_bv(z, n) = WithLowLimbs(I, z)
    BY DEF int64_to_bv, I
  <2>2. WithLowLimbs(I, z) = set_rem_bits_to_zero([width |-> n, bits |-> <<>> \o f])
    BY <1>4 DEF WithLowLimbs, Build, Pos
  <2> QED
    BY <2>1, <2>2
<1>6. x \in Nat /\ x \in 0 .. d - 1
  BY <1>1, ValuesOf DEF Values
<1>7. \A j \in 0 .. n - 1 : Bit(z, j) = Bit(x, j)
  <2>1. ASSUME NEW j \in 0 .. n - 1 PROVE Bit(z, j) = Bit(x, j)
    <3>1. CASE z = x
      BY <3>1
    <3>2. CASE z = x - 2 ^ n
      <4>1. z = x + (-1) * d
        <5>1. z = x - d
          BY <3>2
        <5> HIDE DEF d
        <5> QED
          BY <1>1, <1>6, <5>1
      <4>2. x \in Int /\ -1 \in Int
        BY <1>6
      <4> DEFINE e == -1
      <4>3. e \in Int /\ z = x + e * 2 ^ n
        BY <4>1, <4>2
      <4> HIDE DEF e
      <4>4. Bit(x + e * 2 ^ n, j) = Bit(x, j)
        BY <1>1, <4>2, <4>3, BitBelow
      <4> QED
        BY <4>3, <4>4
    <3> QED
      BY <3>1, <3>2
  <2> QED
    BY <2>1
<1>8. ASSUME NEW i \in 1 .. N
      PROVE  /\ f[i] \in 0 .. Base - 1
             /\ \A j \in 0 .. LimbBits - 1 : Pos(n, i) + j < n => Bit(f[i], j) = Bit(x, Pos(n, i) + j)
  <2> DEFINE p == Pos(n, i)
  <2>1. p \in Nat /\ p < n /\ p \in 0 .. MaxBitWidth
    <3>1. p \in Nat /\ p < n
      BY Positions
    <3> HIDE DEF p
    <3> QED
      BY <1>1, <3>1
  <2>2. CASE ~(i < N - 1)
    <3> DEFINE q == z \div 2 ^ p
    <3>1. q \in Int
      <4> HIDE DEF p
      <4> QED
        BY <2>1, QuotientInPowers
    <3>2. f[i] = q % Base
      BY <2>2
    <3> HIDE DEF q, f
    <3>3. q % Base \in 0 .. Base - 1
      BY <1>1, <3>1, Division
    <3>4. ASSUME NEW j \in 0 .. LimbBits - 1, p + j < n
          PROVE  Bit(q % Base, j) = Bit(x, p + j)
      <4>1. j \in Nat /\ p + j = j + p /\ j + p <= MaxBitWidth /\ p + j \in 0 .. n - 1
        <5> HIDE DEF p
        <5> QED
          BY <1>1, <2>1, <3>4
      <4>2. Bit(q % Base, j) = Bit(q, j)
        BY <1>1, <3>1, BitOfRest
      <4>3. Bit(q, j) = Bit(z, j + p)
        BY <2>1, <4>1, BitOfQuotient DEF q
      <4>4. Bit(z, p + j) = Bit(x, p + j)
        <5> HIDE DEF p
        <5> QED
          BY <1>7, <4>1
      <4> QED
        BY <4>1, <4>2, <4>3, <4>4
    <3> QED
      BY <3>2, <3>3, <3>4
  <2>3. CASE i < N - 1
    <3>1. f[i] = Limbs(n, o)[i]
      BY <2>3
    <3> HIDE DEF f
    <3>2. Limbs(n, o)[i] \in 0 .. Base - 1
      BY <1>3, BitOfLimb
    <3>3. DoubleBits <= p /\ n > DoubleBits
      <4>1. i + 1 \in 2 .. N /\ i + 2 \in 2 .. N /\ i + 2 \in 1 .. N /\ (i + 1) - 1 = i /\ (i + 2) - 1 = i + 1
        BY <1>2, <2>3
      <4>2. Pos(n, i) = Pos(n, i + 1) + LimbBits /\ Pos(n, i + 1) = Pos(n, i + 2) + LimbBits
            /\ Pos(n, i + 2) \in Nat
        BY <1>2, <4>1, Positions
      <4> QED
        BY <1>1, <2>1, <4>2
    <3>4. ASSUME NEW j \in 0 .. LimbBits - 1, p + j < n
          PROVE  Bit(Limbs(n, o)[i], j) = Bit(x, p + j)
      <4>1. p + j \in 0 .. n - 1 /\ p + j \in 0 .. MaxBitWidth /\ p + j \in DoubleBits - 1 .. n - 1
            /\ p + j \in DoubleBits - 1 .. MaxBitWidth
        <5> HIDE DEF p
        <5> QED
          BY <1>1, <2>1, <3>3, <3>4
      <4>2. Bit(Limbs(n, o)[i], j) = Bit(o, p + j)
        BY <1>3, BitOfLimb
      <4> DEFINE u == p + j
                 e == 2 ^ (DoubleBits - 1)
      <4>3. e \in Nat \ {0}
        BY <1>1, PowerIs
      <4>4. z \in -e .. e - 1
        OBVIOUS
      <4>5. CASE z < 0
        <5>1. o = 2 ^ n - 1
          BY <3>3, <4>5 DEF o
        <5>2. Bit(2 ^ n - 1, u) = 1
          <6>1. u \in 0 .. MaxBitWidth /\ u < n
            BY <3>4, <4>1
          <6> HIDE DEF u
          <6> QED
            BY <1>1, <6>1, BitOfOnes
        <5>3. x >= d - e
          <6>1. z # x
            BY <1>6, <4>5
          <6>2. z = x - d
            BY <6>1
          <6> HIDE DEF d, e
          <6> QED
            BY <1>1, <1>6, <4>3, <4>4, <6>2
        <5>4. Bit(x, u) = 1
          <6> DEFINE m == DoubleBits - 1
          <6>1. m \in 0 .. n /\ u \in m .. n - 1 /\ x >= 2 ^ n - 2 ^ m
            BY <1>1, <3>3, <4>1, <5>3
          <6> HIDE DEF m, u
          <6> QED
            BY <1>1, <6>1, OnesAbove
        <5> HIDE DEF u
        <5> QED
          BY <4>2, <5>1, <5>2, <5>4 DEF u
      <4>6. CASE ~(z < 0)
        <5>1. o = 0
          BY <4>6 DEF o
        <5>2. z = x
          <6> HIDE DEF d
          <6>1. z = x \/ z = x - d
            BY DEF d
          <6> QED
            BY <1>1, <1>6, <4>6, <6>1
        <5>3. x \in Values(DoubleBits - 1)
          <6> HIDE DEF e
          <6>1. x \in 0 .. e - 1
            BY <1>6, <4>3, <4>4, <5>2
          <6> QED
            BY <6>1 DEF Values, e
        <5>4. Bit(x, u) = 0 /\ Bit(0, u) = 0
          <6> DEFINE m == DoubleBits - 1
          <6>1. m \in Nat /\ u \in m .. MaxBitWidth /\ u \in 0 .. MaxBitWidth /\ x \in Values(m)
            BY <1>1, <4>1, <5>3
          <6> HIDE DEF m, u
          <6> QED
            BY <6>1, BitAbove, BitOfZero
        <5> HIDE DEF u
        <5> QED
          BY <4>2, <5>1, <5>4 DEF u
      <4> QED
        BY <4>5, <4>6
    <3> QED
      BY <3>1, <3>2, <3>4
  <2> QED
    BY <2>2, <2>3
<1>9. f \in [1 .. N -> 0 .. Base - 1]
  <2>1. f = [i \in 1 .. N |-> f[i]]
    OBVIOUS
  <2> HIDE DEF f
  <2> QED
    BY <1>8, <2>1
<1> HIDE DEF f
<1>10. set_rem_bits_to_zero([width |-> n, bits |-> <<>> \o f]) = Vector(n, x)
  BY <1>8, <1>9, MaskedTuple
<1> QED
  BY <1>5, <1>10

----------------------------------------------------------------------------

\* neg, inc, dec, add, sub, mul and division give the numbers they should, in 64 bits
\* or limb by limb, is_umulo says whether a product does not fit, and conversions from
\* integers keep what fits, for every width and every width of a limb.
THEOREM LimbArithmeticRight ==
    2 * MaxWidth + DoubleBits <= MaxBitWidth => (Spec => []LimbArithmetic)
<1> SUFFICES ASSUME 2 * MaxWidth + DoubleBits <= MaxBitWidth PROVE Spec => []LimbArithmetic
  OBVIOUS
<1>0. MaxWidth \in Nat \ {0} /\ MaxBitWidth \in Nat /\ DoubleBits \in Nat
  BY MaxWidthAssumption, MaxBitWidthAssumption, LimbBitsAssumption DEF DoubleBits
<1>1. 1 <= MaxBitWidth
  BY <1>0
<1>2. Spec => []Operands
  BY <1>1, OperandsInvariant
<1>3. Operands => LimbArithmetic
  <2> SUFFICES ASSUME Operands PROVE LimbArithmetic
    OBVIOUS
  <2>1. w \in 1 .. MaxWidth /\ a \in Values(w) /\ b \in Values(w)
    BY DEF Operands
  <2>2. Handled(w) /\ Handled(w + w)
    BY <1>0, <2>1 DEF Handled
  <2>3. /\ lv_neg(A) = Vector(w, bv_neg(w, a))
        /\ lv_inc(A) = Vector(w, bv_inc(w, a))
        /\ lv_dec(A) = Vector(w, bv_dec(w, a))
        /\ lv_sub(A, B) = Vector(w, bv_sub(w, a, b))
    BY <2>1, <2>2, SumsOnLimbs DEF A, B
  <2>4. lv_add(A, B) = Vector(w, bv_add(w, a, b))
    BY <2>1, <2>2, AddOnLimbs DEF A, B
  <2>5. lv_mul(A, B) = Vector(w, bv_mul(w, a, b))
    BY <2>1, <2>2, MulOnLimbs DEF A, B
  <2>6. /\ udiv_urem_bv(A, B).quot = Vector(w, bv_udiv(w, a, b))
        /\ udiv_urem_bv(A, B).rem  = Vector(w, bv_urem(w, a, b))
    BY <2>1, <2>2, DivisionOnLimbs DEF A, B
  <2>7. is_umulo(A, B) = (w > 1 /\ a * b >= 2 ^ w)
    BY <2>1, <2>2, OverflowOnLimbs DEF A, B
  <2>8. uint64_to_bv(a, w) = Vector(w, a % 2 ^ DoubleBits)
    BY <2>1, <2>2, FromUint64Wide
  <2>9. LET n == Signed(a)
        IN  n \in -(2 ^ (DoubleBits - 1)) .. 2 ^ (DoubleBits - 1) - 1 => int64_to_bv(n, w) = A
    <3> DEFINE n == Signed(a)
    <3>1. n \in Int /\ (n = a \/ n = a - 2 ^ w)
      <4>1. n = a \/ n = a - 2 ^ w
        BY DEF Signed
      <4>2. a \in Int /\ 2 ^ w \in Int
        <5>1. w \in 1 .. MaxBitWidth
          BY <1>0, <2>1
        <5> QED
          BY <2>1, <5>1, ValuesOf
      <4> HIDE DEF n
      <4> QED
        BY <4>1, <4>2
    <3> HIDE DEF n
    <3>2. n \in -(2 ^ (DoubleBits - 1)) .. 2 ^ (DoubleBits - 1) - 1 => int64_to_bv(n, w) = A
      BY <2>1, <2>2, <3>1, FromInt64 DEF A
    <3> QED
      BY <3>2 DEF n
  <2> QED
    BY <2>3, <2>4, <2>5, <2>6, <2>7, <2>8, <2>9 DEF LimbArithmetic
<1> QED
  BY <1>2, <1>3, PTL

\* srl_bv: the quotient by a power of two.
LEMMA MovedDown ==
    ASSUME NEW n, Handled(n), NEW X \in 0 .. Base - 1, NEW Y \in 0 .. Base - 1,
           NEW k \in 0 .. LimbBits - 1
    PROVE  LET low  == X \div 2 ^ k
               high == IF k = 0 THEN 0 ELSE (Y * 2 ^ (LimbBits - k)) % Base
           IN  /\ LimbOr(low, high) \in 0 .. Base - 1
               /\ \A t \in 0 .. LimbBits - 1 :
                    Bit(LimbOr(low, high), t) =
                      IF t + k < LimbBits THEN Bit(X, t + k) ELSE Bit(Y, (t + k) - LimbBits)
<1>1. /\ LimbBits \in Nat \ {0} /\ LimbBits \in 0 .. MaxBitWidth /\ Base = 2 ^ LimbBits
      /\ Base \in Nat \ {0} /\ MaxBitWidth \in Nat
  BY LimbWidth
<1>2. CASE k = 0
  <2>1. X \div 2 ^ k = X
    <3>1. X \div 1 = X
      BY <1>1
    <3> QED
      BY <1>2, <3>1, PowersAssumption
  <2>2. 0 \in 0 .. Base - 1
    BY <1>1
  <2>3. LimbOr(X, 0) \in 0 .. Base - 1
        /\ \A t \in 0 .. LimbBits - 1 : Bit(LimbOr(X, 0), t) = Bit(X, t) + Bit(0, t) - Bit(X, t) * Bit(0, t)
    BY <2>2, LimbConnectives
  <2>4. ASSUME NEW t \in 0 .. LimbBits - 1 PROVE Bit(LimbOr(X, 0), t) = Bit(X, t)
    <3>1. t \in 0 .. MaxBitWidth /\ X \in Nat
      BY <1>1
    <3>2. Bit(0, t) = 0 /\ Bit(X, t) \in {0, 1}
      BY <3>1, BitOfZero, Bits
    <3> DEFINE p == Bit(X, t)
    <3>3. p \in Int /\ Bit(LimbOr(X, 0), t) = p + 0 - p * 0
      BY <2>3, <3>2
    <3> HIDE DEF p
    <3>4. p + 0 - p * 0 = p
      BY <3>3
    <3> QED
      BY <3>3, <3>4 DEF p
  <2>5. \A t \in 0 .. LimbBits - 1 : t + k < LimbBits /\ t + k = t
    BY <1>1, <1>2
  <2> QED
    BY <1>2, <2>1, <2>3, <2>4, <2>5
<1>3. CASE k # 0
  <2> DEFINE l == LimbBits - k
             low  == X \div 2 ^ (LimbBits - l)
             high == (Y * 2 ^ l) % Base
  <2>1. l \in 0 .. LimbBits - 1 /\ l # 0 /\ LimbBits - l = k
        /\ \A t \in 0 .. LimbBits - 1 : /\ t >= l <=> ~(t + k < LimbBits)
                                        /\ t - l = (t + k) - LimbBits
                                        /\ t + LimbBits - l = t + k
    BY <1>1, <1>3
  <2> HIDE DEF l
  <2> DEFINE c == IF l = 0 THEN 0 ELSE low
  <2>2. c = low
    BY <2>1
  <2>3. /\ LimbOr(c, high) \in 0 .. Base - 1
        /\ \A t \in 0 .. LimbBits - 1 :
             Bit(LimbOr(c, high), t) = IF t >= l THEN Bit(Y, t - l) ELSE Bit(X, t + LimbBits - l)
    <3>1. l \in 0 .. LimbBits - 1
      BY <2>1
    <3>2. /\ LimbOr(IF l = 0 THEN 0 ELSE X \div 2 ^ (LimbBits - l), (Y * 2 ^ l) % Base) \in 0 .. Base - 1
          /\ \A t \in 0 .. LimbBits - 1 :
               Bit(LimbOr(IF l = 0 THEN 0 ELSE X \div 2 ^ (LimbBits - l), (Y * 2 ^ l) % Base), t) =
                 IF t >= l THEN Bit(Y, t - l) ELSE Bit(X, t + LimbBits - l)
      BY <3>1, MovedUp
    <3> QED
      BY <3>2
  <2> DEFINE W == LimbOr(low, high)
  <2>4. /\ W \in 0 .. Base - 1
        /\ \A t \in 0 .. LimbBits - 1 :
             Bit(W, t) = IF t >= l THEN Bit(Y, t - l) ELSE Bit(X, t + LimbBits - l)
    BY <2>2, <2>3
  <2>5. W = LimbOr(X \div 2 ^ k, IF k = 0 THEN 0 ELSE (Y * 2 ^ (LimbBits - k)) % Base)
    BY <1>3, <2>1 DEF l
  <2> HIDE DEF W
  <2>6. \A t \in 0 .. LimbBits - 1 :
          Bit(W, t) = IF t + k < LimbBits THEN Bit(X, t + k) ELSE Bit(Y, (t + k) - LimbBits)
    BY <2>1, <2>4
  <2> QED
    BY <2>4, <2>5, <2>6
<1> QED
  BY <1>2, <1>3

\* The limbs of a quotient by a power of two, from two neighbours each.
LEMMA ShiftRightOnLimbs ==
    ASSUME NEW n, Handled(n), NEW x \in Values(n), NEW s \in Nat, s < n
    PROVE  LET X == Limbs(n, x)
               k == s % LimbBits
               skip == s \div LimbBits
               low(i)  == X[i] \div 2 ^ k
               high(i) == IF k = 0 \/ i < 1 THEN 0 ELSE (X[i] * 2 ^ (LimbBits - k)) % Base
               limb(j) == IF j <= skip THEN 0 ELSE LimbOr(low(j - skip), high(j - skip - 1))
           IN  /\ Build(n, limb) = Vector(n, x \div 2 ^ s)
               /\ x \div 2 ^ s \in Values(n)
<1> DEFINE N == LimbsFor(n)
           X == Limbs(n, x)
           k == s % LimbBits
           skip == s \div LimbBits
           d == skip * LimbBits
           y == x \div 2 ^ s
           low(i)  == X[i] \div 2 ^ k
           high(i) == IF k = 0 \/ i < 1 THEN 0 ELSE (X[i] * 2 ^ (LimbBits - k)) % Base
           f == [j \in 1 .. N |-> IF j <= skip THEN 0 ELSE LimbOr(low(j - skip), high(j - skip - 1))]
<1>1. /\ n \in Nat /\ n \in 1 .. MaxBitWidth /\ n \in 0 .. MaxBitWidth /\ MaxBitWidth \in Nat
      /\ LimbBits \in Nat \ {0} /\ Base \in Nat \ {0} /\ LimbBits \in 0 .. MaxBitWidth
      /\ n + LimbBits <= MaxBitWidth
  BY LimbWidth
<1>2. x \in Nat /\ x \in Int /\ s <= n /\ s <= MaxBitWidth /\ s \in 0 .. MaxBitWidth
  BY <1>1, ValuesOf
<1>3. y \in Nat /\ n - s \in 0 .. MaxBitWidth /\ y \in Values(n - s) /\ n - s \in Nat
  <2>1. y \in Nat /\ n - s \in 0 .. MaxBitWidth /\ y \in Values(n - s)
    BY <1>1, <1>2, HighPartFits
  <2> QED
    BY <2>1
<1>4. y \in Values(n)
  <2> DEFINE e == 2 ^ s
             M == 2 ^ n
  <2>1. e \in Nat \ {0} /\ x \in 0 .. M - 1 /\ M \in Nat
    BY <1>1, <1>2, PowerIs DEF Values
  <2> HIDE DEF e, M
  <2>2. x \div e \in 0 .. x
    BY <1>2, <2>1, DivMod
  <2>3. x \div e \in 0 .. M - 1
    BY <2>1, <2>2
  <2> QED
    BY <2>3 DEF Values, e, M
<1>5. ASSUME NEW u \in 0 .. MaxBitWidth
      PROVE  Bit(y, u) = IF u + s < n THEN Bit(x, u + s) ELSE 0
  <2>1. CASE u + s < n
    <3>1. u \in Nat /\ u + s <= MaxBitWidth
      BY <1>1, <2>1
    <3> QED
      BY <1>2, <2>1, <3>1, BitOfQuotient
  <2>2. CASE ~(u + s < n)
    <3>1. u \in n - s .. MaxBitWidth
      BY <1>1, <2>2
    <3> HIDE DEF y
    <3> QED
      BY <1>3, <2>2, <3>1, BitAbove
  <2> QED
    BY <2>1, <2>2
<1> HIDE DEF y
<1>6. /\ k \in 0 .. LimbBits - 1 /\ skip \in Nat /\ d \in Nat /\ s = d + k
      /\ \A j \in 1 .. N : /\ j > skip => Pos(n, j - skip) = Pos(n, j) + d
                           /\ j <= skip => n <= Pos(n, j) + d
  BY SkippedLimbs
<1>7. N \in Nat \ {0} /\ n <= Pos(n, 1) + LimbBits
  BY Positions
<1>8. ASSUME NEW j \in 1 .. N
      PROVE  /\ f[j] \in 0 .. Base - 1
             /\ \A t \in 0 .. LimbBits - 1 :
                  Bit(f[j], t) = IF Pos(n, j) + t + s < n THEN Bit(x, Pos(n, j) + t + s) ELSE 0
  <2> DEFINE p == Pos(n, j)
  <2>1. p \in Nat
    BY Positions
  <2>2. CASE j <= skip
    <3>1. f[j] = 0 /\ 0 \in 0 .. Base - 1
      BY <1>1, <2>2
    <3>2. ASSUME NEW t \in 0 .. LimbBits - 1
          PROVE  ~(p + t + s < n) /\ Bit(0, t) = 0
      <4>1. n <= p + d /\ t \in 0 .. MaxBitWidth /\ t \in Nat /\ k \in Nat
        BY <1>1, <1>6, <2>2
      <4>2. ~(p + t + s < n)
        <5> HIDE DEF p, d, k
        <5> QED
          BY <1>1, <1>6, <2>1, <4>1
      <4> QED
        BY <4>1, <4>2, BitOfZero
    <3> HIDE DEF f
    <3> QED
      BY <3>1, <3>2
  <2>3. CASE ~(j <= skip)
    <3> DEFINE i == j - skip
               q == Pos(n, i)
               Y == IF i - 1 < 1 THEN 0 ELSE X[i - 1]
               U == X[i]
               W == LimbOr(U \div 2 ^ k, IF k = 0 THEN 0 ELSE (Y * 2 ^ (LimbBits - k)) % Base)
    <3>1. i \in 1 .. N /\ q = p + d /\ q \in Nat
      <4>1. i \in 1 .. N
        BY <1>6, <1>7, <2>3
      <4>2. q \in Nat
        BY <4>1, Positions
      <4>3. q = p + d
        BY <1>6, <2>3
      <4> QED
        BY <4>1, <4>2, <4>3
    <3>2. ~(i - 1 < 1) => i - 1 \in 1 .. N /\ i \in 2 .. N
      <4> HIDE DEF i, N
      <4> QED
        BY <1>7, <3>1
    <3>3. U \in 0 .. Base - 1 /\ Y \in 0 .. Base - 1
      <4>1. X[i] \in 0 .. Base - 1
        BY <3>1, BitOfLimb
      <4>2. ~(i - 1 < 1) => X[i - 1] \in 0 .. Base - 1
        BY <3>2, BitOfLimb
      <4> HIDE DEF X, i
      <4> QED
        BY <1>1, <4>1, <4>2
    <3>4. f[j] = W
      <4>1. f[j] = LimbOr(low(i), high(i - 1))
        <5>1. j - skip - 1 = i - 1
          BY <1>6
        <5> QED
          BY <2>3, <5>1
      <4>2. high(i - 1) = IF k = 0 THEN 0 ELSE (Y * 2 ^ (LimbBits - k)) % Base
        <5>1. CASE i - 1 < 1
          <6>1. k # 0 => (0 * 2 ^ (LimbBits - k)) % Base = 0
            <7>1. ASSUME k # 0 PROVE (0 * 2 ^ (LimbBits - k)) % Base = 0
              <8> DEFINE e == 2 ^ (LimbBits - k)
              <8>1. LimbBits - k \in 0 .. MaxBitWidth
                BY <1>1, <1>6
              <8>2. e \in Nat \ {0}
                <9> HIDE DEF k
                <9> QED
                  BY <8>1, PowerIs
              <8> HIDE DEF e
              <8>3. 0 * e = 0 /\ 0 % Base = 0
                BY <1>1, <8>2
              <8> QED
                BY <8>3 DEF e
            <7> QED
              BY <7>1
          <6> QED
            BY <5>1, <6>1
        <5>2. CASE ~(i - 1 < 1)
          BY <5>2
        <5> QED
          BY <5>1, <5>2
      <4> QED
        BY <4>1, <4>2
    <3>5. /\ W \in 0 .. Base - 1
          /\ \A t \in 0 .. LimbBits - 1 :
               Bit(W, t) = IF t + k < LimbBits THEN Bit(U, t + k) ELSE Bit(Y, (t + k) - LimbBits)
      <4> HIDE DEF U, Y, k
      <4> QED
        BY <1>6, <3>3, MovedDown
    <3>6. ASSUME NEW t \in 0 .. LimbBits - 1
          PROVE  Bit(W, t) = IF p + t + s < n THEN Bit(x, p + t + s) ELSE 0
      <4>1. k \in Nat /\ t \in Nat /\ t + k \in Nat /\ d \in Nat /\ s = d + k /\ k < LimbBits
        BY <1>1, <1>6
      <4>2. CASE t + k < LimbBits
        <5>1. t + k \in 0 .. LimbBits - 1
          <6> HIDE DEF k
          <6> QED
            BY <1>1, <4>1, <4>2
        <5>2. Bit(U, t + k) = IF q + (t + k) < n THEN Bit(x, q + (t + k)) ELSE 0
          BY <3>1, <5>1, LimbBitsOf
        <5>3. q + (t + k) = p + t + s
          <6> HIDE DEF p, q, d, k
          <6> QED
            BY <2>1, <3>1, <4>1
        <5> HIDE DEF U, W, Y
        <5> QED
          BY <3>5, <4>2, <5>2, <5>3
      <4>3. CASE ~(t + k < LimbBits)
        <5> DEFINE v == (t + k) - LimbBits
        <5>1. v \in 0 .. LimbBits - 1 /\ v \in 0 .. MaxBitWidth
          <6> HIDE DEF k
          <6> QED
            BY <1>1, <4>1, <4>3
        <5>2. CASE i - 1 < 1
          <6>1. i = 1 /\ Y = 0 /\ Bit(0, v) = 0
            BY <3>1, <5>1, <5>2, BitOfZero
          <6>2. ~(p + t + s < n)
            <7>1. n <= q + LimbBits
              BY <1>7, <6>1
            <7> HIDE DEF p, q, d, k
            <7> QED
              BY <1>1, <2>1, <3>1, <4>1, <4>3, <7>1
          <6> HIDE DEF U, W, Y, v
          <6> QED
            BY <3>5, <4>3, <6>1, <6>2 DEF v
        <5>3. CASE ~(i - 1 < 1)
          <6> DEFINE r == Pos(n, i - 1)
          <6>1. i - 1 \in 1 .. N /\ i \in 2 .. N
            BY <3>2, <5>3
          <6>2. r = q + LimbBits
            BY <6>1, Positions
          <6>3. Bit(X[i - 1], v) = IF r + v < n THEN Bit(x, r + v) ELSE 0
            BY <5>1, <6>1, LimbBitsOf
          <6>4. r + v = p + t + s
            <7>1. v = (t + k) - LimbBits
              OBVIOUS
            <7> HIDE DEF p, q, d, k, r, v
            <7> QED
              BY <1>1, <2>1, <3>1, <4>1, <6>2, <7>1
          <6>5. Y = X[i - 1]
            BY <5>3
          <6>6. Bit(W, t) = Bit(Y, v)
            <7> HIDE DEF U, W, Y
            <7> QED
              BY <3>5, <4>3
          <6> HIDE DEF U, W, Y, v, r, X
          <6> QED
            BY <6>3, <6>4, <6>5, <6>6
        <5> QED
          BY <5>2, <5>3
      <4> QED
        BY <4>2, <4>3
    <3> HIDE DEF f, W
    <3> QED
      BY <3>4, <3>5, <3>6
  <2> QED
    BY <2>2, <2>3
<1>9. f \in [1 .. N -> 0 .. Base - 1]
  <2>1. f = [j \in 1 .. N |-> f[j]]
    OBVIOUS
  <2> HIDE DEF f
  <2> QED
    BY <1>8, <2>1
<1>10. [width |-> n, bits |-> <<>> \o f] = Build(n, LAMBDA j : IF j <= skip THEN 0 ELSE LimbOr(low(j - skip), high(j - skip - 1)))
  BY DEF Build
<1> HIDE DEF f
<1>11. ASSUME NEW j \in 1 .. N, NEW t \in 0 .. LimbBits - 1
       PROVE  Bit(f[j], t) = IF Pos(n, j) + t < n THEN Bit(y, Pos(n, j) + t) ELSE 0
  <2> DEFINE p == Pos(n, j)
             u == p + t
  <2>1. p \in Nat /\ p < n /\ t \in Nat
    BY <1>1, Positions
  <2>2. u \in 0 .. MaxBitWidth
    <3> HIDE DEF p
    <3> QED
      BY <1>1, <2>1
  <2>3. u + s = p + t + s /\ u + s \in Nat /\ s \in Nat
    <3> HIDE DEF p
    <3> QED
      BY <2>1
  <2>4. Bit(f[j], t) = IF u + s < n THEN Bit(x, u + s) ELSE 0
    BY <1>8, <2>3
  <2>5. Bit(y, u) = IF u + s < n THEN Bit(x, u + s) ELSE 0
    BY <1>5, <2>2
  <2>6. ~(u < n) => ~(u + s < n)
    <3> HIDE DEF u
    <3> QED
      BY <1>1, <2>2
  <2> HIDE DEF u
  <2>7. Bit(f[j], t) = IF u < n THEN Bit(y, u) ELSE 0
    BY <2>4, <2>5, <2>6
  <2> QED
    BY <2>7 DEF u
<1>12. [width |-> n, bits |-> <<>> \o f] = Vector(n, y)
  BY <1>4, <1>9, <1>11, Unmasked
<1> QED
  BY <1>4, <1>10, <1>12 DEF y

\* What a shift takes from the vector it shifts by: it is too far exactly if it does not
\* fit in 64 bits, and all of the number otherwise.
LEMMA ShiftAmount ==
    ASSUME NEW n, Handled(n), NEW y \in Values(n)
    PROVE  /\ TooFar(Vector(n, y)) <=> y >= 2 ^ DoubleBits
           /\ ~TooFar(Vector(n, y)) => Shift(Vector(n, y)) = y
<1> DEFINE V == Vector(n, y)
           D == DoubleBits
<1>1. /\ n \in Nat \ {0} /\ n \in 1 .. MaxBitWidth /\ n \in 0 .. MaxBitWidth /\ MaxBitWidth \in Nat
      /\ D \in Nat /\ D \in 1 .. MaxBitWidth
  <2>1. /\ n \in Nat \ {0} /\ n \in 1 .. MaxBitWidth /\ n \in 0 .. MaxBitWidth /\ MaxBitWidth \in Nat
        /\ LimbBits \in Nat \ {0} /\ n + 2 * LimbBits <= MaxBitWidth
    BY LimbWidth DEF Handled, DoubleBits
  <2> QED
    BY <2>1 DEF DoubleBits
<1>2. V.width = n
  BY VectorParts
<1>3. y \in Nat /\ 2 ^ D \in Nat \ {0} /\ 2 ^ n \in Nat \ {0} /\ y < 2 ^ n
  <2>1. 2 ^ n \in Nat \ {0} /\ y \in 0 .. 2 ^ n - 1
    BY <1>1, PowerIs DEF Values
  <2>2. 2 ^ D \in Nat \ {0}
    BY <1>1, ValuesOf
  <2> HIDE DEF D
  <2> QED
    BY <2>1, <2>2
<1>4. CASE n <= D
  <2>1. 2 ^ n <= 2 ^ D
    BY <1>1, <1>4, PowersGrow
  <2>2. ~(y >= 2 ^ D)
    BY <1>3, <2>1
  <2>3. ~TooFar(V)
    BY <1>1, <1>2, <1>4 DEF TooFar
  <2>4. Shift(V) = y
    BY <1>2, <1>4, NumberOf DEF Shift
  <2> QED
    BY <2>2, <2>3, <2>4
<1>5. CASE ~(n <= D)
  <2> DEFINE m == n - D
             z == get_num_leading_zeros(V)
  <2>1. m \in 0 .. n /\ m \in Nat /\ n - m = D /\ n > D
    BY <1>1, <1>5
  <2>2. z \in Nat /\ (z >= m <=> y < 2 ^ D)
    <3>1. z \in Nat /\ (z >= m <=> y < 2 ^ (n - m))
      <4> HIDE DEF m
      <4> QED
        BY <2>1, ZerosOnLimbs
    <3> HIDE DEF z, m, D
    <3> QED
      BY <2>1, <3>1
  <2>3. TooFar(V) <=> z < m
    BY <1>2, <2>1 DEF TooFar
  <2>4. TooFar(V) <=> y >= 2 ^ D
    <3> HIDE DEF z, m, D, V
    <3> QED
      BY <1>3, <2>1, <2>2, <2>3
  <2>5. ASSUME y < 2 ^ D PROVE Shift(V) = y
    <3>1. Shift(V) = Number(lv_slice(V, D - 1, 0))
      BY <1>1, <1>2, <1>5 DEF Shift
    <3>2. D - 1 \in Nat /\ 0 <= D - 1 /\ D - 1 < n /\ 0 \in Nat /\ (D - 1) - 0 + 1 = D
      BY <1>1, <2>1
    <3>3. /\ lv_slice(V, D - 1, 0) = Vector(D, bv_slice(y, D - 1, 0))
          /\ Handled(D) /\ bv_slice(y, D - 1, 0) \in Values(D)
      <4> DEFINE u == D - 1
      <4>1. /\ lv_slice(V, u, 0) = Vector(u - 0 + 1, bv_slice(y, u, 0))
            /\ Handled(u - 0 + 1) /\ bv_slice(y, u, 0) \in Values(u - 0 + 1)
        <5> HIDE DEF u
        <5> QED
          BY <3>2, SliceOnLimbs DEF u
      <4> QED
        BY <3>2, <4>1
    <3>4. bv_slice(y, D - 1, 0) = y
      <4>1. y \div 2 ^ 0 = y
        BY <1>3, PowersAssumption
      <4>2. y \in Values(D)
        <5> HIDE DEF D
        <5> QED
          BY <1>3, <2>5 DEF Values
      <4>3. D \in 0 .. MaxBitWidth
        BY <1>1
      <4>4. y % 2 ^ D = y
        <5> HIDE DEF D
        <5> QED
          BY <4>2, <4>3, RestOfValue
      <4> QED
        BY <3>2, <4>1, <4>4 DEF bv_slice, Fit
    <3> HIDE DEF D, V
    <3> QED
      BY <3>1, <3>3, <3>4, NumberOf
  <2>6. ~TooFar(V) => y < 2 ^ D
    <3> HIDE DEF D, V
    <3> QED
      BY <1>3, <2>4
  <2> QED
    BY <2>4, <2>5, <2>6
<1> QED
  BY <1>4, <1>5

\* What the models of the shift on numbers and on limbs have in common: an unsigned int
\* has the width of a limb, or all shifts fit it.
SameWords(n) == LimbBits = WordBits \/ (n <= WordBits /\ WordBits <= MaxBitWidth)

\* sll: the shift in 64 bits is cut to 32, in either model.
LEMMA SllOnLimbs ==
    ASSUME NEW n, Handled(n), NEW x \in Values(n), NEW y \in Values(n),
           n < 2 ^ DoubleBits, SameWords(n)
    PROVE  lv_sll(Vector(n, x), Vector(n, y)) = Vector(n, bv_sll(n, x, y))
<1> DEFINE V == Vector(n, x)
           U == Vector(n, y)
           D == DoubleBits
           M == 2 ^ WordBits
           E == 2 ^ D
           s == y % M
           huge == n > 2 * WordBits /\ y >= 2 ^ (2 * WordBits)
<1>1. /\ n \in Nat \ {0} /\ n \in 1 .. MaxBitWidth /\ n \in 0 .. MaxBitWidth /\ MaxBitWidth \in Nat
      /\ LimbBits \in Nat /\ D \in Nat /\ D \in 0 .. MaxBitWidth
  <2>1. /\ n \in Nat \ {0} /\ n \in 1 .. MaxBitWidth /\ n \in 0 .. MaxBitWidth /\ MaxBitWidth \in Nat
        /\ LimbBits \in Nat /\ n + 2 * LimbBits <= MaxBitWidth
    BY LimbWidth DEF Handled, DoubleBits
  <2> QED
    BY <2>1 DEF DoubleBits
<1>2. y \in Nat /\ 2 ^ n \in Nat \ {0} /\ y < 2 ^ n /\ M \in Nat \ {0} /\ s \in Nat /\ WordBits \in Nat
      /\ E \in Nat \ {0} /\ n < E
  <2>1. 2 ^ n \in Nat \ {0} /\ y \in 0 .. 2 ^ n - 1 /\ E \in Nat \ {0}
    BY <1>1, PowerIs DEF Values
  <2>2. M \in Nat \ {0} /\ WordBits \in Nat
    BY WordBitsAssumption
  <2>3. y \in Nat /\ y < 2 ^ n
    <3> HIDE DEF M, E
    <3> QED
      BY <2>1
  <2>4. s \in 0 .. M - 1
    <3> HIDE DEF M
    <3> QED
      BY <2>2, <2>3, DivMod
  <2>5. s \in Nat
    <3> HIDE DEF s, M
    <3> QED
      BY <2>2, <2>4
  <2> QED
    BY <2>1, <2>2, <2>3, <2>5
<1>3. V.width = n /\ U.width = n
  BY VectorParts
<1>4. (TooFar(U) <=> y >= E) /\ (~TooFar(U) => Shift(U) = y)
  BY ShiftAmount
<1>5. lv_new(n) = Vector(n, 0)
  BY NewIsZero
<1>6. LimbBits = WordBits => D = 2 * WordBits
  BY DEF DoubleBits
<1>7. LimbBits # WordBits => s = y /\ ~(n > 2 * WordBits)
  <2> SUFFICES ASSUME n <= WordBits, WordBits <= MaxBitWidth PROVE s = y /\ ~(n > 2 * WordBits)
    BY DEF SameWords
  <2>1. 2 ^ n <= M
    BY <1>1, <1>2, PowersGrow
  <2>2. y \in Values(WordBits) /\ WordBits \in 0 .. MaxBitWidth
    BY <1>1, <1>2, <2>1 DEF Values
  <2> QED
    BY <1>1, <1>2, <2>2, RestOfValue
<1>8. bv_sll(n, x, y) = IF huge \/ s >= n THEN 0 ELSE (x * 2 ^ s) % 2 ^ n
  BY DEF bv_sll, Fit
<1>9. CASE TooFar(U)
  <2>1. lv_sll(V, U) = Vector(n, 0)
    BY <1>3, <1>5, <1>9 DEF lv_sll
  <2>2. huge \/ s >= n
    <3>1. CASE LimbBits = WordBits
      <4>1. n > D
        BY <1>3, <1>9 DEF TooFar
      <4> QED
        BY <1>4, <1>6, <1>9, <3>1, <4>1
    <3>2. CASE LimbBits # WordBits
      <4> HIDE DEF s, M, E, huge, U
      <4> QED
        BY <1>1, <1>2, <1>4, <1>7, <1>9, <3>2
    <3> QED
      BY <3>1, <3>2
  <2>3. bv_sll(n, x, y) = 0
    BY <1>8, <2>2
  <2> QED
    BY <2>1, <2>3
<1>10. CASE ~TooFar(U)
  <2>1. lv_sll(V, U) = sll_bv(V, s)
    BY <1>4, <1>10 DEF lv_sll
  <2>2. ~huge
    <3>1. CASE LimbBits = WordBits
      <4>1. ~(y >= 2 ^ (2 * WordBits))
        BY <1>4, <1>6, <1>10, <3>1
      <4> QED
        BY <4>1
    <3>2. CASE LimbBits # WordBits
      BY <1>7, <3>2
    <3> QED
      BY <3>1, <3>2
  <2>3. sll_bv(V, s) = Vector(n, IF s >= n THEN 0 ELSE (x * 2 ^ s) % 2 ^ n)
    <3> HIDE DEF s
    <3> QED
      BY <1>2, ShiftLeftOnLimbs
  <2>4. lv_sll(V, U) = Vector(n, bv_sll(n, x, y))
    <3> HIDE DEF huge, s, V, U
    <3> QED
      BY <1>8, <2>1, <2>2, <2>3
  <2> QED
    BY <2>4
<1> QED
  BY <1>9, <1>10

\* srl.
LEMMA SrlOnLimbs ==
    ASSUME NEW n, Handled(n), NEW x \in Values(n), NEW y \in Values(n), n < 2 ^ DoubleBits
    PROVE  lv_srl(Vector(n, x), Vector(n, y)) = Vector(n, bv_srl(n, x, y))
<1> DEFINE V == Vector(n, x)
           U == Vector(n, y)
           E == 2 ^ DoubleBits
<1>1. /\ n \in Nat \ {0} /\ n \in 1 .. MaxBitWidth /\ DoubleBits \in 0 .. MaxBitWidth
  <2>1. /\ n \in Nat \ {0} /\ n \in 1 .. MaxBitWidth /\ MaxBitWidth \in Nat
        /\ LimbBits \in Nat /\ n + 2 * LimbBits <= MaxBitWidth
    BY LimbWidth DEF Handled, DoubleBits
  <2> QED
    BY <2>1 DEF DoubleBits
<1>2. y \in Nat /\ E \in Nat \ {0} /\ n < E
  BY <1>1, PowerIs, ValuesOf
<1>3. V.width = n /\ V.bits = Limbs(n, x)
  BY VectorParts
<1>4. (TooFar(U) <=> y >= E) /\ (~TooFar(U) => Shift(U) = y)
  BY ShiftAmount
<1>5. lv_new(n) = Vector(n, 0)
  BY NewIsZero
<1>6. CASE y >= n
  <2>1. TooFar(U) \/ Shift(U) >= n
    BY <1>4, <1>6
  <2>2. lv_srl(V, U) = Vector(n, 0)
    <3> HIDE DEF V, U
    <3> QED
      BY <1>3, <1>5, <2>1 DEF lv_srl
  <2>3. bv_srl(n, x, y) = 0
    BY <1>6 DEF bv_srl
  <2> QED
    BY <2>2, <2>3
<1>7. CASE ~(y >= n)
  <2>1. ~TooFar(U) /\ Shift(U) = y /\ y < n
    <3> HIDE DEF E, U
    <3> QED
      BY <1>1, <1>2, <1>4, <1>7
  <2> DEFINE X == Limbs(n, x)
             k == y % LimbBits
             skip == y \div LimbBits
             low(i)  == X[i] \div 2 ^ k
             high(i) == IF k = 0 \/ i < 1 THEN 0 ELSE (X[i] * 2 ^ (LimbBits - k)) % Base
             limb(j) == IF j <= skip THEN 0 ELSE LimbOr(low(j - skip), high(j - skip - 1))
  <2>2. lv_srl(V, U) = Build(n, limb)
    <3>1. ~(TooFar(U) \/ Shift(U) >= V.width) /\ Shift(U) = y /\ V.width = n /\ V.bits = X
      BY <1>3, <1>7, <2>1
    <3> HIDE DEF V, U, X
    <3> QED
      BY <3>1 DEF lv_srl, Build
  <2>3. Build(n, limb) = Vector(n, x \div 2 ^ y)
    BY <1>2, <2>1, ShiftRightOnLimbs
  <2>4. bv_srl(n, x, y) = x \div 2 ^ y
    BY <1>7 DEF bv_srl
  <2>5. lv_srl(V, U) = Vector(n, bv_srl(n, x, y))
    <3> HIDE DEF limb, V, U
    <3> QED
      BY <2>2, <2>3, <2>4
  <2> QED
    BY <2>5
<1> QED
  BY <1>6, <1>7

\* sra.
LEMMA SraOnLimbs ==
    ASSUME NEW n, Handled(n), NEW x \in Values(n), NEW y \in Values(n), n < 2 ^ DoubleBits
    PROVE  lv_sra(Vector(n, x), Vector(n, y)) = Vector(n, bv_sra(n, x, y))
<1> DEFINE V == Vector(n, x)
           U == Vector(n, y)
           c == Sign(n, x)
<1>1. /\ n \in Nat \ {0} /\ n \in 1 .. MaxBitWidth /\ n - 1 \in Nat /\ n - 1 < n
      /\ n - 1 <= n - 1 /\ (n - 1) - (n - 1) + 1 = 1 /\ n - 1 \in 0 .. MaxBitWidth
  BY LimbWidth
<1>2. V.width = n
  BY VectorParts
<1>3. lv_slice(V, n - 1, n - 1) = Vector(1, c) /\ Handled(1) /\ c \in Values(1)
  <2> DEFINE u == n - 1
  <2>1. /\ lv_slice(V, u, u) = Vector(u - u + 1, bv_slice(x, u, u))
        /\ Handled(u - u + 1) /\ bv_slice(x, u, u) \in Values(u - u + 1)
    <3>1. u \in Nat /\ u <= u /\ u < n
      BY <1>1
    <3> HIDE DEF u
    <3> QED
      BY <3>1, SliceOnLimbs
  <2>2. bv_slice(x, u, u) = c
    <3>1. bv_slice(x, u, u) = (x \div 2 ^ u) % 2 ^ 1
      BY <1>1 DEF bv_slice, Fit
    <3>2. 2 ^ 1 = 2
      BY <1>1, PowersAssumption
    <3> QED
      BY <3>1, <3>2 DEF Sign, Bit
  <2> QED
    BY <1>1, <2>1, <2>2
<1>4. c \in {0, 1} /\ (is_true(Vector(1, c)) <=> c = 1)
  <2>1. c \in {0, 1}
    BY <1>3, Bits
  <2> HIDE DEF c
  <2>2. get_bit(Vector(1, c), 0) = Bit(c, 0) /\ Vector(1, c).width = 1
    BY <1>3, GetBit, VectorParts
  <2> QED
    BY <2>1, <2>2, BitOfTruth DEF is_true
<1> HIDE DEF c
<1>5. /\ bv_not(n, x) \in Values(n) /\ bv_srl(n, x, y) \in Values(n)
      /\ bv_srl(n, bv_not(n, x), y) \in Values(n)
      /\ bv_not(n, bv_srl(n, bv_not(n, x), y)) \in Values(n)
  <2>1. bv_not(n, x) \in Values(n) /\ bv_srl(n, x, y) \in Values(n)
    BY <1>1, ArithmeticFits, ShiftsFit
  <2>2. bv_srl(n, bv_not(n, x), y) \in Values(n)
    BY <1>1, <2>1, ShiftsFit
  <2>3. bv_not(n, bv_srl(n, bv_not(n, x), y)) \in Values(n)
    BY <1>1, <2>2, ArithmeticFits
  <2> QED
    BY <2>1, <2>2, <2>3
<1>6. lv_not(V) = Vector(n, bv_not(n, x))
  BY BitwiseOnLimbs
<1>7. /\ lv_srl(V, U) = Vector(n, bv_srl(n, x, y))
      /\ lv_srl(lv_not(V), U) = Vector(n, bv_srl(n, bv_not(n, x), y))
  BY <1>5, <1>6, SrlOnLimbs
<1>8. lv_not(lv_srl(lv_not(V), U)) = Vector(n, bv_not(n, bv_srl(n, bv_not(n, x), y)))
  <2> DEFINE z == bv_srl(n, bv_not(n, x), y)
  <2>1. lv_not(Vector(n, z)) = Vector(n, bv_not(n, z))
    <3> HIDE DEF z
    <3> QED
      BY <1>5, BitwiseOnLimbs DEF z
  <2> QED
    BY <1>7, <2>1
<1>9. bv_sra(n, x, y) = IF c = 1 THEN bv_not(n, bv_srl(n, bv_not(n, x), y)) ELSE bv_srl(n, x, y)
  BY DEF bv_sra, c
<1>10. bv_sra(n, x, y) \in Values(n)
  BY <1>5, <1>9
<1>11. lv_sra(V, U) = set_rem_bits_to_zero(Vector(n, bv_sra(n, x, y)))
  <2>1. lv_sra(V, U) =
          set_rem_bits_to_zero(IF is_true(lv_slice(V, n - 1, n - 1))
                               THEN lv_not(lv_srl(lv_not(V), U)) ELSE lv_srl(V, U))
    <3> HIDE DEF V, U
    <3> QED
      BY <1>2 DEF lv_sra
  <2>2. CASE c = 1
    BY <1>3, <1>4, <1>8, <1>9, <2>1, <2>2
  <2>3. CASE c # 1
    BY <1>3, <1>4, <1>7, <1>9, <2>1, <2>3
  <2> QED
    BY <2>2, <2>3
<1> QED
  BY <1>10, <1>11, MaskedVector

\* rol and ror: two opposite shifts.
LEMMA RotationsOnLimbs ==
    ASSUME NEW n, Handled(n), NEW x \in Values(n), NEW y \in Values(n),
           n < 2 ^ DoubleBits, SameWords(n)
    PROVE  /\ lv_rol(Vector(n, x), Vector(n, y)) = Vector(n, bv_rol(n, x, y))
           /\ lv_ror(Vector(n, x), Vector(n, y)) = Vector(n, bv_ror(n, x, y))
<1> DEFINE V == Vector(n, x)
           U == Vector(n, y)
           rev == bv_sub(n, Fit(n, n), y)
<1>1. n \in Nat \ {0} /\ n \in 1 .. MaxBitWidth /\ n \in 0 .. MaxBitWidth /\ DoubleBits \in 0 .. MaxBitWidth
  <2>1. /\ n \in Nat \ {0} /\ n \in 1 .. MaxBitWidth /\ MaxBitWidth \in Nat
        /\ LimbBits \in Nat /\ n + 2 * LimbBits <= MaxBitWidth
    BY LimbWidth DEF Handled, DoubleBits
  <2> QED
    BY <2>1 DEF DoubleBits
<1>2. n \in Values(n) /\ n \in Values(DoubleBits)
  <2>1. n < 2 ^ n /\ 2 ^ n \in Nat /\ 2 ^ DoubleBits \in Nat /\ n \in Nat
    BY <1>1, WidthFits, PowerIs
  <2> QED
    BY <2>1 DEF Values
<1>3. Fit(n, n) = n /\ n % 2 ^ DoubleBits = n
  BY <1>1, <1>2, RestOfValue DEF Fit
<1>4. uint64_to_bv(n, n) = Vector(n, n)
  <2>1. uint64_to_bv(n, n) = Vector(n, n % 2 ^ DoubleBits)
    BY <1>2, FromUint64Wide
  <2> QED
    BY <1>3, <2>1
<1>5. rev \in Values(n)
  BY <1>1, <1>2, <1>3, ArithmeticFits
<1>6. WidthMinus(V, U) = Vector(n, rev)
  <2>1. lv_sub(Vector(n, n), U) = Vector(n, bv_sub(n, n, y))
    BY <1>2, SumsOnLimbs
  <2>2. V.width = n
    BY VectorParts
  <2> QED
    BY <1>3, <1>4, <2>1, <2>2 DEF WidthMinus
<1> HIDE DEF rev
<1>7. /\ lv_sll(V, U) = Vector(n, bv_sll(n, x, y))
      /\ lv_srl(V, U) = Vector(n, bv_srl(n, x, y))
      /\ lv_sll(V, Vector(n, rev)) = Vector(n, bv_sll(n, x, rev))
      /\ lv_srl(V, Vector(n, rev)) = Vector(n, bv_srl(n, x, rev))
  BY <1>5, SllOnLimbs, SrlOnLimbs
<1>8. /\ bv_sll(n, x, y) \in Values(n) /\ bv_srl(n, x, y) \in Values(n)
      /\ bv_sll(n, x, rev) \in Values(n) /\ bv_srl(n, x, rev) \in Values(n)
  BY <1>1, <1>5, ShiftsFit
<1>9. \A p, q \in Values(n) : lv_or(Vector(n, p), Vector(n, q)) = Vector(n, bv_or(n, p, q))
  BY BitwiseOnLimbs
<1>10. lv_rol(V, U) = Vector(n, bv_or(n, bv_sll(n, x, y), bv_srl(n, x, rev)))
  <2>1. lv_rol(V, U) = lv_or(lv_sll(V, U), lv_srl(V, WidthMinus(V, U)))
    BY DEF lv_rol
  <2> QED
    BY <1>6, <1>7, <1>8, <1>9, <2>1
<1>11. lv_ror(V, U) = Vector(n, bv_or(n, bv_srl(n, x, y), bv_sll(n, x, rev)))
  <2>1. lv_ror(V, U) = lv_or(lv_srl(V, U), lv_sll(V, WidthMinus(V, U)))
    BY DEF lv_ror
  <2> QED
    BY <1>6, <1>7, <1>8, <1>9, <2>1
<1> QED
  BY <1>10, <1>11 DEF bv_rol, bv_ror, rev

\* How many limbs the concatenation of two vectors has, and where their limbs lie in it.
LEMMA LimbsOfConcat ==
    ASSUME NEW n, Handled(n), NEW m, Handled(m), Handled(n + m)
    PROVE  LET q == n + m
               k == m % LimbBits
               N == LimbsFor(n)
               M == LimbsFor(m)
               Q == LimbsFor(q)
           IN  /\ N \in Nat \ {0} /\ M \in Nat \ {0} /\ Q \in Nat \ {0}
               /\ k \in 0 .. LimbBits - 1
               /\ M <= Q /\ Q <= N + M
               /\ k = 0 => /\ Q = N + M
                           /\ \A j \in 1 .. N : Pos(q, j) = Pos(n, j) + m
                           /\ \A i \in 1 .. M : Pos(q, N + i) = Pos(m, i) /\ Pos(m, i) + LimbBits <= m
               /\ k # 0 => /\ Pos(m, 1) = m - k
                           /\ \A i \in 1 .. M : Pos(q, (Q - M) + i) = Pos(m, i)
                           /\ \A j \in 1 .. Q - M :
                                Pos(q, j) = Pos(n, j - (Q - M) + N) + m + (LimbBits - k)
<1> DEFINE L == LimbBits
           q == n + m
           k == m % L
           N == LimbsFor(n)
           M == LimbsFor(m)
           Q == LimbsFor(q)
<1>1. L \in Nat \ {0} /\ n \in Nat \ {0} /\ m \in Nat \ {0} /\ q \in Nat
  BY LimbWidth
<1>2. N \in Nat \ {0} /\ M \in Nat \ {0} /\ Q \in Nat \ {0}
  BY Positions
<1>3. /\ n <= Pos(n, 1) + L /\ Pos(n, 1) < n /\ Pos(n, 1) \in Nat
      /\ m <= Pos(m, 1) + L /\ Pos(m, 1) < m /\ Pos(m, 1) \in Nat
      /\ q <= Pos(q, 1) + L /\ Pos(q, 1) < q /\ Pos(q, 1) \in Nat
  <2>1. 1 \in 1 .. N /\ 1 \in 1 .. M /\ 1 \in 1 .. Q
    BY <1>2
  <2> QED
    BY <2>1, Positions
<1>4. k \in 0 .. L - 1
  <2>1. m \in Int /\ L \in Nat \ {0}
    BY <1>1
  <2> QED
    BY <2>1, Division
<1> DEFINE lN == N * L
           lM == M * L
           lQ == Q * L
<1>5. \A i \in Int : /\ Pos(n, i) = lN - i * L /\ Pos(m, i) = lM - i * L
                     /\ Pos(q, i) = lQ - i * L /\ i * L \in Int
  <2> TAKE i \in Int
  <2>1. /\ Pos(n, i) = L * (N - i) /\ Pos(m, i) = L * (M - i) /\ Pos(q, i) = L * (Q - i)
    BY DEF Pos
  <2> HIDE DEF L, N, M, Q, q
  <2> QED
    BY <1>1, <1>2, <2>1
<1>6. lN \in Int /\ lM \in Int /\ lQ \in Int
  <2> HIDE DEF L, N, M, Q
  <2> QED
    BY <1>1, <1>2
<1>7. 1 * L = L
  BY <1>1
<1>8. /\ n <= lN /\ lN < n + L /\ m <= lM /\ lM < m + L /\ q <= lQ /\ lQ < q + L
  <2> HIDE DEF L, lN, lM, lQ, q, N, M, Q
  <2>1. Pos(n, 1) = lN - L /\ Pos(m, 1) = lM - L /\ Pos(q, 1) = lQ - L
    BY <1>5, <1>7
  <2> QED
    BY <1>1, <1>3, <1>6, <2>1
<1>9. \A i \in Int, j \in Int : i < j => i * L + L <= j * L
  BY <1>1, ProductGrows
<1>10. (N + M) * L = lN + lM /\ N + M \in Int
  <2> HIDE DEF L, N, M
  <2> QED
    BY <1>1, <1>2
<1>11. Q <= N + M
  <2> HIDE DEF L, N, M, Q
  <2>1. N + M < Q => (N + M) * L + L <= Q * L
    BY <1>2, <1>9, <1>10
  <2> HIDE DEF lN, lM, lQ
  <2> QED
    BY <1>1, <1>2, <1>6, <1>8, <1>10, <2>1 DEF lQ
<1>12. M <= Q
  <2> HIDE DEF L, N, M, Q
  <2>1. Q < M => Q * L + L <= M * L
    BY <1>2, <1>9
  <2>2. Q < M => lQ + L <= lM
    BY <2>1
  <2> HIDE DEF lN, lM, lQ
  <2> QED
    BY <1>1, <1>2, <1>6, <1>8, <2>2
<1>13. k = 0 => lM = m
  <2> SUFFICES ASSUME k = 0 PROVE lM = m
    OBVIOUS
  <2>1. m = L * M \/ k = m - Pos(m, 1)
    BY FirstLimbWidth
  <2>2. k # m - Pos(m, 1)
    <3> HIDE DEF k
    <3> QED
      BY <1>1, <1>3
  <2> HIDE DEF L, M
  <2> QED
    BY <1>1, <1>2, <2>1, <2>2
<1>14. k # 0 => lM = m + (L - k)
  <2> SUFFICES ASSUME k # 0 PROVE lM = m + (L - k)
    OBVIOUS
  <2>1. m # L * M
    <3> SUFFICES ASSUME m = L * M PROVE FALSE
      OBVIOUS
    <3>1. m = M * L + 0 /\ 0 \in 0 .. L - 1 /\ m \in Int /\ M \in Int
      BY <1>1, <1>2
    <3>2. m % L = 0
      <4> HIDE DEF L, M
      <4> QED
        BY <1>1, <3>1, QuotientAndRest
    <3> QED
      BY <3>2
  <2>2. k = m - Pos(m, 1)
    BY <2>1, FirstLimbWidth
  <2>3. Pos(m, 1) = lM - L
    BY <1>5, <1>7
  <2> HIDE DEF k, L, lM
  <2> QED
    BY <1>1, <1>4, <1>6, <2>2, <2>3
<1>15. ASSUME k = 0
       PROVE  /\ Q = N + M
              /\ \A j \in 1 .. N : Pos(q, j) = Pos(n, j) + m
              /\ \A i \in 1 .. M : Pos(q, N + i) = Pos(m, i) /\ Pos(m, i) + L <= m
  <2>1. Q = N + M
    <3> HIDE DEF L, N, M, Q
    <3>1. Q < N + M => Q * L + L <= (N + M) * L
      BY <1>2, <1>9, <1>10
    <3>2. Q < N + M => lQ + L <= lN + lM
      BY <1>10, <3>1
    <3> HIDE DEF lN, lM, lQ, k
    <3> QED
      BY <1>1, <1>2, <1>6, <1>8, <1>11, <1>13, <1>15, <3>2
  <2>2. lQ = lN + lM
    <3> HIDE DEF L, N, M, Q
    <3> QED
      BY <1>10, <2>1
  <2>3. ASSUME NEW j \in 1 .. N PROVE Pos(q, j) = Pos(n, j) + m
    <3>1. Pos(q, j) = lQ - j * L /\ Pos(n, j) = lN - j * L /\ j * L \in Int
      BY <1>5
    <3> DEFINE jl == j * L
    <3>2. Pos(q, j) = lQ - jl /\ Pos(n, j) = lN - jl /\ jl \in Int
      BY <3>1
    <3> HIDE DEF jl, lQ, lN, lM, k, q
    <3> QED
      BY <1>1, <1>6, <1>13, <1>15, <2>2, <3>2
  <2>4. ASSUME NEW i \in 1 .. M PROVE Pos(q, N + i) = Pos(m, i) /\ Pos(m, i) + L <= m
    <3>1. /\ Pos(q, N + i) = lQ - (N + i) * L /\ Pos(m, i) = lM - i * L /\ i * L \in Int
          /\ (N + i) * L = lN + i * L
      <4> HIDE DEF N, L, q, lQ, lM
      <4>1. (N + i) * L = N * L + i * L /\ N + i \in Int /\ i \in Int /\ i * L \in Int
        BY <1>1, <1>2
      <4>2. Pos(q, N + i) = lQ - (N + i) * L /\ Pos(m, i) = lM - i * L
        BY <1>5, <4>1
      <4> QED
        BY <4>1, <4>2
    <3>2. L <= i * L
      <4>1. i \in Int /\ (i = 1 \/ 1 < i)
        OBVIOUS
      <4>2. 1 < i => 1 * L + L <= i * L
        BY <1>9, <4>1
      <4> DEFINE il == i * L
      <4>3. (i = 1 => il = L) /\ (1 < i => L + L <= il) /\ il \in Int
        BY <1>7, <3>1, <4>2
      <4> HIDE DEF il, L
      <4>4. L <= il
        BY <1>1, <4>1, <4>3
      <4> QED
        BY <4>4 DEF il, L
    <3> DEFINE il == i * L
               jl == (N + i) * L
    <3>3. Pos(q, N + i) = lQ - jl /\ Pos(m, i) = lM - il /\ il \in Int /\ jl = lN + il /\ L <= il
      BY <3>1, <3>2
    <3> HIDE DEF il, jl, lQ, lN, lM, k, q, L
    <3> QED
      BY <1>1, <1>6, <1>13, <1>15, <2>2, <3>3
  <2> QED
    BY <2>1, <2>3, <2>4
<1>16. ASSUME k # 0
       PROVE  /\ Pos(m, 1) = m - k
              /\ \A i \in 1 .. M : Pos(q, (Q - M) + i) = Pos(m, i)
              /\ \A j \in 1 .. Q - M : Pos(q, j) = Pos(n, j - (Q - M) + N) + m + (L - k)
  <2>1. Pos(m, 1) = m - k
    <3>1. Pos(m, 1) = lM - L
      BY <1>5, <1>7
    <3> HIDE DEF k, L, lM
    <3> QED
      BY <1>1, <1>4, <1>6, <1>14, <1>16, <3>1
  <2>2. ASSUME NEW i \in 1 .. M PROVE Pos(q, (Q - M) + i) = Pos(m, i)
    <3>1. Pos(q, (Q - M) + i) = L * (Q - ((Q - M) + i)) /\ Pos(m, i) = L * (M - i)
      BY DEF Pos
    <3>2. Q - ((Q - M) + i) = M - i
      <4> HIDE DEF Q, M
      <4> QED
        BY <1>2
    <3> QED
      BY <3>1, <3>2
  <2>3. ASSUME NEW j \in 1 .. Q - M PROVE Pos(q, j) = Pos(n, j - (Q - M) + N) + m + (L - k)
    <3> DEFINE i == j - (Q - M) + N
               jl == j * L
               il == i * L
    <3>1. i \in Int /\ j \in Int /\ i = (j - (Q - M)) + N
      <4> HIDE DEF Q, M, N
      <4> QED
        BY <1>2
    <3>2. il = jl - (lQ - lM) + lN /\ jl \in Int
      <4> HIDE DEF Q, M, N, i, L
      <4>1. i * L = (j * L - (Q * L - M * L)) + N * L /\ j * L \in Int
        BY <1>1, <1>2, <3>1
      <4>2. Q * L \in Int /\ M * L \in Int /\ N * L \in Int
        BY <1>6
      <4> DEFINE a1 == Q * L
                 a2 == M * L
                 a3 == N * L
                 a4 == j * L
      <4>3. i * L = (a4 - (a1 - a2)) + a3 /\ a1 \in Int /\ a2 \in Int /\ a3 \in Int /\ a4 \in Int
        BY <4>1, <4>2
      <4> HIDE DEF a1, a2, a3, a4
      <4>4. i * L = a4 - (a1 - a2) + a3
        BY <4>3
      <4> QED
        BY <4>3, <4>4 DEF a1, a2, a3, a4
    <3>3. Pos(q, j) = lQ - jl /\ Pos(n, i) = lN - il
      BY <1>5, <3>1
    <3> HIDE DEF i, jl, il, lQ, lM, lN, L, k, q
    <3>4. il \in Int
      BY <1>6, <3>2
    <3>5. Pos(q, j) = Pos(n, i) + m + (L - k)
      BY <1>1, <1>4, <1>6, <1>14, <1>16, <3>2, <3>3, <3>4
    <3> QED
      BY <3>5 DEF i
  <2> QED
    BY <2>1, <2>2, <2>3
<1> QED
  BY <1>2, <1>4, <1>11, <1>12, <1>15, <1>16

\* The limbs of a concatenation whose second vector fills all of its limbs.
LEMMA ConcatAligned ==
    ASSUME NEW n, Handled(n), NEW m, Handled(m), Handled(n + m), m % LimbBits = 0,
           NEW x \in Values(n), NEW y \in Values(m)
    PROVE  LET c == bv_concat(m, x, y)
               f == [j \in 1 .. LimbsFor(n + m) |->
                       IF j <= LimbsFor(n) THEN Limbs(n, x)[j] ELSE Limbs(m, y)[j - LimbsFor(n)]]
           IN  /\ c \in Values(n + m)
               /\ [width |-> n + m, bits |-> <<>> \o f] = Vector(n + m, c)
<1> DEFINE L == LimbBits
           q == n + m
           N == LimbsFor(n)
           M == LimbsFor(m)
           Q == LimbsFor(q)
           X == Limbs(n, x)
           Y == Limbs(m, y)
           c == bv_concat(m, x, y)
           f == [j \in 1 .. Q |-> IF j <= N THEN X[j] ELSE Y[j - N]]
<1>1. /\ L \in Nat \ {0} /\ n \in Nat \ {0} /\ m \in Nat \ {0} /\ q \in Nat /\ q + L <= MaxBitWidth
      /\ MaxBitWidth \in Nat /\ n \in 0 .. MaxBitWidth /\ m \in 0 .. MaxBitWidth /\ q <= MaxBitWidth
  BY LimbWidth
<1>2. c \in Values(q)
  BY <1>1, ConcatFits
<1>3. /\ N \in Nat \ {0} /\ M \in Nat \ {0} /\ Q = N + M
      /\ \A j \in 1 .. N : Pos(q, j) = Pos(n, j) + m
      /\ \A i \in 1 .. M : Pos(q, N + i) = Pos(m, i) /\ Pos(m, i) + L <= m
  BY LimbsOfConcat
<1>4. \A u \in 0 .. MaxBitWidth : Bit(c, u) = IF u < m THEN Bit(y, u) ELSE Bit(x, u - m)
  <2> TAKE u \in 0 .. MaxBitWidth
  <2>1. n \in Nat /\ m \in Nat /\ n + m <= MaxBitWidth
    BY <1>1
  <2> QED
    BY <2>1, BitOfConcat
<1>5. ASSUME NEW j \in 1 .. Q
      PROVE  /\ f[j] \in 0 .. Base - 1
             /\ \A t \in 0 .. L - 1 :
                  Bit(f[j], t) = IF Pos(q, j) + t < q THEN Bit(c, Pos(q, j) + t) ELSE 0
  <2>1. CASE j <= N
    <3>1. j \in 1 .. N /\ f[j] = X[j]
      <4> HIDE DEF N, Q, X, Y
      <4> QED
        BY <1>3, <2>1
    <3>2. X[j] \in 0 .. Base - 1
      BY <3>1, LimbBitsOf
    <3>3. ASSUME NEW t \in 0 .. L - 1
          PROVE  Bit(X[j], t) = IF Pos(q, j) + t < q THEN Bit(c, Pos(q, j) + t) ELSE 0
      <4> DEFINE p == Pos(n, j)
                 u == Pos(q, j) + t
      <4>1. p \in Nat /\ Pos(q, j) = p + m
        BY <1>3, <3>1, Positions
      <4>2. Bit(X[j], t) = IF p + t < n THEN Bit(x, p + t) ELSE 0
        BY <3>1, LimbBitsOf
      <4>3. u \in Nat /\ ~(u < m) /\ u - m = p + t /\ (u < q <=> p + t < n)
        <5> HIDE DEF p
        <5> QED
          BY <1>1, <4>1
      <4>4. u < q => u \in 0 .. MaxBitWidth
        <5> HIDE DEF u, q
        <5> QED
          BY <1>1, <4>3
      <4>5. u < q => Bit(c, u) = Bit(x, p + t)
        <5> HIDE DEF u, p, q, c
        <5> QED
          BY <1>4, <4>3, <4>4
      <4> HIDE DEF u, p, q, c, X
      <4>6. Bit(X[j], t) = IF u < q THEN Bit(c, u) ELSE 0
        BY <4>2, <4>3, <4>5
      <4> QED
        BY <4>6 DEF u
    <3> HIDE DEF f, X
    <3> QED
      BY <3>1, <3>2, <3>3
  <2>2. CASE ~(j <= N)
    <3> DEFINE i == j - N
    <3>1. i \in 1 .. M /\ f[j] = Y[i] /\ N + i = j
      <4> HIDE DEF N, Q, X, Y, M
      <4> QED
        BY <1>3, <2>2
    <3>2. Y[i] \in 0 .. Base - 1
      BY <3>1, LimbBitsOf
    <3>3. ASSUME NEW t \in 0 .. L - 1
          PROVE  Bit(Y[i], t) = IF Pos(q, j) + t < q THEN Bit(c, Pos(q, j) + t) ELSE 0
      <4> DEFINE p == Pos(m, i)
                 u == p + t
      <4>1. p \in Nat /\ Pos(q, j) = p /\ p + L <= m
        <5>1. p \in Nat
          BY <3>1, Positions
        <5> QED
          BY <1>3, <3>1, <5>1
      <4>2. Bit(Y[i], t) = IF u < m THEN Bit(y, u) ELSE 0
        BY <3>1, LimbBitsOf
      <4>3. u \in 0 .. MaxBitWidth /\ u < m /\ u < q
        <5> HIDE DEF p, L
        <5> QED
          BY <1>1, <4>1
      <4>4. Bit(c, u) = Bit(y, u)
        BY <1>4, <4>3
      <4> HIDE DEF p, c, q, Y
      <4> QED
        BY <4>1, <4>2, <4>3, <4>4 DEF u
    <3> HIDE DEF f, Y, i
    <3> QED
      BY <3>1, <3>2, <3>3
  <2> QED
    BY <2>1, <2>2
<1>6. f \in [1 .. Q -> 0 .. Base - 1]
  <2>1. f = [j \in 1 .. Q |-> f[j]]
    OBVIOUS
  <2> HIDE DEF f
  <2> QED
    BY <1>5, <2>1
<1> HIDE DEF f
<1>7. [width |-> q, bits |-> <<>> \o f] = Vector(q, c)
  BY <1>2, <1>5, <1>6, Unmasked
<1> QED
  BY <1>2, <1>7 DEF f

\* A limb whose bits below k are those of one and whose other bits are those of another.
LEMMA Joined ==
    ASSUME NEW n, Handled(n), NEW Y \in 0 .. Base - 1, NEW X \in 0 .. Base - 1,
           NEW k \in 0 .. LimbBits - 1, \A t \in k .. LimbBits - 1 : Bit(Y, t) = 0
    PROVE  LET Z == LimbOr(Y, (X * 2 ^ k) % Base)
           IN  /\ Z \in 0 .. Base - 1
               /\ \A t \in 0 .. LimbBits - 1 :
                    Bit(Z, t) = IF t < k THEN Bit(Y, t) ELSE Bit(X, t - k)
<1> DEFINE e == 2 ^ k
           U == (X * e) % Base
           Z == LimbOr(Y, U)
<1>1. /\ LimbBits \in Nat \ {0} /\ LimbBits \in 0 .. MaxBitWidth /\ Base = 2 ^ LimbBits
      /\ Base \in Nat \ {0} /\ MaxBitWidth \in Nat /\ k \in 0 .. MaxBitWidth
  BY LimbWidth
<1>2. e \in Nat \ {0} /\ X \in Nat
  BY <1>1, PowerIs
<1>3. X * e \in Nat
  <2> HIDE DEF e
  <2> QED
    BY <1>2
<1>4. U \in 0 .. Base - 1
  <2> DEFINE z == X * e
  <2>1. z \in Nat
    BY <1>3
  <2> HIDE DEF z
  <2> QED
    BY <1>1, <2>1, DivMod DEF z
<1>5. ASSUME NEW t \in 0 .. LimbBits - 1
      PROVE  Bit(U, t) = IF t >= k THEN Bit(X, t - k) ELSE 0
  <2> DEFINE z == X * e
  <2>1. Bit(z % 2 ^ LimbBits, t) = Bit(z, t)
    <3>1. z \in Int
      BY <1>3
    <3> HIDE DEF z
    <3> QED
      BY <1>1, <3>1, BitOfRest
  <2>2. t \in 0 .. MaxBitWidth /\ X \in Int
    BY <1>1, <1>2
  <2>3. Bit(X * 2 ^ k, t) = IF t >= k THEN Bit(X, t - k) ELSE 0
    BY <1>1, <2>2, BitOfProduct
  <2> QED
    BY <1>1, <2>1, <2>3
<1> HIDE DEF U
<1>6. /\ Z \in 0 .. Base - 1
      /\ \A t \in 0 .. LimbBits - 1 :
           /\ Bit(Y, t) \in {0, 1} /\ Bit(U, t) \in {0, 1}
           /\ Bit(Z, t) = Bit(Y, t) + Bit(U, t) - Bit(Y, t) * Bit(U, t)
  BY <1>4, LimbConnectives
<1> HIDE DEF Z
<1>7. ASSUME NEW t \in 0 .. LimbBits - 1
      PROVE  Bit(Z, t) = IF t < k THEN Bit(Y, t) ELSE Bit(X, t - k)
  <2> DEFINE p == Bit(Y, t)
             s == Bit(U, t)
  <2>1. p \in {0, 1} /\ s \in {0, 1} /\ Bit(Z, t) = p + s - p * s
    BY <1>6
  <2>2. s = IF t >= k THEN Bit(X, t - k) ELSE 0
    BY <1>5
  <2>3. t \in Nat /\ k \in Nat
    BY <1>1
  <2>4. CASE t < k
    <3>1. s = 0
      BY <2>2, <2>3, <2>4
    <3> HIDE DEF p, s
    <3>2. Bit(Z, t) = p
      BY <2>1, <3>1
    <3> QED
      BY <2>4, <3>2 DEF p
  <2>5. CASE ~(t < k)
    <3>1. t \in k .. LimbBits - 1 /\ t >= k
      BY <1>1, <2>3, <2>5
    <3>2. p = 0 /\ s = Bit(X, t - k)
      BY <2>2, <3>1
    <3> HIDE DEF p, s
    <3>3. Bit(Z, t) = s
      BY <2>1, <3>2
    <3> QED
      BY <2>5, <3>2, <3>3
  <2> QED
    BY <2>4, <2>5
<1> QED
  BY <1>6, <1>7 DEF Z, U

\* concat: the limbs of the second vector come last, those of the first one are shifted
\* into the spare bits above them.
LEMMA ConcatOnLimbs ==
    ASSUME NEW n, Handled(n), NEW m, Handled(m), Handled(n + m),
           NEW x \in Values(n), NEW y \in Values(m)
    PROVE  /\ lv_concat(Vector(n, x), Vector(m, y)) = Vector(n + m, bv_concat(m, x, y))
           /\ bv_concat(m, x, y) \in Values(n + m)
<1> DEFINE L == LimbBits
           V == Vector(n, x)
           U == Vector(m, y)
           q == n + m
           k == m % L
           N == LimbsFor(n)
           M == LimbsFor(m)
           Q == LimbsFor(q)
           X == Limbs(n, x)
           Y == Limbs(m, y)
           c == bv_concat(m, x, y)
<1>1. /\ L \in Nat \ {0} /\ n \in Nat \ {0} /\ m \in Nat \ {0} /\ q \in Nat /\ q + L <= MaxBitWidth
      /\ MaxBitWidth \in Nat /\ n \in 0 .. MaxBitWidth /\ m \in 0 .. MaxBitWidth /\ q <= MaxBitWidth
      /\ Base \in Nat \ {0} /\ L \in 0 .. MaxBitWidth
  BY LimbWidth
<1>2. c \in Values(q)
  BY <1>1, ConcatFits
<1>3. /\ V.width = n /\ V.bits = X /\ NumLimbs(V) = N
      /\ U.width = m /\ U.bits = Y /\ NumLimbs(U) = M
  BY VectorParts
<1>4. CASE k = 0
  <2> DEFINE f == [j \in 1 .. Q |-> IF j <= N THEN X[j] ELSE Y[j - N]]
  <2>1. c \in Values(q) /\ [width |-> q, bits |-> <<>> \o f] = Vector(q, c)
    BY <1>4, ConcatAligned
  <2>2. X \o Y = <<>> \o f
    <3>1. N \in Nat /\ M \in Nat /\ Q = N + M
      BY <1>4, LimbsOfConcat
    <3>2. X \in [1 .. N -> 0 .. Base - 1] /\ Y \in [1 .. M -> 0 .. Base - 1]
      BY VectorIs
    <3>3. X \in Seq(0 .. Base - 1) /\ Len(X) = N /\ Y \in Seq(0 .. Base - 1) /\ Len(Y) = M
      <4> HIDE DEF X, Y, N, M
      <4> QED
        BY <3>1, <3>2, AsTuple
    <3>4. \A j \in 1 .. Q : f[j] \in 0 .. Base - 1
      <4> TAKE j \in 1 .. Q
      <4> HIDE DEF X, Y, N, M, Q
      <4>1. CASE j <= N
        <5>1. j \in 1 .. N
          BY <3>1, <4>1
        <5> QED
          BY <3>2, <4>1, <5>1
      <4>2. CASE ~(j <= N)
        <5>1. j - N \in 1 .. M
          BY <3>1, <4>2
        <5> QED
          BY <3>2, <4>2, <5>1
      <4> QED
        BY <4>1, <4>2
    <3>5. f \in [1 .. Q -> 0 .. Base - 1] /\ Q \in Nat
      <4>1. f = [j \in 1 .. Q |-> f[j]]
        OBVIOUS
      <4> HIDE DEF f, Q
      <4> QED
        BY <3>1, <3>4, <4>1
    <3>6. <<>> \o f = f
      <4> HIDE DEF f, Q
      <4> QED
        BY <3>5, AsTuple
    <3>7. X \o Y = f
      <4> HIDE DEF X, Y, N, M, Q
      <4> DEFINE Z == X \o Y
      <4>1. /\ Z \in Seq(0 .. Base - 1) /\ Len(Z) = N + M
            /\ \A j \in 1 .. N + M : Z[j] = IF j <= N THEN X[j] ELSE Y[j - N]
        BY <3>3, ConcatProperties
      <4> HIDE DEF Z
      <4>2. Z = [j \in 1 .. N + M |-> Z[j]]
        BY <4>1
      <4>3. Z = [j \in 1 .. N + M |-> IF j <= N THEN X[j] ELSE Y[j - N]]
        BY <4>1, <4>2
      <4> QED
        BY <3>1, <4>3 DEF Z
    <3> QED
      BY <3>6, <3>7
  <2>3. lv_concat(V, U) = [width |-> q, bits |-> X \o Y]
    <3> HIDE DEF V, U, X, Y
    <3> QED
      BY <1>3, <1>4 DEF lv_concat, lv_concat_aligned
  <2> QED
    BY <2>1, <2>2, <2>3
<1>5. CASE k # 0
  <2> DEFINE high(i) == IF i < 1 THEN 0 ELSE (X[i] * 2 ^ k) % Base
             low(i)  == X[i] \div 2 ^ (L - k)
             limb(t) == CASE t > 0 -> Y[t + 1]
                          [] t = 0 -> LimbOr(Y[1], high(N))
                          [] OTHER -> LimbOr(low(N + t + 1), high(N + t))
             f == [j \in 1 .. Q |-> limb(j - 1 - (Q - M))]
  <2>1. lv_concat(V, U) = [width |-> q, bits |-> <<>> \o f]
    <3> HIDE DEF V, U, X, Y, N, M
    <3> QED
      BY <1>3, <1>5 DEF lv_concat, Build
  <2>2. /\ N \in Nat \ {0} /\ M \in Nat \ {0} /\ Q \in Nat \ {0} /\ M <= Q /\ Q <= N + M
        /\ k \in 0 .. L - 1 /\ Pos(m, 1) = m - k
        /\ \A i \in 1 .. M : Pos(q, (Q - M) + i) = Pos(m, i)
        /\ \A j \in 1 .. Q - M : Pos(q, j) = Pos(n, j - (Q - M) + N) + m + (L - k)
    BY <1>5, LimbsOfConcat
  <2>3. ASSUME NEW u \in Nat, NEW v,
               \/ u < m /\ v = Bit(y, u)
               \/ ~(u < m) /\ v = IF u - m < n THEN Bit(x, u - m) ELSE 0
        PROVE  v = IF u < q THEN Bit(c, u) ELSE 0
    <3>1. u < m => u < q
      <4> QED
        BY <1>1
    <3>2. ~(u < m) => (u < q <=> u - m < n)
      BY <1>1
    <3>3. u < q => Bit(c, u) = IF u < m THEN Bit(y, u) ELSE Bit(x, u - m)
      <4> SUFFICES ASSUME u < q PROVE Bit(c, u) = IF u < m THEN Bit(y, u) ELSE Bit(x, u - m)
        OBVIOUS
      <4>1. n \in Nat /\ m \in Nat /\ n + m <= MaxBitWidth /\ u \in 0 .. MaxBitWidth
        BY <1>1
      <4> QED
        BY <4>1, BitOfConcat
    <3> HIDE DEF q, c
    <3> QED
      BY <2>3, <3>1, <3>2, <3>3
  <2> HIDE DEF c
  <2>4. ASSUME NEW j \in 1 .. Q
        PROVE  /\ f[j] \in 0 .. Base - 1
               /\ \A t \in 0 .. L - 1 :
                    Bit(f[j], t) = IF Pos(q, j) + t < q THEN Bit(c, Pos(q, j) + t) ELSE 0
    <3> DEFINE g == j - 1 - (Q - M)
    <3>1. g \in Int /\ j \in Int
      <4> HIDE DEF Q, M
      <4> QED
        BY <2>2
    <3>2. f[j] = limb(g)
      OBVIOUS
    <3>3. CASE g > 0
      <4> DEFINE i == g + 1
      <4>1. f[j] = Y[i]
        <5> HIDE DEF f, g, high, low, Y
        <5> QED
          BY <3>1, <3>2, <3>3
      <4>2. i \in 1 .. M /\ 1 \in 1 .. M /\ 1 < i /\ j = (Q - M) + i
        <5> HIDE DEF Q, M
        <5> QED
          BY <2>2, <3>1, <3>3
      <4>3. Pos(q, j) = Pos(m, i) /\ Pos(m, i) \in Nat /\ Pos(m, i) + L <= Pos(m, 1) /\ Pos(m, 1) < m
            /\ Pos(m, 1) \in Nat
        <5>1. Pos(q, j) = Pos(m, i)
          BY <2>2, <4>2
        <5> QED
          BY <4>2, <5>1, Positions
      <4>4. Y[i] \in 0 .. Base - 1
        BY <4>2, LimbBitsOf
      <4>5. ASSUME NEW t \in 0 .. L - 1
            PROVE  Bit(Y[i], t) = IF Pos(q, j) + t < q THEN Bit(c, Pos(q, j) + t) ELSE 0
        <5> DEFINE p == Pos(m, i)
                   u == p + t
        <5>1. Bit(Y[i], t) = IF u < m THEN Bit(y, u) ELSE 0
          BY <4>2, LimbBitsOf
        <5>2. u \in Nat /\ u < m
          <6> HIDE DEF p, L, i
          <6> QED
            BY <1>1, <4>3 DEF p
        <5>3. Bit(Y[i], t) = IF u < q THEN Bit(c, u) ELSE 0
          <6> HIDE DEF u, Y, q, i
          <6> QED
            BY <2>3, <5>1, <5>2
        <5> QED
          BY <4>3, <5>3
      <4> HIDE DEF f, Y, i
      <4> QED
        BY <4>1, <4>4, <4>5
    <3>4. CASE g = 0
      <4> DEFINE Z == LimbOr(Y[1], (X[N] * 2 ^ k) % Base)
      <4>1. f[j] = Z
        <5>1. ~(N < 1)
          BY <2>2
        <5>2. high(N) = (X[N] * 2 ^ k) % Base
          BY <5>1
        <5>3. f[j] = LimbOr(Y[1], high(N))
          <6> HIDE DEF f, g, high, low, Y
          <6> QED
            BY <3>1, <3>2, <3>4
        <5> QED
          BY <5>2, <5>3
      <4>2. 1 \in 1 .. M /\ N \in 1 .. N /\ j = (Q - M) + 1
        <5> HIDE DEF Q, M, N
        <5> QED
          BY <2>2, <3>1, <3>4
      <4>3. Pos(q, j) = m - k /\ Pos(n, N) = 0
        <5>1. Pos(q, j) = Pos(m, 1)
          BY <2>2, <4>2
        <5> QED
          BY <2>2, <5>1, Positions
      <4>4. Y[1] \in 0 .. Base - 1 /\ X[N] \in 0 .. Base - 1
        BY <4>2, LimbBitsOf
      <4>5. \A t \in 0 .. L - 1 : Bit(Y[1], t) = IF (m - k) + t < m THEN Bit(y, (m - k) + t) ELSE 0
        BY <2>2, <4>2, LimbBitsOf
      <4>6. \A t \in 0 .. L - 1 : Bit(X[N], t) = IF t < n THEN Bit(x, t) ELSE 0
        <5> TAKE t \in 0 .. L - 1
        <5>1. Bit(X[N], t) = IF Pos(n, N) + t < n THEN Bit(x, Pos(n, N) + t) ELSE 0
          BY <4>2, LimbBitsOf
        <5>2. Pos(n, N) + t = t
          BY <4>3
        <5> QED
          BY <5>1, <5>2
      <4>7. /\ Z \in 0 .. Base - 1
            /\ \A t \in 0 .. L - 1 : Bit(Z, t) = IF t < k THEN Bit(Y[1], t) ELSE Bit(X[N], t - k)
        <5>1. \A t \in k .. L - 1 : Bit(Y[1], t) = 0
          <6> TAKE t \in k .. L - 1
          <6>1. t \in 0 .. L - 1 /\ ~((m - k) + t < m)
            <7> HIDE DEF k, L
            <7> QED
              BY <1>1, <2>2
          <6> QED
            BY <4>5, <6>1
        <5> HIDE DEF X, Y, k, N
        <5> QED
          BY <2>2, <4>4, <5>1, Joined
      <4>8. ASSUME NEW t \in 0 .. L - 1
            PROVE  Bit(Z, t) = IF Pos(q, j) + t < q THEN Bit(c, Pos(q, j) + t) ELSE 0
        <5> DEFINE u == (m - k) + t
        <5>1. k \in Nat /\ k < L /\ t \in Nat /\ u \in Int /\ (u < m <=> t < k) /\ u - m = t - k
          <6> HIDE DEF k, L
          <6> QED
            BY <1>1, <2>2
        <5>2. u \in Nat
          <6>1. m - k \in Nat
            <7>1. m - k = Pos(m, 1) /\ Pos(m, 1) \in Nat
              BY <2>2, <4>2, Positions
            <7> QED
              BY <7>1
          <6> HIDE DEF k
          <6> QED
            BY <5>1, <6>1
        <5>3. Bit(Z, t) = IF u < q THEN Bit(c, u) ELSE 0
          <6>1. CASE t < k
            <7>1. Bit(Z, t) = Bit(Y[1], t)
              <8> HIDE DEF Z, Y, X, k, L, N
              <8> QED
                BY <4>7, <6>1
            <7>2. u < m /\ Bit(Z, t) = Bit(y, u)
              <8> HIDE DEF Z, Y, X, k, L, N
              <8> QED
                BY <4>5, <5>1, <6>1, <7>1
            <7> HIDE DEF u, Z, q
            <7> QED
              BY <2>3, <5>2, <7>2
          <6>2. CASE ~(t < k)
            <7>1. t - k \in 0 .. L - 1
              <8> HIDE DEF k, L
              <8> QED
                BY <1>1, <5>1, <6>2
            <7>2. Bit(Z, t) = IF t - k < n THEN Bit(x, t - k) ELSE 0
              <8> HIDE DEF Z, Y, X, k, L, N
              <8> QED
                BY <4>6, <4>7, <6>2, <7>1
            <7>3. ~(u < m) /\ Bit(Z, t) = IF u - m < n THEN Bit(x, u - m) ELSE 0
              <8> HIDE DEF Z, k, L, u
              <8> QED
                BY <5>1, <6>2, <7>2
            <7> HIDE DEF u, Z, q
            <7> QED
              BY <2>3, <5>2, <7>3
          <6> QED
            BY <6>1, <6>2
        <5> QED
          BY <4>3, <5>3
      <4> HIDE DEF f, Z
      <4> QED
        BY <4>1, <4>7, <4>8
    <3>5. CASE g < 0
      <4> DEFINE i == j - (Q - M) + N
                 P == IF i - 1 < 1 THEN 0 ELSE X[i - 1]
                 Z == LimbOr(X[i] \div 2 ^ (L - k), (P * 2 ^ k) % Base)
                 p == Pos(n, i)
      <4>1. i \in 1 .. N /\ j \in 1 .. Q - M /\ N + g + 1 = i /\ N + g = i - 1 /\ i - 1 \in Int
            /\ (~(i - 1 < 1) => i - 1 \in 1 .. N /\ i \in 2 .. N)
        <5> HIDE DEF Q, M, N
        <5> QED
          BY <2>2, <3>1, <3>5
      <4>2. Pos(q, j) = p + m + (L - k) /\ p \in Nat
        <5>1. p \in Nat
          BY <4>1, Positions
        <5> QED
          BY <2>2, <4>1, <5>1
      <4>3. f[j] = Z
        <5>1. f[j] = LimbOr(low(N + g + 1), high(N + g))
          <6>1. ~(g > 0) /\ g # 0
            <7> HIDE DEF g
            <7> QED
              BY <3>1, <3>5
          <6> HIDE DEF f, g, high, low, Y
          <6> QED
            BY <3>2, <6>1
        <5>2. f[j] = LimbOr(low(i), high(i - 1))
          <6> HIDE DEF f, g, high, low, Y, i
          <6> QED
            BY <4>1, <5>1
        <5>3. high(i - 1) = (P * 2 ^ k) % Base
          <6>1. CASE i - 1 < 1
            <7>1. 2 ^ k \in Nat /\ (0 * 2 ^ k) % Base = 0
              <8> DEFINE e == 2 ^ k
              <8>1. k \in 0 .. MaxBitWidth
                <9> HIDE DEF k, L
                <9> QED
                  BY <1>1, <2>2
              <8>2. e \in Nat \ {0}
                <9> HIDE DEF k
                <9> QED
                  BY <8>1, PowerIs
              <8> HIDE DEF e
              <8>3. 0 * e = 0 /\ 0 % Base = 0
                BY <1>1, <8>2
              <8> QED
                BY <8>2, <8>3 DEF e
            <7> HIDE DEF X, i, k
            <7> QED
              BY <6>1, <7>1
          <6>2. CASE ~(i - 1 < 1)
            BY <6>2
          <6> QED
            BY <6>1, <6>2
        <5> HIDE DEF f, P, X, i, high
        <5> QED
          BY <5>2, <5>3
      <4>4. X[i] \in 0 .. Base - 1 /\ P \in 0 .. Base - 1
        <5>1. X[i] \in 0 .. Base - 1
          BY <4>1, LimbBitsOf
        <5>2. ~(i - 1 < 1) => X[i - 1] \in 0 .. Base - 1
          BY <4>1, LimbBitsOf
        <5> HIDE DEF X, i
        <5> QED
          BY <1>1, <5>1, <5>2
      <4>5. /\ Z \in 0 .. Base - 1
            /\ \A t \in 0 .. L - 1 :
                 Bit(Z, t) = IF t >= k THEN Bit(P, t - k) ELSE Bit(X[i], t + L - k)
        <5> DEFINE W == X[i]
        <5> HIDE DEF X, P, i, k, W
        <5>0. W \in 0 .. Base - 1 /\ P \in 0 .. Base - 1
          BY <4>4 DEF W
        <5>1. LET h == (P * 2 ^ k) % Base
                  l == IF k = 0 THEN 0 ELSE W \div 2 ^ (LimbBits - k)
              IN  /\ LimbOr(l, h) \in 0 .. Base - 1
                  /\ \A t \in 0 .. LimbBits - 1 :
                       Bit(LimbOr(l, h), t) =
                         IF t >= k THEN Bit(P, t - k) ELSE Bit(W, t + LimbBits - k)
          BY <2>2, <5>0, MovedUp
        <5> QED
          BY <1>5, <5>1 DEF W
      <4>6. ASSUME NEW t \in 0 .. L - 1
            PROVE  Bit(Z, t) = IF Pos(q, j) + t < q THEN Bit(c, Pos(q, j) + t) ELSE 0
        <5> DEFINE u == p + m + (L - k) + t
                   d == u - m
        <5>1. k \in Nat /\ k < L /\ t \in Nat /\ u \in Nat /\ ~(u < m) /\ d = p + (L - k) + t
              /\ d \in Nat /\ t + L - k = (t + L) - k
          <6> HIDE DEF k, L, p
          <6> QED
            BY <1>1, <2>2, <4>2
        <5>2. Bit(Z, t) = IF d < n THEN Bit(x, d) ELSE 0
          <6>1. CASE t < k
            <7> DEFINE s == t + L - k
            <7>1. s \in 0 .. L - 1 /\ p + s = d /\ ~(t >= k)
              <8> HIDE DEF k, L, p, d
              <8> QED
                BY <1>1, <4>2, <5>1, <6>1
            <7>2. Bit(X[i], s) = IF p + s < n THEN Bit(x, p + s) ELSE 0
              BY <4>1, <7>1, LimbBitsOf
            <7>3. Bit(Z, t) = Bit(X[i], s)
              <8> HIDE DEF Z, X, P, i, k, L
              <8> QED
                BY <4>5, <7>1
            <7> HIDE DEF Z, X, s, d, p
            <7> QED
              BY <7>1, <7>2, <7>3
          <6>2. CASE ~(t < k)
            <7> DEFINE s == t - k
            <7>1. s \in 0 .. L - 1 /\ t >= k /\ s \in Nat
              <8> HIDE DEF k, L
              <8> QED
                BY <1>1, <5>1, <6>2
            <7>2. Bit(Z, t) = Bit(P, s)
              <8> HIDE DEF Z, X, P, i, k, L
              <8> QED
                BY <4>5, <7>1
            <7>3. CASE i - 1 < 1
              <8>1. i = 1 /\ P = 0 /\ Bit(0, s) = 0
                <9>1. i = 1 /\ P = 0
                  BY <4>1, <7>3
                <9>2. s \in 0 .. MaxBitWidth
                  <10> HIDE DEF s, L
                  <10> QED
                    BY <1>1, <7>1
                <9>3. Bit(0, s) = 0
                  <10> HIDE DEF s
                  <10> QED
                    BY <9>2, BitOfZero
                <9> QED
                  BY <9>1, <9>3
              <8>2. n <= p + L
                BY <8>1, Positions
              <8>3. ~(d < n)
                <9> HIDE DEF k, L, p, d
                <9> QED
                  BY <1>1, <4>2, <5>1, <6>2, <8>2
              <8> HIDE DEF Z, P, s, d
              <8> QED
                BY <7>2, <8>1, <8>3
            <7>4. CASE ~(i - 1 < 1)
              <8> DEFINE r == Pos(n, i - 1)
              <8>1. i - 1 \in 1 .. N /\ i \in 2 .. N /\ P = X[i - 1]
                BY <4>1, <7>4
              <8>2. r = p + L
                BY <8>1, Positions
              <8>3. Bit(X[i - 1], s) = IF r + s < n THEN Bit(x, r + s) ELSE 0
                BY <7>1, <8>1, LimbBitsOf
              <8>4. r + s = d
                <9>1. s = t - k
                  OBVIOUS
                <9> HIDE DEF k, L, p, d, r, s
                <9> QED
                  BY <1>1, <4>2, <5>1, <8>2, <9>1
              <8> HIDE DEF Z, P, s, d, X, r
              <8> QED
                BY <7>2, <8>1, <8>3, <8>4
            <7> QED
              BY <7>3, <7>4
          <6> QED
            BY <6>1, <6>2
        <5>3. Bit(Z, t) = IF u < q THEN Bit(c, u) ELSE 0
          <6>1. Bit(Z, t) = IF u - m < n THEN Bit(x, u - m) ELSE 0
            BY <5>2
          <6> HIDE DEF u, Z, q
          <6> QED
            BY <2>3, <5>1, <6>1
        <5>4. Pos(q, j) + t = u
          BY <4>2
        <5> HIDE DEF u, Z, q
        <5> QED
          BY <5>3, <5>4
      <4> HIDE DEF f, Z
      <4> QED
        BY <4>3, <4>5, <4>6
    <3> HIDE DEF f, g
    <3> QED
      BY <3>1, <3>3, <3>4, <3>5
  <2>5. f \in [1 .. Q -> 0 .. Base - 1]
    <3>1. f = [j \in 1 .. Q |-> f[j]]
      OBVIOUS
    <3> HIDE DEF f
    <3> QED
      BY <2>4, <3>1
  <2> HIDE DEF f
  <2>6. [width |-> q, bits |-> <<>> \o f] = Vector(q, c)
    BY <1>2, <2>4, <2>5, Unmasked
  <2> QED
    BY <1>2, <2>1, <2>6 DEF c
<1> QED
  BY <1>4, <1>5

\* sext: the vector behind as many copies of its sign.
LEMMA SignExtensionOnLimbs ==
    ASSUME NEW n, Handled(n), NEW m, Handled(m), Handled(n + m), NEW x \in Values(n)
    PROVE  lv_sext(Vector(n, x), m) = Vector(n + m, bv_sext(n, x, m))
<1> DEFINE V == Vector(n, x)
           s == Sign(n, x)
           h == IF s = 1 THEN 2 ^ m - 1 ELSE 0
<1>1. n \in Nat \ {0} /\ m \in Nat \ {0} /\ n - 1 \in 0 .. n - 1 /\ m + n = n + m
  BY LimbWidth
<1>2. SignOf(V) = s
  <2> DEFINE p == n - 1
  <2>1. get_bit(V, p) = Bit(x, p)
    <3> HIDE DEF p
    <3> QED
      BY <1>1, GetBit DEF p
  <2>2. V.width = n
    BY VectorParts
  <2> HIDE DEF V
  <2> QED
    BY <2>1, <2>2 DEF SignOf, Sign
<1>3. lv_ones(m) = Vector(m, 2 ^ m - 1) /\ lv_new(m) = Vector(m, 0)
      /\ 2 ^ m - 1 \in Values(m) /\ 0 \in Values(m)
  BY ConstantsOnLimbs, NewIsZero, OnesFit
<1>4. (IF SignOf(V) = 1 THEN lv_ones(m) ELSE lv_new(m)) = Vector(m, h) /\ h \in Values(m)
  <2> HIDE DEF V, s
  <2> QED
    BY <1>2, <1>3
<1>5. Handled(m + n)
  BY <1>1
<1> HIDE DEF h
<1>6. lv_concat(Vector(m, h), V) = Vector(m + n, bv_concat(n, h, x))
  BY <1>4, <1>5, ConcatOnLimbs
<1> QED
  BY <1>1, <1>4, <1>6 DEF lv_sext, bv_sext, h

----------------------------------------------------------------------------

\* Shifts and rotations by every amount, concatenations, extensions and slices move the
\* bits over the limbs' boundaries to where they belong, for every width and every width
\* of a limb.  A width is less than 2 ^ 64, and a shift is cut to an unsigned int, which
\* is as wide as a limb or no narrower than the vectors.
THEOREM LimbShiftsAndPartsRight ==
    ASSUME 2 * MaxWidth + DoubleBits <= MaxBitWidth, MaxWidth < 2 ^ DoubleBits,
           LimbBits = WordBits \/ (MaxWidth <= WordBits /\ WordBits <= MaxBitWidth)
    PROVE  Spec => []LimbShiftsAndParts
<1>0. MaxWidth \in Nat \ {0} /\ MaxBitWidth \in Nat /\ DoubleBits \in Nat /\ WordBits \in Nat
  BY MaxWidthAssumption, MaxBitWidthAssumption, LimbBitsAssumption, WordBitsAssumption DEF DoubleBits
<1>1. 1 <= MaxBitWidth
  BY <1>0
<1>2. Spec => []Operands
  BY <1>1, OperandsInvariant
<1>3. Operands => LimbShiftsAndParts
  <2> SUFFICES ASSUME Operands PROVE LimbShiftsAndParts
    OBVIOUS
  <2>1. w \in 1 .. MaxWidth /\ a \in Values(w) /\ b \in Values(w)
    BY DEF Operands
  <2>2. Handled(w) /\ w \in Nat \ {0} /\ SameWords(w) /\ w < 2 ^ DoubleBits /\ w \in 1 .. MaxBitWidth
    <3>1. Handled(w) /\ w \in Nat \ {0} /\ w \in 1 .. MaxBitWidth
      BY <1>0, <2>1 DEF Handled
    <3>2. SameWords(w)
      BY <1>0, <2>1 DEF SameWords
    <3>3. 2 ^ DoubleBits \in Nat
      <4>1. DoubleBits \in 0 .. MaxBitWidth
        BY <1>0
      <4> QED
        BY <4>1, PowerIs
    <3>4. w < 2 ^ DoubleBits
      <4> DEFINE e == 2 ^ DoubleBits
      <4>1. e \in Nat /\ MaxWidth < e
        BY <3>3
      <4> HIDE DEF e
      <4>2. w < e
        BY <1>0, <2>1, <4>1
      <4> QED
        BY <4>2 DEF e
    <3> QED
      BY <3>1, <3>2, <3>4
  <2>3. lv_sll(A, B) = Vector(w, bv_sll(w, a, b))
    BY <2>1, <2>2, SllOnLimbs DEF A, B
  <2>4. lv_srl(A, B) = Vector(w, bv_srl(w, a, b))
    BY <2>1, <2>2, SrlOnLimbs DEF A, B
  <2>5. lv_sra(A, B) = Vector(w, bv_sra(w, a, b))
    BY <2>1, <2>2, SraOnLimbs DEF A, B
  <2>6. lv_rol(A, B) = Vector(w, bv_rol(w, a, b)) /\ lv_ror(A, B) = Vector(w, bv_ror(w, a, b))
    BY <2>1, <2>2, RotationsOnLimbs DEF A, B
  <2>7. ASSUME NEW v \in 1 .. w
        PROVE  LET n == b % 2 ^ v
               IN  /\ lv_concat(A, Vector(v, n)) = Vector(w + v, bv_concat(v, a, n))
                   /\ lv_concat(Vector(v, n), A) = Vector(w + v, bv_concat(w, n, a))
                   /\ lv_uext(A, v) = Vector(w + v, a)
                   /\ lv_sext(A, v) = Vector(w + v, bv_sext(w, a, v))
    <3> DEFINE n == b % 2 ^ v
    <3>1. /\ v \in Nat /\ Handled(v) /\ Handled(w + v) /\ Handled(v + w) /\ v + w = w + v
          /\ v \in 0 .. MaxBitWidth
      BY <1>0, <2>1, <2>2 DEF Handled
    <3>2. n \in Values(v)
      <4>1. b \in Int
        BY <2>1, <2>2, ValuesOf
      <4> QED
        BY <3>1, <4>1, RestFits
    <3> HIDE DEF n
    <3>3. lv_concat(A, Vector(v, n)) = Vector(w + v, bv_concat(v, a, n))
      BY <2>1, <2>2, <3>1, <3>2, ConcatOnLimbs DEF A
    <3>4. lv_concat(Vector(v, n), A) = Vector(w + v, bv_concat(w, n, a))
      <4>1. lv_concat(Vector(v, n), A) = Vector(v + w, bv_concat(w, n, a))
        BY <2>1, <2>2, <3>1, <3>2, ConcatOnLimbs DEF A
      <4> QED
        BY <3>1, <4>1
    <3>5. lv_uext(A, v) = Vector(w + v, a)
      BY <2>1, <2>2, <3>1, ZeroExtensionOnLimbs DEF A
    <3>6. lv_sext(A, v) = Vector(w + v, bv_sext(w, a, v))
      BY <2>1, <2>2, <3>1, SignExtensionOnLimbs DEF A
    <3> QED
      BY <3>3, <3>4, <3>5, <3>6 DEF n
  <2>8. ASSUME NEW upper \in 0 .. w - 1, NEW lower \in 0 .. upper
        PROVE  lv_slice(A, upper, lower) = Vector(upper - lower + 1, bv_slice(a, upper, lower))
    <3>1. upper \in Nat /\ lower \in Nat /\ lower <= upper /\ upper < w
      BY <2>2
    <3> QED
      BY <2>1, <2>2, <3>1, SliceOnLimbs DEF A
  <2> QED
    BY <2>3, <2>4, <2>5, <2>6, <2>7, <2>8 DEF LimbShiftsAndParts
<1> QED
  BY <1>2, <1>3, PTL

----------------------------------------------------------------------------
(* Strings of binary digits.                                               *)

\* strip_zeroes leaves the digits of the number.
LEMMA Stripped ==
    ASSUME NEW l \in Nat, l <= MaxBitWidth, NEW z \in Values(l)
    PROVE  /\ strip_zeroes(Str(l, z)) = BinOf(z)
           /\ LengthOf(z) <= l
<1> DEFINE s == Str(l, z)
           k == LengthOf(z)
           S == {i \in DOMAIN s : s[i] # 0}
<1>0. MaxBitWidth \in Nat
  BY MaxBitWidthAssumption
<1>1. k \in 0 .. l /\ IsLength(k, z) /\ z \in Nat /\ k \in Nat /\ k <= MaxBitWidth /\ k \in 0 .. MaxBitWidth
  <2>1. k \in 0 .. l /\ IsLength(k, z) /\ z \in Nat
    BY Lengths
  <2> HIDE DEF k
  <2> QED
    BY <1>0, <2>1
<1>2. /\ s \in Seq({0, 1}) /\ Len(s) = l /\ DOMAIN s = 1 .. l
      /\ \A i \in 1 .. l : s[i] = Bit(z, l - i) /\ l - i \in 0 .. MaxBitWidth
  BY <1>1, StrIs
<1>3. \A i \in 1 .. l : i <= l - k => s[i] = 0
  <2> TAKE i \in 1 .. l
  <2> HAVE i <= l - k
  <2>1. l - i \in k .. MaxBitWidth /\ z \in Values(k)
    <3> HIDE DEF k, s
    <3> QED
      BY <1>0, <1>1 DEF IsLength
  <2> HIDE DEF k
  <2> QED
    BY <1>1, <1>2, <2>1, BitAbove
<1>4. k # 0 => l - k + 1 \in 1 .. l /\ s[l - k + 1] = 1
  <2> HAVE k # 0
  <2>1. l - k + 1 \in 1 .. l /\ l - (l - k + 1) = k - 1 /\ k \in Nat \ {0}
    <3> HIDE DEF k, s
    <3> QED
      BY <1>1
  <2>2. Bit(z, k - 1) = 1
    <3> HIDE DEF k
    <3> QED
      BY <1>1, <2>1, TopBit
  <2> DEFINE i == l - k + 1
  <2>3. i \in 1 .. l /\ l - i = k - 1
    BY <2>1
  <2> HIDE DEF i, s, k
  <2>4. s[i] = 1
    BY <1>2, <2>2, <2>3
  <2> QED
    BY <2>3, <2>4 DEF i
<1>5. k <= l
  <2> HIDE DEF k
  <2> QED
    BY <1>1
<1>6. CASE k = 0
  <2>1. S = {}
    <3> HIDE DEF s, k
    <3> QED
      BY <1>2, <1>3, <1>6
  <2>2. strip_zeroes(s) = <<>>
    BY <2>1 DEF strip_zeroes
  <2>3. BinOf(z) = <<>>
    <3>1. Len(BinOf(z)) = 0 /\ BinOf(z) \in Seq({0, 1})
      BY <1>1, <1>6, StrIs DEF BinOf
    <3> QED
      BY <3>1, EmptySeq
  <2> QED
    BY <1>5, <2>2, <2>3
<1>7. CASE k # 0
  <2> DEFINE i == l - k + 1
  <2>1. i \in 1 .. l /\ s[i] = 1 /\ i + k = l + 1 /\ k \in Nat
    <3> HIDE DEF s, k
    <3> QED
      BY <1>1, <1>4, <1>7
  <2>2. \A j \in S : i <= j
    <3> TAKE j \in S
    <3>1. j \in 1 .. l /\ ~(j <= l - k)
      <4> HIDE DEF s, k
      <4> QED
        BY <1>2, <1>3
    <3> HIDE DEF s, k, S
    <3> QED
      BY <1>1, <3>1
  <2>3. i \in S /\ S \subseteq 1 .. l
    <3> HIDE DEF s, i
    <3> QED
      BY <1>2, <2>1
  <2>4. Min(S) = i
    <3> HIDE DEF S, i
    <3>1. \A p \in S : (\A j \in S : p <= j) => p = i
      BY <2>2, <2>3
    <3>2. Min(S) = CHOOSE p \in S : \A j \in S : p <= j
      BY DEF Min
    <3> QED
      BY <2>2, <2>3, <3>1, <3>2
  <2>5. strip_zeroes(s) = SubSeq(s, i, l)
    <3>1. S # {} /\ Len(s) = l
      BY <1>2, <2>3
    <3> HIDE DEF i
    <3> QED
      BY <2>4, <3>1 DEF strip_zeroes
  <2>6. SubSeq(s, i, l) = [j \in 1 .. k |-> s[i + j - 1]]
    <3> HIDE DEF s, i, k
    <3>1. l - i + 1 = k
      BY <2>1
    <3> QED
      BY <1>2, <2>1, <3>1
  <2>7. \A j \in 1 .. k : s[i + j - 1] = Bit(z, k - j)
    <3> TAKE j \in 1 .. k
    <3> DEFINE t == i + j - 1
    <3>1. t \in 1 .. l /\ l - t = k - j
      <4> HIDE DEF i, k
      <4> QED
        BY <2>1
    <3> HIDE DEF t, s, k
    <3> QED
      BY <1>2, <3>1 DEF t
  <2> HIDE DEF i, s, k
  <2>8. SubSeq(s, i, l) = Str(k, z)
    BY <2>6, <2>7 DEF Str
  <2> QED
    BY <1>5, <2>5, <2>8 DEF BinOf, s, k
<1> QED
  BY <1>6, <1>7

\* The sum of two strings of the same length is that of their numbers.
LEMMA SumOfStrings ==
    ASSUME NEW n \in Nat, n + 1 <= MaxBitWidth, NEW x \in Nat, NEW y \in Nat
    PROVE  /\ StringSum(Str(n, x), Str(n, y)) = Str(n, x + y)
           /\ StringCarries(Str(n, x), Str(n, y))[1] = ((x % 2 ^ n) + (y % 2 ^ n)) \div 2 ^ n
<1> DEFINE X == Str(n, x)
           Y == Str(n, y)
           c(j) == ((x % 2 ^ j) + (y % 2 ^ j)) \div 2 ^ j
           F(f) == [i \in 1 .. n + 1 |-> IF i > n THEN 0 ELSE (X[i] + Y[i] + f[i + 1]) \div 2]
           g == [i \in 1 .. n + 1 |-> c(n + 1 - i)]
<1>0. MaxBitWidth \in Nat /\ n <= MaxBitWidth
  BY MaxBitWidthAssumption
<1>1. /\ X \in Seq({0, 1}) /\ Len(X) = n /\ DOMAIN X = 1 .. n
      /\ \A i \in 1 .. n : X[i] = Bit(x, n - i)
  BY <1>0, StrIs
<1>2. \A i \in 1 .. n : Y[i] = Bit(y, n - i)
  BY <1>0, StrIs
<1>3. g[n + 1] = 0
  <2>1. g[n + 1] = c(0)
    <3>1. n + 1 \in 1 .. n + 1 /\ n + 1 - (n + 1) = 0
      OBVIOUS
    <3> HIDE DEF c
    <3> QED
      BY <3>1
  <2>2. 2 ^ 0 = 1
    BY PowersAssumption
  <2>3. x % 1 = 0 /\ y % 1 = 0 /\ (0 + 0) \div 1 = 0
    OBVIOUS
  <2> HIDE DEF g
  <2> QED
    BY <2>1, <2>2, <2>3
<1>4. ASSUME NEW i \in 1 .. n
      PROVE  /\ g[i] = (X[i] + Y[i] + g[i + 1]) \div 2
             /\ (X[i] + Y[i] + g[i + 1]) % 2 = Bit(x + y, n - i)
  <2> DEFINE j == n - i
  <2>1. j \in Nat /\ j + 1 <= MaxBitWidth /\ n + 1 - i = j + 1 /\ n + 1 - (i + 1) = j
        /\ i + 1 \in 1 .. n + 1 /\ i \in 1 .. n + 1
    BY <1>0
  <2>2. g[i] = c(j + 1) /\ g[i + 1] = c(j)
    <3> HIDE DEF c, j
    <3> QED
      BY <2>1
  <2>3. X[i] = Bit(x, j) /\ Y[i] = Bit(y, j)
    BY <1>1, <1>2
  <2> HIDE DEF j, X, Y, g
  <2>4. /\ (Bit(x, j) + Bit(y, j) + c(j)) % 2 = Bit(x + y, j)
        /\ (Bit(x, j) + Bit(y, j) + c(j)) \div 2 = c(j + 1)
    BY <2>1, CarryStep
  <2> QED
    BY <2>2, <2>3, <2>4 DEF j
<1>5. g = F(g)
  <2>1. g = [i \in 1 .. n + 1 |-> g[i]]
    OBVIOUS
  <2>2. \A i \in 1 .. n + 1 : IF i > n THEN i = n + 1 ELSE i \in 1 .. n
    OBVIOUS
  <2> HIDE DEF g, X, Y
  <2> QED
    BY <1>3, <1>4, <2>1, <2>2
<1> DEFINE f == CHOOSE f : f = F(f)
<1>6. f = F(f)
  <2>1. \E e : e = F(e)
    BY <1>5
  <2> QED
    BY <2>1
<1>7. StringCarries(X, Y) = f
  <2> HIDE DEF X, Y
  <2> QED
    BY <1>1 DEF StringCarries
<1> HIDE DEF f
<1>8. \A i \in 1 .. n + 1 : f[i] = g[i]
  <2> DEFINE e == [k \in 0 .. n |-> f[n + 1 - k]]
             h == [k \in 0 .. n |-> g[n + 1 - k]]
  <2>1. e[0] = h[0]
    <3>1. f[n + 1] = 0
      <4> HIDE DEF g, X, Y
      <4> QED
        BY <1>6
    <3>2. e[0] = f[n + 1] /\ h[0] = g[n + 1]
      <4> HIDE DEF g
      <4> QED
        OBVIOUS
    <3> HIDE DEF e, h, g
    <3> QED
      BY <1>3, <3>1, <3>2
  <2>2. ASSUME NEW k \in 1 .. n, e[k - 1] = h[k - 1] PROVE e[k] = h[k]
    <3> DEFINE i == n + 1 - k
    <3>1. i \in 1 .. n /\ n + 1 - (k - 1) = i + 1 /\ k \in 0 .. n /\ k - 1 \in 0 .. n
          /\ i \in 1 .. n + 1 /\ ~(i > n)
      OBVIOUS
    <3>2. e[k] = f[i] /\ h[k] = g[i] /\ e[k - 1] = f[i + 1] /\ h[k - 1] = g[i + 1]
      <4> HIDE DEF g
      <4> QED
        BY <3>1
    <3> HIDE DEF i, e, h, g, X, Y
    <3>3. f[i] = (X[i] + Y[i] + f[i + 1]) \div 2
      BY <1>6, <3>1
    <3>4. g[i] = (X[i] + Y[i] + g[i + 1]) \div 2
      BY <1>4, <3>1
    <3> QED
      BY <2>2, <3>2, <3>3, <3>4
  <2>3. \A k \in 0 .. n : e[k] = h[k]
    <3> HIDE DEF e, h
    <3>1. \A k \in 1 .. n : e[k - 1] = h[k - 1] => e[k] = h[k]
      BY <2>2
    <3> QED
      BY <2>1, <3>1, LoopComputes
  <2> TAKE i \in 1 .. n + 1
  <2> DEFINE k == n + 1 - i
  <2>4. k \in 0 .. n /\ n + 1 - k = i
    OBVIOUS
  <2>5. e[k] = f[i] /\ h[k] = g[i]
    <3> HIDE DEF k, g
    <3> QED
      BY <2>4
  <2> HIDE DEF k, e, h, g
  <2> QED
    BY <2>3, <2>4, <2>5
<1>9. StringCarries(X, Y)[1] = c(n)
  <2>1. 1 \in 1 .. n + 1 /\ n + 1 - 1 = n
    OBVIOUS
  <2>2. g[1] = c(n)
    <3> HIDE DEF c
    <3> QED
      BY <2>1
  <2> HIDE DEF g
  <2> QED
    BY <1>7, <1>8, <2>1, <2>2
<1>10. StringSum(X, Y) = Str(n, x + y)
  <2>1. \A i \in 1 .. n : (X[i] + Y[i] + f[i + 1]) % 2 = Bit(x + y, n - i)
    <3> TAKE i \in 1 .. n
    <3>1. i + 1 \in 1 .. n + 1
      OBVIOUS
    <3> HIDE DEF g, X, Y
    <3> QED
      BY <1>4, <1>8, <3>1
  <2>2. StringSum(X, Y) = <<>> \o [i \in 1 .. n |-> (X[i] + Y[i] + f[i + 1]) % 2]
    <3> HIDE DEF X, Y
    <3> QED
      BY <1>1, <1>7 DEF StringSum
  <2>3. [i \in 1 .. n |-> (X[i] + Y[i] + f[i + 1]) % 2] = Str(n, x + y)
    <3> HIDE DEF X, Y
    <3> QED
      BY <2>1 DEF Str
  <2>4. <<>> \o Str(n, x + y) = Str(n, x + y)
    BY <1>0, StrIs
  <2> HIDE DEF X, Y
  <2> QED
    BY <2>2, <2>3, <2>4
<1> HIDE DEF X, Y
<1> QED
  BY <1>9, <1>10 DEF X, Y

LEMMA ZerosAre ==
    ASSUME NEW l \in Nat, l <= MaxBitWidth
    PROVE  Zeros(l) = Str(l, 0) /\ 0 \in Values(l)
<1>1. l \in 0 .. MaxBitWidth /\ 0 \in Nat
  BY MaxBitWidthAssumption
<1>2. Str(l, 0) = [i \in 1 .. l |-> 0]
  <2>1. \A i \in 1 .. l : Bit(0, l - i) = 0
    <3>1. \A i \in 1 .. l : l - i \in 0 .. MaxBitWidth
      BY <1>1, MaxBitWidthAssumption
    <3> QED
      BY <3>1, BitOfZero
  <2> QED
    BY <2>1 DEF Str
<1>3. <<>> \o Str(l, 0) = Str(l, 0)
  BY StrIs
<1>4. 2 ^ l \in Nat \ {0}
  BY <1>1, PowerIs
<1> QED
  BY <1>2, <1>3, <1>4 DEF Zeros, Values

\* Zeros in front leave the number.
LEMMA PaddedIs ==
    ASSUME NEW l \in Nat, NEW n \in Nat, l <= n, n <= MaxBitWidth, NEW z \in Values(l)
    PROVE  Padded(Str(l, z), n) = Str(n, z) /\ z \in Values(n) /\ z \in Nat
<1>1. n - l \in Nat /\ (n - l) + l = n /\ l <= MaxBitWidth /\ n - l <= MaxBitWidth
  BY MaxBitWidthAssumption
<1>2. z \in Values(n) /\ z \in Nat
  BY ValuesGrow
<1>3. Len(Str(l, z)) = l
  BY <1>1, <1>2, StrIs
<1> DEFINE m == n - l
<1>4. m \in Nat /\ m + l = n /\ m <= MaxBitWidth
  BY <1>1
<1> HIDE DEF m
<1>5. Zeros(m) = Str(m, 0) /\ 0 \in Values(m)
  BY <1>4, ZerosAre
<1>6. Str(m, 0) \o Str(l, z) = Str(m + l, 0 * 2 ^ l + z)
  BY <1>4, <1>5, JoinedStrings
<1>7. 0 * 2 ^ l + z = z
  <2> DEFINE p == 2 ^ l
  <2>1. p \in Nat \ {0}
    <3>1. l \in 0 .. MaxBitWidth
      BY <1>1, MaxBitWidthAssumption
    <3> QED
      BY <3>1, PowerIs
  <2> HIDE DEF p
  <2>2. 0 * p + z = z
    BY <1>2, <2>1
  <2> QED
    BY <2>2 DEF p
<1> QED
  BY <1>2, <1>3, <1>4, <1>5, <1>6, <1>7 DEF Padded, m

\* btor2parser_add_unbounded_bin_str adds.
LEMMA AddOnStrings ==
    ASSUME NEW l \in Nat, NEW m \in Nat, NEW x \in Values(l), NEW y \in Values(m),
           NEW k \in Nat, l <= k, m <= k, k + 2 <= MaxBitWidth
    PROVE  /\ add_unbounded_bin_str(Str(l, x), Str(m, y)) = BinOf(x + y)
           /\ x + y \in Values(k + 1)
<1> DEFINE L == LengthOf(x)
           M == LengthOf(y)
           X == BinOf(x)
           Y == BinOf(y)
           n == Max({Len(X), Len(Y)}) + 1
<1>0. l <= MaxBitWidth /\ m <= MaxBitWidth /\ k <= MaxBitWidth /\ k + 1 <= MaxBitWidth /\ k + 1 \in Nat
      /\ MaxBitWidth \in Nat
  BY MaxBitWidthAssumption
<1>1. strip_zeroes(Str(l, x)) = X /\ strip_zeroes(Str(m, y)) = Y
  BY <1>0, Stripped
<1>2. /\ L \in 0 .. l /\ x \in Values(L) /\ x \in Nat /\ X = Str(L, x)
      /\ M \in 0 .. m /\ y \in Values(M) /\ y \in Nat /\ Y = Str(M, y)
  BY <1>0, Lengths DEF IsLength, BinOf
<1> HIDE DEF L, M
<1>3. L \in Nat /\ M \in Nat /\ L <= k /\ M <= k /\ L <= MaxBitWidth /\ M <= MaxBitWidth
  BY <1>0, <1>2
<1>4. Len(X) = L /\ Len(Y) = M
  BY <1>2, <1>3, StrIs
<1>5. x \in Values(k) /\ y \in Values(k)
  BY <1>0, ValuesGrow
<1>6. x + y \in Values(k + 1)
  BY <1>5, <1>0, SumFits
<1>7. (X = <<>> <=> x = 0) /\ (Y = <<>> <=> y = 0)
  BY <1>0, ShortStrings
<1> HIDE DEF X, Y
<1>8. CASE x = 0
  <2>1. add_unbounded_bin_str(Str(l, x), Str(m, y)) = Y
    BY <1>1, <1>7, <1>8 DEF add_unbounded_bin_str
  <2>2. x + y = y
    BY <1>2, <1>8
  <2> QED
    BY <1>6, <2>1, <2>2 DEF Y
<1>9. CASE x # 0 /\ y = 0
  <2>1. add_unbounded_bin_str(Str(l, x), Str(m, y)) = X
    BY <1>1, <1>7, <1>9 DEF add_unbounded_bin_str
  <2>2. x + y = x
    BY <1>2, <1>9
  <2> QED
    BY <1>6, <2>1, <2>2 DEF X
<1>10. CASE x # 0 /\ y # 0
  <2>1. add_unbounded_bin_str(Str(l, x), Str(m, y)) = strip_zeroes(StringSum(Padded(X, n), Padded(Y, n)))
    BY <1>1, <1>7, <1>10 DEF add_unbounded_bin_str
  <2> DEFINE q == n - 1
  <2>2. q \in Nat /\ L <= q /\ M <= q /\ q <= k /\ n = q + 1
    <3> DEFINE top == IF L <= M THEN M ELSE L
               S == {Len(X), Len(Y)}
    <3>1. S = {L, M}
      BY <1>4
    <3>2. top \in S /\ (\A e \in S : top >= e) /\ top \in Nat /\ L <= top /\ M <= top /\ top <= k
      BY <1>3, <3>1
    <3>3. \A t \in S : (\A e \in S : t >= e) => t = top
      BY <1>3, <3>1
    <3>4. Max(S) = top
      <4> HIDE DEF S, top
      <4>1. Max(S) = CHOOSE t \in S : \A e \in S : t >= e
        BY DEF Max
      <4> QED
        BY <3>2, <3>3, <4>1
    <3>5. n = top + 1
      BY <3>4
    <3> HIDE DEF n, top
    <3> QED
      BY <3>2, <3>5
  <2> HIDE DEF q
  <2>3. n \in Nat /\ L <= n /\ M <= n /\ n + 1 <= MaxBitWidth /\ n <= MaxBitWidth /\ q + 1 <= MaxBitWidth
    <3> HIDE DEF n
    <3> QED
      BY <1>0, <1>3, <2>2
  <2> HIDE DEF n
  <2>4. Padded(X, n) = Str(n, x) /\ Padded(Y, n) = Str(n, y)
    BY <1>2, <1>3, <2>3, PaddedIs
  <2>5. StringSum(Str(n, x), Str(n, y)) = Str(n, x + y)
    BY <1>2, <2>3, SumOfStrings
  <2>6. x + y \in Values(n)
    <3>1. q <= MaxBitWidth
      BY <1>0, <2>2
    <3>2. x \in Values(q) /\ y \in Values(q)
      BY <1>2, <1>3, <2>2, <3>1, ValuesGrow
    <3> QED
      BY <2>2, <2>3, <3>2, SumFits
  <2>7. strip_zeroes(Str(n, x + y)) = BinOf(x + y)
    BY <2>3, <2>6, Stripped
  <2> QED
    BY <1>6, <2>1, <2>4, <2>5, <2>7
<1> QED
  BY <1>8, <1>9, <1>10

----------------------------------------------------------------------------
(* Products of strings.                                                    *)

\* What the register holds after i rounds: the product with the i lowest digits of x
\* in front, and behind it the digits of x that are left.
Register(x, y, l, i) == y * (x % 2 ^ i) * 2 ^ (l - i) + (x \div 2 ^ i)

LEMMA RegisterStep ==
    ASSUME NEW l \in Nat, l <= MaxBitWidth, NEW x \in Nat, NEW y \in Nat, NEW i \in 0 .. l - 1
    PROVE  LET r == Register(x, y, l, i)
           IN  /\ r \in Nat
               /\ Register(x, y, l, i + 1) = (IF Bit(r, 0) = 0 THEN r ELSE r + y * 2 ^ l) \div 2
<1> DEFINE d == 2 ^ i
           e == 2 ^ (l - (i + 1))
           u == x % d
           s == x \div 2 ^ (i + 1)
           b1 == Bit(x, i)
           r == Register(x, y, l, i)
           f == y * u * e
           h == y * d * e
<1>1. /\ MaxBitWidth \in Nat /\ i \in Nat /\ i + 1 <= MaxBitWidth /\ l - (i + 1) \in 0 .. MaxBitWidth
      /\ i \in 0 .. MaxBitWidth /\ l - i = (l - (i + 1)) + 1 /\ l - (i + 1) \in Nat
      /\ (l - (i + 1)) + 1 <= MaxBitWidth
  BY MaxBitWidthAssumption
<1>2. d \in Nat \ {0} /\ e \in Nat \ {0}
  BY <1>1, PowerIs
<1>3. 2 ^ (l - i) = 2 * e /\ 2 ^ l = 2 * (d * e)
  <2> DEFINE j == l - (i + 1)
  <2>1. j \in Nat /\ j + 1 <= MaxBitWidth /\ l - i = j + 1 /\ j \in 0 .. MaxBitWidth
        /\ i + (j + 1) = l /\ i + (j + 1) <= MaxBitWidth /\ j + 1 \in Nat
    BY <1>1
  <2> HIDE DEF j
  <2>2. 2 ^ (j + 1) = 2 * 2 ^ j
    BY <2>1, PowersAssumption
  <2>3. 2 ^ (i + (j + 1)) = 2 ^ i * 2 ^ (j + 1)
    BY <1>1, <2>1, PowerOfSum
  <2>4. e = 2 ^ j
    BY DEF j
  <2> HIDE DEF d, e
  <2>5. 2 ^ (j + 1) = 2 * e /\ 2 ^ l = d * (2 * e)
    <3>1. d = 2 ^ i
      BY DEF d
    <3> QED
      BY <2>1, <2>2, <2>3, <2>4, <3>1
  <2>6. d * (2 * e) = 2 * (d * e)
    BY <1>2
  <2> QED
    BY <2>1, <2>5, <2>6
<1>4. /\ x % 2 ^ (i + 1) = u + b1 * d /\ x \div d = 2 * s + b1
      /\ s \in Nat /\ u \in Nat /\ b1 \in {0, 1}
  BY <1>1, OneMoreBit
<1>5. f \in Nat /\ h \in Nat
  <2> HIDE DEF u, e, d
  <2>1. y * u \in Nat /\ y * d \in Nat
    BY <1>2, <1>4
  <2> QED
    BY <1>2, <2>1
<1>6. r = 2 * (f + s) + b1
  <2>1. r = y * u * (2 * e) + (2 * s + b1)
    BY <1>3, <1>4 DEF Register
  <2> DEFINE t == y * u
  <2>2. t \in Nat
    <3> HIDE DEF u
    <3> QED
      BY <1>4
  <2>3. t * (2 * e) = 2 * (t * e) /\ t * e = f
    <3> HIDE DEF t, e
    <3>1. t * (2 * e) = 2 * (t * e)
      BY <1>2, <2>2
    <3> QED
      BY <3>1 DEF t
  <2>4. r = t * (2 * e) + (2 * s + b1)
    BY <2>1
  <2> HIDE DEF r, s, b1, f
  <2>5. r = 2 * f + (2 * s + b1)
    BY <2>3, <2>4
  <2> QED
    BY <1>4, <1>5, <2>5
<1>7. Register(x, y, l, i + 1) = f + b1 * h + s
  <2>1. Register(x, y, l, i + 1) = y * (u + b1 * d) * e + s
    BY <1>4 DEF Register
  <2>2. y * (u + b1 * d) * e = f + b1 * h
    <3>1. CASE b1 = 0
      <4>1. u + b1 * d = u /\ f + b1 * h = f
        <5> HIDE DEF u, d, b1, f, h
        <5> QED
          BY <1>2, <1>4, <1>5, <3>1
      <4> QED
        BY <4>1
    <3>2. CASE b1 = 1
      <4>1. u + b1 * d = u + d /\ f + b1 * h = f + h
        <5> HIDE DEF u, d, b1, f, h
        <5> QED
          BY <1>2, <1>4, <1>5, <3>2
      <4>2. y * (u + d) * e = f + h
        <5> HIDE DEF u, d, e, b1
        <5>1. y * (u + d) = y * u + y * d
          BY <1>2, <1>4
        <5> DEFINE yu == y * u
                   yd == y * d
        <5>2. yu \in Nat /\ yd \in Nat
          BY <1>2, <1>4
        <5>3. y * (u + d) * e = (yu + yd) * e /\ f = yu * e /\ h = yd * e
          BY <5>1
        <5> HIDE DEF yu, yd, f, h
        <5>4. (yu + yd) * e = yu * e + yd * e
          BY <1>2, <5>2
        <5> QED
          BY <5>3, <5>4
      <4> QED
        BY <4>1, <4>2
    <3> QED
      BY <1>4, <3>1, <3>2
  <2> HIDE DEF f, h, s, b1, u, d, e
  <2>3. Register(x, y, l, i + 1) = (f + b1 * h) + s
    BY <2>1, <2>2
  <2>4. b1 * h \in Nat
    BY <1>4, <1>5
  <2> QED
    BY <1>4, <1>5, <2>3, <2>4
<1>8. y * 2 ^ l = 2 * h
  <2>1. y * 2 ^ l = y * (2 * (d * e))
    BY <1>3
  <2> DEFINE t == d * e
  <2>2. t \in Nat /\ y * (2 * t) = 2 * (y * t)
    <3> HIDE DEF d, e
    <3>1. t \in Nat
      BY <1>2
    <3> HIDE DEF t
    <3> QED
      BY <3>1
  <2>3. y * t = h
    <3> HIDE DEF d, e
    <3>1. y * (d * e) = y * d * e
      BY <1>2
    <3> QED
      BY <3>1
  <2> QED
    BY <2>1, <2>2, <2>3
<1> HIDE DEF r, f, h, s, b1, u, d, e
<1>9. r \in Nat
  BY <1>4, <1>5, <1>6
<1>10. Bit(r, 0) = b1
  <2>1. 2 ^ 0 = 1 /\ r \div 1 = r
    BY <1>9, PowersAssumption
  <2>2. r % 2 = b1
    <3> DEFINE t == f + s
    <3>1. t \in Nat /\ r = 2 * t + b1
      BY <1>4, <1>5, <1>6
    <3> HIDE DEF t
    <3> QED
      BY <1>4, <3>1
  <2> QED
    BY <2>1, <2>2 DEF Bit
<1>11. Register(x, y, l, i + 1) = (IF Bit(r, 0) = 0 THEN r ELSE r + y * 2 ^ l) \div 2
  <2>1. CASE b1 = 0
    <3>1. r \div 2 = f + s
      BY <1>4, <1>5, <1>6, <2>1
    <3>2. f + b1 * h + s = f + s
      BY <1>4, <1>5, <2>1
    <3> QED
      BY <1>7, <1>10, <2>1, <3>1, <3>2
  <2>2. CASE b1 = 1
    <3>1. (r + 2 * h) \div 2 = f + s + h
      BY <1>4, <1>5, <1>6, <2>2
    <3>2. f + b1 * h + s = f + s + h
      BY <1>4, <1>5, <2>2
    <3> QED
      BY <1>7, <1>8, <1>10, <2>2, <3>1, <3>2
  <2> QED
    BY <1>4, <2>1, <2>2
<1> QED
  BY <1>9, <1>11 DEF r

LEMMA EndsOfString ==
    ASSUME NEW l \in Nat, l + 1 <= MaxBitWidth, NEW z \in Nat
    PROVE  /\ Front(Str(l + 1, z)) = Str(l, z \div 2) /\ Last(Str(l + 1, z)) = Bit(z, 0)
           /\ z \div 2 \in Nat
<1>1. 2 ^ 1 = 2 /\ l + 1 \in Nat
  <2>1. 0 \in 0 .. MaxBitWidth /\ 2 ^ (0 + 1) = 2 * 2 ^ 0 /\ 2 ^ 0 = 1
    BY MaxBitWidthAssumption, PowersAssumption
  <2> QED
    BY <2>1
<1>2. SubSeq(Str(l + 1, z), 1, l) = Str(l, z \div 2 ^ 1)
  BY PartsOfString
<1>3. Len(Str(l + 1, z)) = l + 1 /\ \A i \in 1 .. l + 1 : Str(l + 1, z)[i] = Bit(z, l + 1 - i)
  <2> DEFINE n == l + 1
  <2>1. n \in Nat /\ n <= MaxBitWidth
    BY <1>1
  <2> HIDE DEF n
  <2>2. Len(Str(n, z)) = n /\ \A i \in 1 .. n : Str(n, z)[i] = Bit(z, n - i)
    BY <2>1, StrIs
  <2> QED
    BY <2>2 DEF n
<1>4. l + 1 \in 1 .. l + 1 /\ (l + 1) - 1 = l /\ l + 1 - (l + 1) = 0
  OBVIOUS
<1>5. Last(Str(l + 1, z)) = Bit(z, 0)
  <2>1. Str(l + 1, z)[l + 1] = Bit(z, l + 1 - (l + 1))
    BY <1>3, <1>4
  <2> QED
    BY <1>3, <1>4, <2>1 DEF Last
<1> QED
  BY <1>1, <1>2, <1>3, <1>4, <1>5 DEF Front

----------------------------------------------------------------------------

\* A round of the multiplication.
Moved(r, y) ==
    LET front == SubSeq(r, 1, Len(y))
        back  == SubSeq(r, Len(y) + 1, Len(r))
    IN  IF Last(r) = 0 THEN <<0>> \o Front(r)
        ELSE <<StringCarries(front, y)[1]>> \o Front(StringSum(front, y) \o back)

LEMMA MovedIs ==
    ASSUME NEW l \in Nat \ {0}, NEW m \in Nat, m + l + 1 <= MaxBitWidth,
           NEW r \in Values(m + l), NEW y \in Values(m)
    PROVE  LET z == (IF Bit(r, 0) = 0 THEN r ELSE r + y * 2 ^ l) \div 2
           IN  Moved(Str(m + l, r), Str(m, y)) = Str(m + l, z) /\ z \in Values(m + l)
<1> DEFINE n == m + l
           e == 2 ^ l
           d == 2 ^ m
           X == Str(n, r)
           Y == Str(m, y)
           k == n - 1
<1>1. /\ MaxBitWidth \in Nat /\ n \in Nat /\ n <= MaxBitWidth /\ m <= MaxBitWidth /\ l <= MaxBitWidth
      /\ k \in Nat /\ k + 1 = n /\ k + 1 <= MaxBitWidth /\ n + 1 <= MaxBitWidth /\ m + l <= MaxBitWidth
      /\ m \in 0 .. MaxBitWidth /\ l \in 0 .. MaxBitWidth /\ n \in 0 .. MaxBitWidth /\ l \in Nat
      /\ m + 1 <= MaxBitWidth /\ k + 1 \in 0 .. MaxBitWidth
  BY MaxBitWidthAssumption
<1>2. r \in Nat /\ y \in Nat /\ r \in Int /\ y \in Int
  <2>1. r \in Nat /\ y \in Nat
    BY <1>1, ValuesGrow
  <2> QED
    BY <2>1
<1>3. d \in Nat \ {0} /\ e \in Nat \ {0} /\ 2 ^ n = d * e /\ y \in 0 .. d - 1 /\ r \in 0 .. d * e - 1
      /\ d * e \in Nat
  <2>1. d \in Nat \ {0} /\ e \in Nat \ {0} /\ 2 ^ n = d * e
    BY <1>1, PowerIs, PowerOfSum
  <2>2. y \in 0 .. d - 1 /\ r \in 0 .. d * e - 1
    BY <2>1 DEF Values
  <2> HIDE DEF d, e
  <2> QED
    BY <2>1, <2>2
<1>4. Len(X) = n /\ Len(Y) = m
  BY <1>1, <1>2, StrIs
<1>5. Last(X) = Bit(r, 0) /\ Front(X) = Str(k, r \div 2) /\ r \div 2 \in Nat
  <2> HIDE DEF k, n
  <2> QED
    BY <1>1, <1>2, EndsOfString
<1>6. Bit(r, 0) \in {0, 1}
  <2>1. 0 \in 0 .. MaxBitWidth
    BY <1>1
  <2> QED
    BY <1>2, <2>1, Bits
<1>7. CASE Bit(r, 0) = 0
  <2> DEFINE z == r \div 2
  <2>1. Moved(X, Y) = <<0>> \o Str(k, z)
    BY <1>5, <1>7 DEF Moved
  <2>2. Bit(z, k) = 0
    <3>1. Bit(r \div 2 ^ 1, k) = Bit(r, k + 1)
      <4>1. 1 \in Nat
        OBVIOUS
      <4> HIDE DEF k
      <4> QED
        BY <1>1, <1>2, BitOfQuotient
    <3>2. Bit(r, k + 1) = 0
      <4>1. k + 1 \in n .. MaxBitWidth
        BY <1>1
      <4> HIDE DEF n, k
      <4>2. r \in Values(n)
        BY DEF n
      <4> QED
        BY <1>1, <4>1, <4>2, BitAbove
    <3>3. 2 ^ 1 = 2
      <4>1. 0 \in 0 .. MaxBitWidth /\ 2 ^ (0 + 1) = 2 * 2 ^ 0 /\ 2 ^ 0 = 1
        BY MaxBitWidthAssumption, PowersAssumption
      <4> QED
        BY <4>1
    <3> QED
      BY <3>1, <3>2, <3>3
  <2>3. <<Bit(z, k)>> \o Str(k, z) = Str(k + 1, z)
    <3> HIDE DEF z, k
    <3> QED
      BY <1>1, <1>5, PrependBit DEF z
  <2>4. z \in Values(n)
    <3>1. z \in 0 .. d * e - 1
      <4> DEFINE p == d * e
      <4>1. p \in Nat /\ r \in 0 .. p - 1
        BY <1>3
      <4> HIDE DEF p
      <4>2. z \in 0 .. p - 1
        BY <4>1
      <4> QED
        BY <4>2 DEF p
    <3> QED
      BY <1>3, <3>1 DEF Values
  <2> QED
    BY <1>1, <1>7, <2>1, <2>2, <2>3, <2>4
<1>8. CASE Bit(r, 0) # 0
  <2> DEFINE s1 == r \div e
             s == s1 + y
             Z == r + y * e
             z == Z \div 2
             c == ((s1 % d) + (y % d)) \div d
             W == StringSum(Str(m, s1), Y) \o Str(l, r)
  <2>1. s1 \in 0 .. d - 1 /\ s \in 0 .. 2 * d - 1
    <3> HIDE DEF d, e
    <3>1. s1 \in Int /\ r % e \in 0 .. e - 1 /\ r = s1 * e + (r % e)
      BY <1>2, <1>3, Division
    <3> DEFINE q == r % e
    <3>2. s1 \in Int /\ q \in 0 .. e - 1 /\ r = s1 * e + q
      BY <3>1
    <3> HIDE DEF q, s1
    <3>3. 0 <= s1
      <4>1. CASE s1 < 0
        <5>1. s1 * e + e <= 0 * e
          BY <1>3, <3>2, <4>1, ProductGrows
        <5>2. s1 * e \in Int /\ 0 * e = 0
          BY <1>3, <3>2
        <5> DEFINE t == s1 * e
        <5>3. t \in Int /\ t + e <= 0 /\ r = t + q
          BY <3>2, <5>1, <5>2
        <5> HIDE DEF t
        <5> QED
          BY <1>2, <1>3, <3>2, <5>3
      <4> QED
        BY <3>2, <4>1
    <3>4. s1 < d
      <4>1. CASE d <= s1
        <5>1. d * e <= s1 * e
          BY <1>3, <3>2, <3>3, <4>1
        <5> DEFINE t == s1 * e
                   p == d * e
        <5>2. t \in Int /\ p \in Int /\ p <= t /\ r = t + q /\ r \in 0 .. p - 1
          BY <1>3, <3>2, <5>1
        <5> HIDE DEF t, p
        <5> QED
          BY <1>3, <3>2, <5>2
      <4> QED
        BY <1>3, <3>2, <4>1
    <3> QED
      BY <1>3, <3>2, <3>3, <3>4
  <2>2. s1 \in Nat /\ s \in Nat /\ Z \in Nat /\ z \in Nat /\ y * e \in Nat
    <3> HIDE DEF d, e
    <3>1. y * e \in Nat
      BY <1>2, <1>3
    <3> DEFINE t == y * e
    <3>2. Z = r + t /\ t \in Nat /\ s1 \in Nat /\ s \in Nat
      BY <1>3, <2>1, <3>1
    <3> HIDE DEF t, s1, s, Z
    <3>3. Z \in Nat /\ z \in Nat
      BY <1>2, <3>2
    <3> QED
      BY <3>1, <3>2, <3>3
  <2>2a. Z \div e = s
    <3> DEFINE q == r % e
    <3>1. r = s1 * e + q /\ q \in 0 .. e - 1 /\ s1 \in Int
      <4> HIDE DEF e
      <4>1. r \div e \in Int /\ r % e \in 0 .. e - 1 /\ r = (r \div e) * e + (r % e)
        BY <1>2, <1>3, Division
      <4> QED
        BY <4>1 DEF s1
    <3>2. Z = s * e + q
      <4> HIDE DEF e, q
      <4>1. (s1 + y) * e = s1 * e + y * e /\ s1 * e \in Int /\ y * e \in Int
        BY <1>2, <1>3, <2>2
      <4> DEFINE t1 == s1 * e
                 t2 == y * e
                 t3 == s * e
      <4>2. t3 = t1 + t2 /\ t1 \in Int /\ t2 \in Int /\ r = t1 + q /\ Z = r + t2
        BY <3>1, <4>1
      <4> HIDE DEF t1, t2, t3, s, Z
      <4>3. Z = t3 + q
        BY <1>3, <3>1, <4>2
      <4> QED
        BY <4>3 DEF t3
    <3> HIDE DEF e, q, s, Z
    <3>3. Z \in Int /\ s \in Int
      BY <2>2
    <3> QED
      BY <1>3, <3>1, <3>2, <3>3, QuotientAndRest
  <2>3. SubSeq(X, 1, m) = Str(m, s1) /\ SubSeq(X, m + 1, n) = Str(l, r)
    BY <1>1, <1>2, PartsOfString
  <2>4. Moved(X, Y) = <<StringCarries(Str(m, s1), Y)[1]>> \o Front(W)
    <3> HIDE DEF X, Y, n, s1
    <3> QED
      BY <1>4, <1>5, <1>8, <2>3 DEF Moved
  <2> HIDE DEF s1
  <2>5. StringSum(Str(m, s1), Y) = Str(m, s) /\ StringCarries(Str(m, s1), Y)[1] = c
    BY <1>1, <1>2, <2>2, SumOfStrings
  <2>6. W = Str(n, Z)
    <3> DEFINE S1 == Str(m, s)
               R1 == Str(l, r)
    <3>1. W = S1 \o R1
      BY <2>5
    <3>2. /\ S1 \in Seq({0, 1}) /\ Len(S1) = m /\ \A i \in 1 .. m : S1[i] = Bit(s, m - i)
          /\ R1 \in Seq({0, 1}) /\ Len(R1) = l /\ \A i \in 1 .. l : R1[i] = Bit(r, l - i)
      BY <1>1, <1>2, <2>2, StrIs
    <3> HIDE DEF W, S1, R1, s, Z
    <3>3. /\ W \in Seq({0, 1}) /\ Len(W) = n
          /\ \A i \in 1 .. m + l : W[i] = IF i <= m THEN S1[i] ELSE R1[i - m]
      BY <3>1, <3>2, ConcatProperties
    <3>4. ASSUME NEW i \in 1 .. n PROVE W[i] = Bit(Z, n - i)
      <4> DEFINE j == n - i
      <4>1. j \in 0 .. MaxBitWidth /\ (i <= m <=> l <= j) /\ i \in 1 .. m + l /\ j \in Nat
        BY <1>1
      <4>2. CASE i <= m
        <5> DEFINE t == m - i
        <5>1. i \in 1 .. m /\ t \in Nat /\ t + l <= MaxBitWidth /\ j = t + l
          BY <1>1, <4>2
        <5>2. W[i] = Bit(s, t)
          <6> HIDE DEF t, j
          <6> QED
            BY <3>2, <3>3, <4>1, <4>2, <5>1 DEF t
        <5>4. Bit(Z \div 2 ^ l, t) = Bit(Z, t + l)
          <6> HIDE DEF t
          <6>1. Z \in Int
            BY <2>2
          <6> QED
            BY <1>1, <5>1, <6>1, BitOfQuotient
        <5> HIDE DEF t
        <5> QED
          BY <2>2a, <5>1, <5>2, <5>4
      <4>3. CASE ~(i <= m)
        <5>1. i - m \in 1 .. l /\ l - (i - m) = j /\ j \in 0 .. l - 1
          BY <1>1, <4>3
        <5>2. W[i] = R1[i - m]
          BY <3>3, <4>1, <4>3
        <5>3. R1[i - m] = Bit(r, j)
          <6>1. R1[i - m] = Bit(r, l - (i - m))
            BY <3>2, <5>1
          <6> QED
            BY <5>1, <6>1
        <5>4. Bit(r + y * 2 ^ l, j) = Bit(r, j)
          <6> HIDE DEF j
          <6>1. r \in Int /\ y \in Int
            BY <1>2
          <6> QED
            BY <1>1, <5>1, <6>1, BitBelow
        <5> QED
          BY <5>2, <5>3, <5>4 DEF Z
      <4> QED
        BY <4>2, <4>3
    <3> QED
      BY <1>1, <2>2, <3>3, <3>4, StrBy
  <2>7. Front(W) = Str(k, z)
    <3> HIDE DEF W, Z, k, n
    <3> QED
      BY <1>1, <2>2, <2>6, EndsOfString
  <2>8. c = Bit(z, k)
    <3>1. s1 % d = s1 /\ y % d = y
      <4> HIDE DEF d
      <4> QED
        BY <1>3, <2>1, RestNearby
    <3>2. c = s \div d
      BY <3>1
    <3>3. (s \div d) % 2 = s \div d
      <4> HIDE DEF d, s
      <4>1. s \div d \in {0, 1}
        <5>1. CASE s < d
          <6>1. s \in 0 .. d - 1 /\ s = 0 * d + s /\ s \in Int /\ 0 \in Int
            BY <1>3, <2>2, <5>1
          <6> QED
            BY <1>3, <6>1, QuotientAndRest
        <5>2. CASE d <= s
          <6> DEFINE q == s - d
          <6>1. q \in 0 .. d - 1 /\ s = 1 * d + q /\ s \in Int /\ 1 \in Int
            BY <1>3, <2>1, <2>2, <5>2
          <6> HIDE DEF q
          <6> QED
            BY <1>3, <6>1, QuotientAndRest
        <5> QED
          BY <1>3, <2>2, <5>1, <5>2
      <4> QED
        BY <4>1
    <3>4. Bit(s, m) = (s \div d) % 2
      BY DEF Bit
    <3>5. Bit(Z \div 2 ^ l, m) = Bit(Z, m + l)
      <4> HIDE DEF Z
      <4>1. Z \in Int
        BY <2>2
      <4> QED
        BY <1>1, <4>1, BitOfQuotient
    <3>6. Z \div e = s
      BY <2>2a
    <3>7. Bit(Z \div 2 ^ 1, k) = Bit(Z, k + 1) /\ 2 ^ 1 = 2
      <4>1. 0 \in 0 .. MaxBitWidth /\ 2 ^ (0 + 1) = 2 * 2 ^ 0 /\ 2 ^ 0 = 1
        BY MaxBitWidthAssumption, PowersAssumption
      <4>2. 1 \in Nat /\ Z \in Int /\ 2 ^ 1 = 2
        BY <2>2, <4>1
      <4> HIDE DEF Z, k
      <4> QED
        BY <1>1, <4>2, BitOfQuotient
    <3> HIDE DEF Z, c, s, d
    <3>8. c = Bit(Z, m + l)
      BY <3>2, <3>3, <3>4, <3>5, <3>6
    <3>9. k + 1 = m + l
      BY <1>1
    <3> HIDE DEF k
    <3> QED
      BY <3>7, <3>8, <3>9
  <2>9. <<Bit(z, k)>> \o Str(k, z) = Str(k + 1, z)
    <3> HIDE DEF z, k
    <3> QED
      BY <1>1, <2>2, PrependBit
  <2>10. z \in Values(n)
    <3>1. y * e + e <= d * e
      <4> HIDE DEF d, e
      <4> QED
        BY <1>2, <1>3, ProductGrows
    <3> DEFINE p == d * e
               t == y * e
    <3>2. p \in Nat /\ t \in Nat /\ t + e <= p /\ r \in 0 .. p - 1 /\ Z = r + t /\ e \in Nat \ {0}
      BY <1>3, <2>2, <3>1
    <3> HIDE DEF p, t, Z, e
    <3>3. z \in 0 .. p - 1
      BY <3>2
    <3> QED
      BY <1>3, <3>3 DEF Values, p
  <2>11. Moved(X, Y) = Str(n, z)
    <3> HIDE DEF X, Y, W, z, c, k, n
    <3> QED
      BY <1>1, <2>4, <2>5, <2>7, <2>8, <2>9
  <2> QED
    BY <1>8, <2>10, <2>11
<1> QED
  BY <1>7, <1>8

\* The register starts with the first factor and ends with the product.
LEMMA RegisterEnds ==
    ASSUME NEW l \in Nat, l <= MaxBitWidth, NEW x \in Values(l), NEW y \in Nat
    PROVE  Register(x, y, l, 0) = x /\ Register(x, y, l, l) = x * y
<1>1. l \in 0 .. MaxBitWidth /\ x \in Nat
  <2>1. x \in Nat
    BY ValuesGrow
  <2> QED
    BY <2>1, MaxBitWidthAssumption
<1>2. 2 ^ 0 = 1 /\ x % 1 = 0 /\ x \div 1 = x /\ 2 ^ l \in Nat \ {0}
  BY <1>1, PowersAssumption, PowerIs
<1>3. x % 2 ^ l = x /\ x \div 2 ^ l = 0
  <2> DEFINE p == 2 ^ l
  <2>1. x \in 0 .. p - 1 /\ p \in Nat \ {0}
    BY <1>2 DEF Values
  <2> HIDE DEF p
  <2>2. x = 0 * p + x /\ x \in Int /\ 0 \in Int
    BY <1>1, <2>1
  <2>3. x \div p = 0 /\ x % p = x
    BY <2>1, <2>2, QuotientAndRest
  <2> QED
    BY <2>3 DEF p
<1>4. Register(x, y, l, 0) = x
  <2>1. Register(x, y, l, 0) = y * 0 * 2 ^ (l - 0) + x
    BY <1>2 DEF Register
  <2>2. y * 0 = 0 /\ l - 0 = l
    OBVIOUS
  <2> DEFINE p == 2 ^ l
  <2>3. p \in Nat
    BY <1>2
  <2> HIDE DEF p
  <2>4. 0 * p + x = x
    BY <1>1, <2>3
  <2> QED
    BY <2>1, <2>2, <2>4 DEF p
<1>5. Register(x, y, l, l) = x * y
  <2>1. l - l = 0
    OBVIOUS
  <2>2. Register(x, y, l, l) = y * x * 1 + 0
    BY <1>2, <1>3, <2>1 DEF Register
  <2>3. y * x * 1 + 0 = x * y
    BY <1>1
  <2> QED
    BY <2>2, <2>3
<1> QED
  BY <1>4, <1>5

\* btor2parser_mult_unbounded_bin_str multiplies.
LEMMA MultOnStrings ==
    ASSUME NEW l \in Nat, NEW m \in Nat, l + m + 1 <= MaxBitWidth,
           NEW x \in Values(l), NEW y \in Values(m)
    PROVE  \E k \in 0 .. l + m : /\ mult_unbounded_bin_str(Str(l, x), Str(m, y)) = Str(k, x * y)
                                 /\ x * y \in Values(k)
<1> DEFINE L == LengthOf(x)
           M == LengthOf(y)
           X == BinOf(x)
           Y == BinOf(y)
           r == mult_unbounded_bin_str(Str(l, x), Str(m, y))
           n == M + L
<1>0. /\ l <= MaxBitWidth /\ m <= MaxBitWidth /\ MaxBitWidth \in Nat /\ 0 \in 0 .. l + m
      /\ m \in 0 .. l + m /\ 0 <= MaxBitWidth
  BY MaxBitWidthAssumption
<1>1. strip_zeroes(Str(l, x)) = X /\ strip_zeroes(Str(m, y)) = Y
  BY <1>0, Stripped
<1>2. /\ L \in 0 .. l /\ x \in Values(L) /\ x \in Nat /\ X = Str(L, x)
      /\ M \in 0 .. m /\ y \in Values(M) /\ y \in Nat /\ Y = Str(M, y)
  BY <1>0, Lengths DEF IsLength, BinOf
<1>3. /\ (X = <<>> <=> x = 0) /\ (Y = <<>> <=> y = 0)
      /\ (X = <<1>> <=> x = 1) /\ (Y = <<1>> <=> y = 1)
      /\ (L = 0 <=> x = 0)
  BY <1>0, ShortStrings
<1> HIDE DEF L, M
<1>4. /\ L \in Nat /\ M \in Nat /\ L <= l /\ M <= m /\ L <= MaxBitWidth /\ M <= MaxBitWidth
      /\ M + L + 1 <= MaxBitWidth /\ n \in 0 .. l + m /\ L \in 0 .. l + m
  BY <1>0, <1>2
<1>5. Len(X) = L /\ Len(Y) = M
  BY <1>2, <1>4, StrIs
<1>6. <<>> = Str(0, 0) /\ 0 \in Values(0)
  <2>1. 0 \in Values(0)
    BY <1>0, ZerosAre
  <2>2. Len(Str(0, 0)) = 0 /\ Str(0, 0) \in Seq({0, 1})
    BY <1>0, StrIs
  <2> QED
    BY <2>1, <2>2, EmptySeq
<1> HIDE DEF X, Y
<1>7. CASE x = 0
  <2>1. r = <<>>
    BY <1>1, <1>3, <1>7 DEF mult_unbounded_bin_str
  <2>2. x * y = 0
    BY <1>2, <1>7
  <2> QED
    BY <1>0, <1>6, <2>1, <2>2
<1>8. CASE x = 1
  <2>1. r = Str(m, y)
    BY <1>1, <1>3, <1>8 DEF mult_unbounded_bin_str
  <2>2. x * y = y
    BY <1>2, <1>8
  <2> QED
    BY <1>0, <2>1, <2>2
<1>9. CASE x # 0 /\ x # 1 /\ y = 0
  <2>1. r = <<>>
    BY <1>1, <1>3, <1>9 DEF mult_unbounded_bin_str
  <2>2. x * y = 0
    BY <1>2, <1>9
  <2> QED
    BY <1>0, <1>6, <2>1, <2>2
<1>10. CASE x # 0 /\ x # 1 /\ y = 1
  <2>1. r = X
    BY <1>1, <1>3, <1>10 DEF mult_unbounded_bin_str
  <2>2. x * y = x
    BY <1>2, <1>10
  <2> QED
    BY <1>2, <1>4, <2>1, <2>2
<1>11. CASE x # 0 /\ x # 1 /\ y # 0 /\ y # 1
  <2> DEFINE R(i) == Register(x, y, L, i)
             F(f) == [i \in 0 .. L |-> IF i = 0 THEN Zeros(M) \o X ELSE Moved(f[i - 1], Y)]
             g == [i \in 0 .. L |-> Str(n, R(i))]
  <2>1. L \in Nat \ {0} /\ L \in 0 .. L
    BY <1>3, <1>4, <1>11
  <2>2. R(0) = x /\ R(L) = x * y
    BY <1>2, <1>4, RegisterEnds
  <2>3. ASSUME NEW i \in 1 .. L, R(i - 1) \in Values(n)
        PROVE  R(i) \in Values(n) /\ Str(n, R(i)) = Moved(Str(n, R(i - 1)), Y)
    <3> DEFINE j == i - 1
               q == R(j)
               z == (IF Bit(q, 0) = 0 THEN q ELSE q + y * 2 ^ L) \div 2
    <3>1. j \in 0 .. L - 1 /\ j + 1 = i
      BY <2>1
    <3>2. Register(x, y, L, j + 1) = z
      <4> HIDE DEF j
      <4> QED
        BY <1>2, <1>4, <3>1, RegisterStep
    <3>3. R(i) = z
      BY <3>1, <3>2
    <3>4. q \in Values(M + L)
      BY <2>3
    <3> HIDE DEF q, R
    <3>5. Moved(Str(M + L, q), Str(M, y)) = Str(M + L, z) /\ z \in Values(M + L)
      BY <1>2, <1>4, <2>1, <3>4, MovedIs
    <3> HIDE DEF z
    <3> QED
      BY <1>2, <3>3, <3>5 DEF q
  <2>4. R(0) \in Values(n)
    <3>1. L <= n /\ n <= MaxBitWidth /\ n \in Nat
      BY <1>0, <1>4
    <3> HIDE DEF n
    <3>2. x \in Values(n)
      BY <1>2, <1>4, <3>1, ValuesGrow
    <3> QED
      BY <2>2, <3>2
  <2>5. \A i \in 0 .. L : R(i) \in Values(n)
    <3> DEFINE u == [i \in 0 .. L |-> R(i) \in Values(n)]
               v == [i \in 0 .. L |-> TRUE]
    <3>1. u[0] = v[0]
      <4>1. 0 \in 0 .. L
        BY <1>4
      <4> HIDE DEF R, n
      <4> QED
        BY <2>4, <4>1
    <3>2. \A i \in 1 .. L : u[i - 1] = v[i - 1] => u[i] = v[i]
      <4> TAKE i \in 1 .. L
      <4> HAVE u[i - 1] = v[i - 1]
      <4>1. i - 1 \in 0 .. L /\ i \in 0 .. L
        BY <1>4
      <4> HIDE DEF R, n
      <4>2. R(i - 1) \in Values(n)
        BY <4>1
      <4>3. R(i) \in Values(n)
        BY <2>3, <4>2
      <4> QED
        BY <4>1, <4>3
    <3>3. \A i \in 0 .. L : u[i] = v[i]
      <4> HIDE DEF u, v
      <4> QED
        BY <1>4, <3>1, <3>2, LoopComputes
    <3> HIDE DEF R, n
    <3> QED
      BY <3>3
  <2>6. ASSUME NEW i \in 1 .. L PROVE g[i] = Moved(g[i - 1], Y)
    <3>1. i - 1 \in 0 .. L /\ i \in 0 .. L
      BY <1>4
    <3> HIDE DEF R, n
    <3>2. Str(n, R(i)) = Moved(Str(n, R(i - 1)), Y)
      BY <2>3, <2>5, <3>1
    <3> QED
      BY <3>1, <3>2
  <2>7. g[0] = Zeros(M) \o X
    <3>1. n - L = M /\ L <= n /\ n <= MaxBitWidth /\ n \in Nat /\ 0 \in 0 .. L
      BY <1>0, <1>4
    <3>2. g[0] = Str(n, R(0))
      BY <3>1
    <3> HIDE DEF n, R, g
    <3>3. Padded(Str(L, x), n) = Str(n, x)
      BY <1>2, <1>4, <3>1, PaddedIs
    <3> QED
      BY <1>2, <1>5, <2>2, <3>1, <3>2, <3>3 DEF Padded
  <2>8. g = F(g)
    <3>1. g = [i \in 0 .. L |-> g[i]]
      OBVIOUS
    <3>2. \A i \in 0 .. L : i # 0 => i \in 1 .. L
      BY <1>4
    <3> HIDE DEF g
    <3> QED
      BY <2>6, <2>7, <3>1, <3>2
  <2> DEFINE f == CHOOSE f : f = F(f)
  <2>9. f = F(f)
    <3>1. \E e : e = F(e)
      BY <2>8
    <3> QED
      BY <3>1
  <2>10. r = f[L]
    <3> DEFINE moved(t) ==
                 LET front == SubSeq(t, 1, Len(Y))
                     back  == SubSeq(t, Len(Y) + 1, Len(t))
                 IN  IF Last(t) = 0 THEN <<0>> \o Front(t)
                     ELSE <<StringCarries(front, Y)[1]>> \o Front(StringSum(front, Y) \o back)
               G(h) == [i \in 0 .. Len(X) |-> IF i = 0 THEN Zeros(Len(Y)) \o X ELSE moved(h[i - 1])]
    <3>1. r = (CHOOSE h : h = G(h))[Len(X)]
      BY <1>1, <1>3, <1>11 DEF mult_unbounded_bin_str
    <3>2. \A t : moved(t) = Moved(t, Y)
      BY DEF Moved
    <3> HIDE DEF moved
    <3>3. \A h : G(h) = F(h)
      BY <1>5, <3>2
    <3> HIDE DEF G, F
    <3>4. (CHOOSE h : h = G(h)) = (CHOOSE h : h = F(h))
      BY <3>3
    <3> QED
      BY <1>5, <3>1, <3>4 DEF f
  <2> HIDE DEF f
  <2>11. f[0] = Zeros(M) \o X /\ \A i \in 1 .. L : f[i] = Moved(f[i - 1], Y)
    <3>1. f[0] = F(f)[0] /\ \A i \in 1 .. L : f[i] = F(f)[i]
      <4> HIDE DEF F
      <4> QED
        BY <2>9
    <3>2. 0 \in 0 .. L /\ \A i \in 1 .. L : i \in 0 .. L /\ i # 0
      BY <1>4
    <3> QED
      BY <3>1, <3>2
  <2>12. f[L] = g[L]
    <3> HIDE DEF g, F
    <3>1. \A k \in 1 .. L : f[k - 1] = g[k - 1] => f[k] = g[k]
      BY <2>6, <2>11
    <3>2. L \in Nat /\ f[0] = g[0]
      BY <1>4, <2>7, <2>11
    <3> QED
      BY <2>1, <3>1, <3>2, LoopComputes
  <2>13. g[L] = Str(n, x * y) /\ x * y \in Values(n)
    <3> HIDE DEF R, n
    <3> QED
      BY <2>1, <2>2, <2>5
  <2> QED
    BY <1>4, <2>10, <2>12, <2>13
<1> QED
  BY <1>7, <1>8, <1>9, <1>10, <1>11

----------------------------------------------------------------------------
(* The digits of a number.                                                 *)

\* The digits of a number are those of its quotient and the rest.
LEMMA DigitsAre ==
    ASSUME NEW base \in Nat, base > 1, NEW n \in Nat
    PROVE  DigitsOf(n, base) = IF n < base THEN <<n>>
                               ELSE DigitsOf(n \div base, base) \o <<n % base>>
<1> DEFINE F(f) == [m \in Nat |-> IF m < base THEN <<m>> ELSE f[m \div base] \o <<m % base>>]
           c(m) == CHOOSE f : DigitsTo(f, base, m)
           g == [m \in Nat |-> c(m)[m]]
<1>1. \A m \in Nat : DigitsTo(c(m), base, m)
  BY DigitsExist
<1>2. ASSUME NEW m \in Nat, NEW j \in 0 .. m PROVE g[j] = c(m)[j]
  <2>1. j \in Nat /\ j \in 0 .. j /\ \A i \in 0 .. j : i \in 0 .. m
    OBVIOUS
  <2>2. DigitsTo(c(m), base, j) /\ DigitsTo(c(j), base, j)
    <3>1. DigitsTo(c(m), base, m) /\ DigitsTo(c(j), base, j)
      BY <1>1, <2>1
    <3> HIDE DEF c
    <3> QED
      BY <2>1, <3>1 DEF DigitsTo
  <2>3. g[j] = c(j)[j]
    BY <2>1
  <2> HIDE DEF c, g
  <2>4. c(j)[j] = c(m)[j]
    BY <2>1, <2>2, DigitsUnique
  <2> QED
    BY <2>3, <2>4
<1>3. ASSUME NEW m \in Nat PROVE g[m] = DigitsFrom(g, base, m)
  <2>1. m \in 0 .. m /\ g[m] = c(m)[m]
    OBVIOUS
  <2>2. c(m)[m] = DigitsFrom(c(m), base, m)
    <3>1. DigitsTo(c(m), base, m)
      BY <1>1
    <3> HIDE DEF c
    <3> QED
      BY <2>1, <3>1 DEF DigitsTo
  <2>3. CASE m < base
    <3> HIDE DEF g, c
    <3> QED
      BY <2>1, <2>2, <2>3 DEF DigitsFrom
  <2>4. CASE ~(m < base)
    <3> DEFINE q == m \div base
    <3>1. q \in 0 .. m
      <4>1. q \in Nat /\ q <= m
        BY QuotientBelow
      <4> HIDE DEF q
      <4> QED
        BY <4>1
    <3>2. g[q] = c(m)[q]
      <4> HIDE DEF g, c, q
      <4> QED
        BY <1>2, <3>1
    <3> HIDE DEF g, c
    <3> QED
      BY <2>1, <2>2, <2>4, <3>2, Zenon DEF DigitsFrom
  <2> QED
    BY <2>3, <2>4
<1>4. g = F(g)
  <2>1. g = [m \in Nat |-> g[m]]
    <3> HIDE DEF c
    <3> QED
      OBVIOUS
  <2> HIDE DEF g
  <2> QED
    BY <1>3, <2>1, Zenon DEF DigitsFrom
<1> DEFINE f == CHOOSE f : f = F(f)
<1>5. f = F(f)
  <2>1. \E e : e = F(e)
    BY <1>4
  <2> QED
    BY <2>1, Zenon
<1>6. \A m \in Nat : DigitsOf(m, base) = f[m]
  BY DEF DigitsOf
<1> HIDE DEF f
<1>7. n \div base \in Nat
  BY QuotientBelow
<1>8. f[n] = IF n < base THEN <<n>> ELSE f[n \div base] \o <<n % base>>
  BY <1>5
<1> QED
  BY <1>6, <1>7, <1>8

----------------------------------------------------------------------------

\* Nothing and zeros read as zero, and so does every number by its digits.
LEMMA ReadingDigits ==
    ASSUME NEW base \in Nat, base > 1, NEW zeros \in {<<>>, << 0 >>, << 0, 0 >>}
    PROVE  /\ StandsFor(zeros, base, 0)
           /\ \A m \in Nat : StandsFor(zeros \o DigitsOf(m, base), base, m)
           /\ \A m \in Nat : StandsFor(DigitsOf(m, base), base, m)
<1>1. StandsFor(<<>>, base, 0)
  <2> DEFINE h == [n \in 0 .. 0 |-> 0]
  <2>1. Len(<<>>) = 0 /\ <<>> \in Seq(0 .. base - 1)
    OBVIOUS
  <2>2. h \in [0 .. 0 -> Nat] /\ h[0] = 0 /\ \A n \in 0 .. 0 : h[n] <= 0
    OBVIOUS
  <2>3. Reads(<<>>, base, 0, h)
    <3> HIDE DEF h
    <3> QED
      BY <2>1, <2>2 DEF Reads
  <2> QED
    BY <2>3 DEF StandsFor
<1>2. ASSUME NEW d, NEW m \in Nat, StandsFor(d, base, m)
      PROVE  StandsFor(zeros \o d, base, m)
  <2>1. d \in Seq(0 .. base - 1)
    BY <1>2 DEF StandsFor, Reads
  <2>2. <<>> \o d = d
    BY <2>1, ConcatEmptySeq
  <2>3. StandsFor(<<0>> \o d, base, m)
    BY <1>2, ReadingZeroFirst
  <2>4. StandsFor(<<0>> \o (<<0>> \o d), base, m)
    BY <2>3, ReadingZeroFirst
  <2>5. <<0, 0>> \o d = <<0>> \o (<<0>> \o d)
    <3>1. <<0>> \in Seq(0 .. base - 1)
      <4>1. 0 \in 0 .. base - 1
        OBVIOUS
      <4> DEFINE S == 0 .. base - 1
      <4> HIDE DEF S
      <4> QED
        BY <4>1 DEF S
    <3>3. <<0>> \o <<0>> = <<0, 0>>
      <4> DEFINE u == <<0>>
                 v == u \o u
                 t == <<0, 0>>
      <4>1. u \in Seq({0}) /\ Len(u) = 1 /\ u[1] = 0
        OBVIOUS
      <4>2. t \in Seq({0}) /\ Len(t) = 2 /\ t[1] = 0 /\ t[2] = 0
        OBVIOUS
      <4> HIDE DEF u, t
      <4>3. /\ v \in Seq({0}) /\ Len(v) = 1 + 1
            /\ \A i \in 1 .. 1 + 1 : v[i] = IF i <= 1 THEN u[i] ELSE u[i - 1]
        <5>1. /\ u \o u \in Seq({0}) /\ Len(u \o u) = Len(u) + Len(u)
              /\ \A i \in 1 .. Len(u) + Len(u) :
                   (u \o u)[i] = IF i <= Len(u) THEN u[i] ELSE u[i - Len(u)]
          <6>1. u \in Seq({0})
            BY <4>1
          <6> QED
            BY <6>1, ConcatProperties
        <5> QED
          BY <4>1, <5>1
      <4> HIDE DEF v
      <4>4. Len(v) = Len(t) /\ \A i \in 1 .. Len(v) : v[i] = t[i]
        BY <4>1, <4>2, <4>3
      <4>5. v = t
        BY <4>2, <4>3, <4>4, SeqEqual
      <4> QED
        BY <4>5 DEF v, u, t
    <3>2. (<<0>> \o <<0>>) \o d = <<0>> \o (<<0>> \o d)
      BY <2>1, <3>1, ConcatAssociative
    <3> QED
      BY <3>2, <3>3
  <2> QED
    BY <1>2, <2>2, <2>3, <2>4, <2>5
<1>3. StandsFor(zeros, base, 0)
  <2>1. StandsFor(zeros \o <<>>, base, 0)
    BY <1>1, <1>2
  <2>2. zeros \in Seq({0})
    <3>1. <<>> \in Seq({0}) /\ <<0>> \in Seq({0})
      OBVIOUS
    <3>2. <<0, 0>> \in Seq({0})
      OBVIOUS
    <3> QED
      BY <3>1, <3>2
  <2>3. zeros \o <<>> = zeros
    BY <2>2, ConcatEmptySeq
  <2> QED
    BY <2>1, <2>3
<1>4. \A m \in Nat : StandsFor(DigitsOf(m, base), base, m)
  <2> DEFINE bad == {m \in Nat : ~StandsFor(DigitsOf(m, base), base, m)}
  <2>1. ASSUME bad # {} PROVE FALSE
    <3>1. PICK m \in bad : \A j \in bad : m <= j
      <4>1. bad \in SUBSET Nat
        OBVIOUS
      <4> HIDE DEF bad
      <4> QED
        BY <2>1, <4>1, LeastNumber
    <3>2. m \in Nat /\ ~StandsFor(DigitsOf(m, base), base, m)
      OBVIOUS
    <3>3. DigitsOf(m, base) = IF m < base THEN <<m>> ELSE DigitsOf(m \div base, base) \o <<m % base>>
      BY <3>2, DigitsAre
    <3>4. CASE m < base
      <4>1. m \in 0 .. base - 1 /\ 0 \in Nat /\ 0 * base + m = m
        BY <3>2, <3>4
      <4>2. StandsFor(<<>> \o <<m>>, base, 0 * base + m)
        BY <1>1, <4>1, ReadingMore
      <4>3. <<>> \o <<m>> = <<m>>
        OBVIOUS
      <4> QED
        BY <3>2, <3>3, <3>4, <4>1, <4>2, <4>3
    <3>5. CASE ~(m < base)
      <4> DEFINE q == m \div base
                 r == m % base
      <4>1. q \in Nat /\ r \in 0 .. base - 1 /\ m = q * base + r /\ q < m
        <5>1. m # 0
          BY <3>2, <3>5
        <5> QED
          BY <3>2, <5>1, QuotientBelow
      <4>2. StandsFor(DigitsOf(q, base), base, q)
        <5>1. q \notin bad
          <6> HIDE DEF bad, q
          <6>1. ~(m <= q)
            BY <3>2, <4>1
          <6> QED
            BY <3>1, <6>1
        <5> HIDE DEF q
        <5> QED
          BY <4>1, <5>1
      <4>3. DigitsOf(m, base) = DigitsOf(q, base) \o <<r>>
        BY <3>3, <3>5
      <4> HIDE DEF q, r
      <4>4. StandsFor(DigitsOf(q, base) \o <<r>>, base, q * base + r)
        BY <4>1, <4>2, ReadingMore
      <4> QED
        BY <3>2, <4>1, <4>3, <4>4
    <3> QED
      BY <3>4, <3>5
  <2> QED
    BY <2>1
<1> QED
  BY <1>2, <1>3, <1>4

----------------------------------------------------------------------------
(* Decimal digits.                                                         *)

\* Four digits: those of a decimal or hexadecimal digit, and of ten.
LEMMA FourDigits ==
    ASSUME 6 <= MaxBitWidth, NEW d \in 0 .. 15
    PROVE  /\ <<Bit(d, 3), Bit(d, 2), Bit(d, 1), Bit(d, 0)>> = Str(4, d)
           /\ d \in Values(4) /\ digit2const(d) = BinOf(d)
           /\ LengthOf(d) \in 0 .. 4 /\ d \in Values(LengthOf(d))
           /\ <<1, 0, 1, 0>> = Str(4, 10) /\ 10 \in Values(4)
<1>1. d \in Values(4) /\ 10 \in Values(4) /\ 4 \in Nat /\ 4 <= MaxBitWidth
  BY SmallPowers, MaxBitWidthAssumption
<1>2. ASSUME NEW e \in 0 .. 15
      PROVE  <<Bit(e, 3), Bit(e, 2), Bit(e, 1), Bit(e, 0)>> = Str(4, e)
  <2> DEFINE s == <<Bit(e, 3), Bit(e, 2), Bit(e, 1), Bit(e, 0)>>
  <2>1. Bit(e, 3) \in {0, 1} /\ Bit(e, 2) \in {0, 1} /\ Bit(e, 1) \in {0, 1} /\ Bit(e, 0) \in {0, 1}
    <3>1. e \in Nat
      OBVIOUS
    <3> QED
      BY <3>1, SmallPowers, Bits
  <2>2. /\ s \in Seq({0, 1}) /\ Len(s) = 4
        /\ s[1] = Bit(e, 3) /\ s[2] = Bit(e, 2) /\ s[3] = Bit(e, 1) /\ s[4] = Bit(e, 0)
    BY <2>1
  <2> HIDE DEF s
  <2>3. \A i \in 1 .. 4 : s[i] = Bit(e, 4 - i)
    <3>1. 4 - 1 = 3 /\ 4 - 2 = 2 /\ 4 - 3 = 1 /\ 4 - 4 = 0
      OBVIOUS
    <3>2. \A i \in 1 .. 4 : i = 1 \/ i = 2 \/ i = 3 \/ i = 4
      OBVIOUS
    <3> QED
      BY <2>2, <3>1, <3>2
  <2>4. s = Str(4, e)
    <3>1. e \in Nat
      OBVIOUS
    <3> QED
      BY <1>1, <2>2, <2>3, <3>1, StrBy
  <2> QED
    BY <2>4 DEF s
<1>3. digit2const(d) = BinOf(d) /\ LengthOf(d) \in 0 .. 4
  <2>1. strip_zeroes(Str(4, d)) = BinOf(d)
    BY <1>1, Stripped
  <2>2. LengthOf(d) \in 0 .. 4
    BY <1>1, Lengths
  <2> QED
    BY <1>2, <2>1, <2>2 DEF digit2const
<1>4. d \in Values(LengthOf(d))
  BY <1>1, Lengths DEF IsLength
<1>5. <<1, 0, 1, 0>> = Str(4, 10)
  <2>1. 10 \div 8 = 1 /\ 10 \div 4 = 2 /\ 10 \div 2 = 5 /\ 10 \div 1 = 10
    OBVIOUS
  <2>2. 1 % 2 = 1 /\ 2 % 2 = 0 /\ 5 % 2 = 1 /\ 10 % 2 = 0
    OBVIOUS
  <2>3. Bit(10, 3) = 1 /\ Bit(10, 2) = 0 /\ Bit(10, 1) = 1 /\ Bit(10, 0) = 0
    BY <2>1, <2>2, SmallPowers DEF Bit
  <2>4. 10 \in 0 .. 15
    OBVIOUS
  <2> QED
    BY <1>2, <2>3, <2>4
<1> QED
  BY <1>1, <1>2, <1>3, <1>4, <1>5

\* btor2parser_dec_to_bin_str gives the binary digits of the number.
LEMMA DecimalIsBinary ==
    ASSUME NEW k \in Nat, k + 6 <= MaxBitWidth, NEW m \in Values(k), NEW d, StandsFor(d, 10, m)
    PROVE  dec_to_bin_str(d) = OrZero(BinOf(m))
<1> DEFINE N == Len(d)
           ten == <<1, 0, 1, 0>>
           step(s, n) == add_unbounded_bin_str(mult_unbounded_bin_str(s, ten), digit2const(d[n]))
           F(f) == [n \in 0 .. N |-> IF n = 0 THEN <<>> ELSE step(f[n - 1], n)]
<1>0. /\ MaxBitWidth \in Nat /\ k <= MaxBitWidth /\ 6 <= MaxBitWidth /\ k + 4 \in Nat
      /\ k + 4 <= MaxBitWidth /\ k \in 0 .. MaxBitWidth
  BY MaxBitWidthAssumption
<1>1. PICK h : Reads(d, 10, m, h)
  BY DEF StandsFor
<1>2. /\ d \in Seq(0 .. 9) /\ N \in Nat /\ h[0] = 0 /\ h[N] = m
      /\ \A n \in 1 .. N : h[n] = h[n - 1] * 10 + d[n] /\ d[n] \in 0 .. 15
      /\ \A n \in 0 .. N : h[n] <= m /\ h[n] \in Nat
  <2>1. 10 - 1 = 9
    OBVIOUS
  <2>2. d \in Seq(0 .. 9) /\ h \in [0 .. N -> Nat]
    BY <1>1, <2>1 DEF Reads
  <2>3. N \in Nat /\ \A n \in 1 .. N : d[n] \in 0 .. 9
    BY <2>2
  <2>4. \A n \in 1 .. N : d[n] \in 0 .. 15
    BY <2>3
  <2>5. \A n \in 0 .. N : h[n] \in Nat
    BY <2>2
  <2> HIDE DEF N
  <2> QED
    BY <1>1, <2>2, <2>3, <2>4, <2>5 DEF Reads, N
<1>3. \A n \in 0 .. N : h[n] \in Values(k)
  <2> DEFINE p == 2 ^ k
  <2>1. p \in Nat \ {0} /\ m \in 0 .. p - 1
    BY <1>0, PowerIs DEF Values
  <2> HIDE DEF p, N
  <2>2. \A n \in 0 .. N : h[n] \in 0 .. p - 1
    BY <1>2, <2>1
  <2> QED
    BY <2>2 DEF Values, p
<1> HIDE DEF N
<1> DEFINE g == [n \in 0 .. N |-> BinOf(h[n])]
<1>4. ASSUME NEW n \in 1 .. N PROVE g[n] = step(g[n - 1], n)
  <2> DEFINE x == h[n - 1]
             e == d[n]
             l == LengthOf(x)
  <2>1. n - 1 \in 0 .. N /\ n \in 0 .. N
    BY <1>2
  <2>2. x \in Values(k) /\ x \in Nat /\ e \in 0 .. 15 /\ h[n] = x * 10 + e
    BY <1>2, <1>3, <2>1
  <2>3. g[n] = BinOf(x * 10 + e) /\ g[n - 1] = BinOf(x)
    BY <2>1, <2>2
  <2> HIDE DEF x, e, g
  <2>4. l \in 0 .. k /\ x \in Values(l) /\ BinOf(x) = Str(l, x)
    BY <1>0, <2>2, Lengths DEF IsLength, BinOf
  <2> HIDE DEF l
  <2>5. ten = Str(4, 10) /\ 10 \in Values(4) /\ digit2const(e) = BinOf(e)
        /\ LengthOf(e) \in 0 .. 4 /\ e \in Values(LengthOf(e)) /\ BinOf(e) = Str(LengthOf(e), e)
    BY <1>0, <2>2, FourDigits DEF BinOf
  <2>6. l \in Nat /\ l + 4 + 1 <= MaxBitWidth /\ 4 \in Nat
    BY <1>0, <2>4
  <2>7. \E q \in 0 .. l + 4 : /\ mult_unbounded_bin_str(Str(l, x), Str(4, 10)) = Str(q, x * 10)
                              /\ x * 10 \in Values(q)
    BY <2>4, <2>5, <2>6, MultOnStrings
  <2>8. PICK q \in 0 .. l + 4 : /\ mult_unbounded_bin_str(Str(l, x), Str(4, 10)) = Str(q, x * 10)
                                /\ x * 10 \in Values(q)
    BY <2>7
  <2> DEFINE t == LengthOf(e)
             K == k + 4
             y == x * 10
  <2>9. /\ q \in Nat /\ t \in Nat /\ K \in Nat /\ q <= K /\ t <= K /\ K + 2 <= MaxBitWidth
        /\ y \in Values(q) /\ e \in Values(t)
    <3>1. t \in 0 .. 4 /\ e \in Values(t) /\ y \in Values(q)
      BY <2>5, <2>8
    <3> HIDE DEF t, y
    <3> QED
      BY <1>0, <2>4, <3>1
  <2> HIDE DEF t, K, y
  <2>10. add_unbounded_bin_str(Str(q, y), Str(t, e)) = BinOf(y + e)
    BY <2>9, AddOnStrings
  <2> QED
    BY <2>3, <2>4, <2>5, <2>8, <2>10 DEF y, t, e
<1>5. g[0] = <<>>
  <2>1. g[0] = BinOf(0)
    BY <1>2
  <2> QED
    BY <1>0, <2>1, ShortStrings
<1>6. g = F(g)
  <2>1. g = [n \in 0 .. N |-> g[n]]
    OBVIOUS
  <2>2. \A n \in 0 .. N : n # 0 => n \in 1 .. N
    BY <1>2
  <2> HIDE DEF g, step
  <2> QED
    BY <1>4, <1>5, <2>1, <2>2
<1> DEFINE f == CHOOSE f : f = F(f)
<1>7. f = F(f)
  <2>1. \E e : e = F(e)
    BY <1>6
  <2> QED
    BY <2>1
<1>8. dec_to_bin_str(d) = OrZero(f[N])
  BY DEF dec_to_bin_str, N
<1> HIDE DEF f
<1>9. f[0] = <<>> /\ \A n \in 1 .. N : f[n] = step(f[n - 1], n)
  <2>1. f[0] = F(f)[0] /\ \A n \in 1 .. N : f[n] = F(f)[n]
    <3> HIDE DEF F
    <3> QED
      BY <1>7
  <2>2. 0 \in 0 .. N /\ \A n \in 1 .. N : n \in 0 .. N /\ n # 0
    BY <1>2
  <2> HIDE DEF step
  <2> QED
    BY <2>1, <2>2
<1>10. f[N] = g[N]
  <2> HIDE DEF g, F, step
  <2>1. \A n \in 1 .. N : f[n - 1] = g[n - 1] => f[n] = g[n]
    BY <1>4, <1>9
  <2>2. N \in 0 .. N /\ N \in Nat /\ f[0] = g[0]
    BY <1>2, <1>5, <1>9
  <2>3. \A n \in 0 .. N : f[n] = g[n]
    BY <2>1, <2>2, LoopComputes
  <2> QED
    BY <2>2, <2>3
<1>11. g[N] = BinOf(m)
  BY <1>2
<1> QED
  BY <1>8, <1>10, <1>11

\* A number is written with as many digits as it has, zero with one.
WrittenLength(z) == IF z = 0 THEN 1 ELSE LengthOf(z)

LEMMA WrittenIs ==
    ASSUME NEW k \in Nat, k <= MaxBitWidth, NEW z \in Values(k)
    PROVE  LET l == WrittenLength(z)
           IN  /\ OrZero(BinOf(z)) = Str(l, z) /\ Len(OrZero(BinOf(z))) = l
               /\ l \in Nat \ {0} /\ l <= MaxBitWidth /\ z \in Values(l) /\ z \in Nat
               /\ \A n \in 1 .. MaxBitWidth : l <= n <=> z < 2 ^ n
<1> DEFINE l == WrittenLength(z)
<1>0. MaxBitWidth \in Nat /\ 1 <= MaxBitWidth /\ 1 \in 0 .. MaxBitWidth
  BY MaxBitWidthAssumption
<1>1. z \in Nat /\ (BinOf(z) = <<>> <=> z = 0)
  BY ValuesGrow, ShortStrings
<1>2. CASE z = 0
  <2>1. Str(1, 0) = <<0>> /\ 0 \in Values(1)
    <3>1. Bit(0, 0) = 0
      <4>1. 0 \in 0 .. MaxBitWidth
        BY <1>0
      <4> QED
        BY <4>1, BitOfZero
    <3>2. Str(1, 0) = [i \in 1 .. 1 |-> 0]
      <4>1. \A i \in 1 .. 1 : 1 - i = 0
        OBVIOUS
      <4> QED
        BY <3>1, <4>1 DEF Str
    <3>3. [i \in 1 .. 1 |-> 0] = <<0>>
      OBVIOUS
    <3> QED
      BY <3>2, <3>3, Bits
  <2>2. OrZero(BinOf(z)) = <<0>> /\ l = 1
    BY <1>1, <1>2 DEF OrZero, WrittenLength
  <2>3. \A n \in 1 .. MaxBitWidth : l <= n /\ z < 2 ^ n
    <3> TAKE n \in 1 .. MaxBitWidth
    <3> DEFINE p == 2 ^ n
    <3>1. p \in Nat \ {0}
      <4>1. n \in 0 .. MaxBitWidth
        OBVIOUS
      <4> QED
        BY <4>1, PowerIs
    <3> HIDE DEF p
    <3>2. 0 < p
      BY <3>1
    <3> QED
      BY <1>2, <2>2, <3>2 DEF p
  <2>4. Len(<<0>>) = 1
    OBVIOUS
  <2> HIDE DEF l
  <2>5. OrZero(BinOf(z)) = Str(l, z) /\ Len(OrZero(BinOf(z))) = l
    BY <1>2, <2>1, <2>2, <2>4
  <2>6. l \in Nat \ {0} /\ l <= MaxBitWidth /\ z \in Values(l)
    BY <1>0, <1>2, <2>1, <2>2
  <2> QED
    BY <1>1, <2>3, <2>5, <2>6 DEF l
<1>3. CASE z # 0
  <2>1. OrZero(BinOf(z)) = Str(l, z) /\ l = LengthOf(z)
    BY <1>1, <1>3 DEF OrZero, WrittenLength, BinOf
  <2>2. l \in 0 .. k /\ z \in Values(l) /\ (l = 0 <=> z = 0)
    BY <2>1, Lengths, ShortStrings DEF IsLength
  <2>3. \A n \in 1 .. MaxBitWidth : l <= n <=> z < 2 ^ n
    <3> TAKE n \in 1 .. MaxBitWidth
    <3>1. n \in Nat /\ n <= MaxBitWidth
      BY <1>0
    <3> QED
      BY <2>1, <3>1, LengthFits
  <2> HIDE DEF l
  <2>4. l \in Nat \ {0} /\ l <= MaxBitWidth
    BY <1>0, <1>3, <2>2
  <2>5. Len(Str(l, z)) = l
    BY <1>1, <2>4, StrIs
  <2> QED
    BY <1>1, <2>1, <2>2, <2>3, <2>4, <2>5 DEF l
<1> QED
  BY <1>2, <1>3

\* btorsim_bv_const makes the vector of the number with the digits.
LEMMA ConstOnLimbs ==
    ASSUME NEW l, Handled(l), NEW z \in Values(l)
    PROVE  bv_const(Str(l, z), l) = Vector(l, z) /\ char_to_bv(Str(l, z)) = Vector(l, z)
<1> DEFINE S == Str(l, z)
           V == Vector(l, z)
           F(f) == [i \in 0 .. l |-> IF i = 0 THEN lv_new(l)
                                     ELSE set_bit(f[i - 1], i - 1, S[l - (i - 1)])]
           G(f) == [i \in 0 .. l |-> IF i = 0 THEN lv_new(l)
                                     ELSE set_bit(f[i - 1], i - 1, get_bit(V, 0 + i - 1))]
<1>1. l \in Nat \ {0} /\ l <= MaxBitWidth /\ MaxBitWidth \in Nat /\ l \in 0 .. MaxBitWidth /\ l \in Nat
      /\ l - 1 \in Nat /\ l - 1 < l /\ 0 <= l - 1 /\ (l - 1) - 0 + 1 = l /\ 0 \in Nat
  <2>1. l \in Nat \ {0} /\ l \in 0 .. MaxBitWidth /\ MaxBitWidth \in Nat
    BY LimbWidth
  <2> QED
    BY <2>1
<1>2. z \in Nat
  BY <1>1, ValuesGrow
<1>3. Len(S) = l /\ \A i \in 1 .. l : S[i] = Bit(z, l - i)
  BY <1>1, <1>2, StrIs
<1>4. \A i \in 1 .. l : S[l - (i - 1)] = get_bit(V, 0 + i - 1)
  <2> TAKE i \in 1 .. l
  <2> DEFINE j == i - 1
  <2>1. j \in 0 .. l - 1 /\ l - j \in 1 .. l /\ l - (l - j) = j /\ 0 + i - 1 = j
    BY <1>1
  <2> HIDE DEF S, V, j
  <2>2. S[l - j] = Bit(z, j)
    BY <1>3, <2>1
  <2>3. get_bit(V, j) = Bit(z, j)
    BY <2>1, GetBit DEF V
  <2> QED
    BY <2>1, <2>2, <2>3 DEF j
<1>5. \A f : F(f) = G(f)
  <2>1. \A i \in 0 .. l : i # 0 => i \in 1 .. l
    BY <1>1
  <2> HIDE DEF S, V
  <2> QED
    BY <1>4, <2>1
<1>6. bv_const(S, l) = (CHOOSE f : f = F(f))[l]
  <2> HIDE DEF S
  <2> QED
    BY DEF bv_const
<1>7. lv_slice(V, l - 1, 0) = (CHOOSE f : f = G(f))[l]
  <2> DEFINE m == (l - 1) - 0 + 1
             H(f) == [j \in 0 .. m |-> IF j = 0 THEN lv_new(m)
                                     ELSE set_bit(f[j - 1], j - 1, get_bit(V, 0 + j - 1))]
  <2>1. lv_slice(V, l - 1, 0) = (CHOOSE f : f = H(f))[m]
    <3> HIDE DEF V
    <3> QED
      BY DEF lv_slice
  <2>2. m = l
    BY <1>1
  <2>3. \A f : H(f) = G(f)
    <3> HIDE DEF m, V
    <3> QED
      BY <2>2
  <2> HIDE DEF H, G, m
  <2>4. (CHOOSE f : f = H(f)) = (CHOOSE f : f = G(f))
    BY <2>3
  <2> QED
    BY <2>1, <2>2, <2>4
<1>8. (CHOOSE f : f = F(f)) = (CHOOSE f : f = G(f))
  <2> HIDE DEF F, G
  <2> QED
    BY <1>5
<1>9. lv_slice(V, l - 1, 0) = Vector((l - 1) - 0 + 1, bv_slice(z, l - 1, 0))
  <2> DEFINE u == l - 1
  <2>1. u \in Nat /\ 0 <= u /\ u < l
    BY <1>1
  <2> HIDE DEF u
  <2>2. lv_slice(Vector(l, z), u, 0) = Vector(u - 0 + 1, bv_slice(z, u, 0))
    BY <1>1, <2>1, SliceOnLimbs
  <2> QED
    BY <2>2 DEF u
<1>10. bv_slice(z, l - 1, 0) = z
  <2>1. 2 ^ 0 = 1 /\ z \div 1 = z
    BY <1>2, PowersAssumption, MaxBitWidthAssumption
  <2>2. z % 2 ^ l = z
    BY <1>1, RestOfValue
  <2> QED
    BY <1>1, <2>1, <2>2 DEF bv_slice, Fit
<1> HIDE DEF F, G, S, V
<1>11. bv_const(S, l) = Vector(l, z)
  BY <1>1, <1>6, <1>7, <1>8, <1>9, <1>10
<1> QED
  BY <1>3, <1>11 DEF char_to_bv, S

LEMMA ExtendedIs ==
    ASSUME NEW l, Handled(l), NEW n, Handled(n), l <= n, NEW z \in Values(l)
    PROVE  ExtendedTo(Vector(l, z), n) = Vector(n, z) /\ z \in Values(n)
<1> DEFINE V == Vector(l, z)
<1>1. V.width = l
  BY VectorParts
<1>2. l \in Nat /\ n \in Nat /\ n - l \in Nat /\ l + (n - l) = n
  BY DEF Handled
<1>3. lv_uext(V, n - l) = Vector(n, z) /\ z \in Values(n)
  <2> DEFINE k == n - l
  <2>1. k \in Nat /\ l + k = n /\ Handled(l + k)
    BY <1>2
  <2> HIDE DEF k
  <2>2. lv_uext(V, k) = Vector(l + k, z) /\ z \in Values(l + k)
    BY <2>1, ZeroExtensionOnLimbs
  <2> QED
    BY <2>1, <2>2 DEF k
<1> HIDE DEF V
<1>4. CASE l < n
  BY <1>1, <1>3, <1>4 DEF ExtendedTo, V
<1>5. CASE l = n
  BY <1>1, <1>3, <1>5, <1>2 DEF ExtendedTo, V
<1> QED
  BY <1>2, <1>4, <1>5

\* The smallest number of a width, without its sign, is the one whose digits are
\* zeros behind the first.
LEMMA MinimumIsPower ==
    ASSUME NEW k \in Nat, k <= MaxBitWidth, NEW z \in Values(k), z # 0
    PROVE  /\ IsMinVal(TRUE, OrZero(BinOf(z))) <=> z = 2 ^ (LengthOf(z) - 1)
           /\ LengthOf(z) \in 1 .. k
           /\ 2 ^ (LengthOf(z) - 1) <= z
<1> DEFINE l == LengthOf(z)
           S == Str(l, z)
           p == 2 ^ (l - 1)
<1>0. MaxBitWidth \in Nat
  BY MaxBitWidthAssumption
<1>1. l \in 0 .. k /\ IsLength(l, z) /\ z \in Nat /\ z \in Values(l) /\ p <= z /\ l # 0
  <2>1. l \in 0 .. k /\ IsLength(l, z) /\ z \in Nat /\ l # 0
    BY Lengths, ShortStrings
  <2> HIDE DEF l
  <2> QED
    BY <2>1 DEF IsLength
<1>2. OrZero(BinOf(z)) = S
  BY ShortStrings DEF OrZero, BinOf
<1> HIDE DEF l
<1>3. /\ l \in Nat \ {0} /\ l \in 1 .. k /\ l <= MaxBitWidth /\ l - 1 \in 0 .. l - 1
      /\ l \in 1 .. MaxBitWidth /\ l \in 0 .. MaxBitWidth /\ l \in Nat
  BY <1>0, <1>1
<1>4. Len(S) = l /\ \A i \in 1 .. l : S[i] = Bit(z, l - i)
  BY <1>1, <1>3, StrIs
<1>5. Bit(z, l - 1) = 1
  BY <1>1, <1>3, TopBit
<1>6. p \in Values(l) /\ \A j \in 0 .. l - 1 : Bit(p, j) = IF j = l - 1 THEN 1 ELSE 0
  <2> DEFINE i == l - 1
  <2>1. i \in 0 .. l - 1
    BY <1>3
  <2> HIDE DEF i
  <2>2. 2 ^ i \in Values(l) /\ \A j \in 0 .. l - 1 : Bit(2 ^ i, j) = IF j = i THEN 1 ELSE 0
    BY <1>3, <2>1, BitOfPower
  <2> QED
    BY <2>2 DEF i
<1> HIDE DEF S, p
<1>7. IsMinVal(TRUE, S) <=> \A i \in 2 .. l : S[i] = 0
  <2>1. S[1] = 1
    <3>1. 1 \in 1 .. l
      BY <1>3
    <3> QED
      BY <1>4, <1>5, <3>1
  <2> QED
    BY <1>4, <2>1 DEF IsMinVal
<1>8. ASSUME \A i \in 2 .. l : S[i] = 0 PROVE z = p
  <2>1. ASSUME NEW j \in 0 .. l - 1 PROVE Bit(z, j) = Bit(p, j)
    <3>1. CASE j = l - 1
      BY <1>5, <1>6, <3>1
    <3>2. CASE j # l - 1
      <4> DEFINE i == l - j
      <4>1. i \in 2 .. l /\ i \in 1 .. l /\ l - i = j
        BY <1>3, <3>2
      <4> HIDE DEF i
      <4> QED
        BY <1>4, <1>6, <1>8, <3>2, <4>1
    <3> QED
      BY <3>1, <3>2
  <2> QED
    BY <1>1, <1>3, <1>6, <2>1, BitsDetermine
<1>9. ASSUME z = p, NEW i \in 2 .. l PROVE S[i] = 0
  <2>1. i \in 1 .. l /\ l - i \in 0 .. l - 1 /\ l - i # l - 1
    BY <1>3
  <2>2. Bit(p, l - i) = 0
    BY <1>6, <2>1
  <2> QED
    BY <1>4, <1>9, <2>1, <2>2
<1>10. IsMinVal(TRUE, S) <=> z = p
  BY <1>7, <1>8, <1>9
<1> QED
  BY <1>1, <1>2, <1>3, <1>10 DEF l, p

\* check_constd: a positive number fits the width, a negative one half of it.
LEMMA DecimalFits ==
    ASSUME NEW k \in Nat, k + 6 <= MaxBitWidth, NEW m \in Values(k), NEW d, StandsFor(d, 10, m),
           NEW n \in 1 .. MaxBitWidth
    PROVE  /\ check_constd(FALSE, d, n) <=> m < 2 ^ n
           /\ m # 0 => (check_constd(TRUE, d, n) <=> m <= 2 ^ (n - 1))
           /\ m = 0 => (check_constd(TRUE, d, n) <=> n > 1)
<1> DEFINE s == OrZero(BinOf(m))
           l == WrittenLength(m)
<1>0. MaxBitWidth \in Nat /\ k <= MaxBitWidth /\ n \in Nat \ {0} /\ n - 1 \in 0 .. MaxBitWidth
      /\ n \in 0 .. MaxBitWidth
  BY MaxBitWidthAssumption
<1>1. dec_to_bin_str(d) = s
  BY DecimalIsBinary
<1>2. /\ s = Str(l, m) /\ Len(s) = l /\ l \in Nat \ {0} /\ l <= MaxBitWidth /\ m \in Nat
      /\ \A j \in 1 .. MaxBitWidth : l <= j <=> m < 2 ^ j
  BY <1>0, WrittenIs
<1>3. /\ check_constd(FALSE, d, n) <=> l <= n
      /\ check_constd(TRUE, d, n) <=> /\ IsMinVal(TRUE, s) => l <= n
                                      /\ ~IsMinVal(TRUE, s) => l + 1 <= n
  <2>1. ~IsMinVal(FALSE, s)
    BY DEF IsMinVal
  <2> HIDE DEF s
  <2> QED
    BY <1>1, <1>2, <2>1 DEF check_constd
<1>4. check_constd(FALSE, d, n) <=> m < 2 ^ n
  BY <1>2, <1>3
<1>5. ASSUME m # 0 PROVE check_constd(TRUE, d, n) <=> m <= 2 ^ (n - 1)
  <2> DEFINE q == 2 ^ (n - 1)
             p == 2 ^ (l - 1)
  <2>1. l = LengthOf(m)
    BY <1>5 DEF WrittenLength
  <2>2. (IsMinVal(TRUE, s) <=> m = p) /\ p <= m
    BY <1>0, <1>5, <2>1, MinimumIsPower
  <2> HIDE DEF l, s
  <2>3. l - 1 \in 0 .. MaxBitWidth /\ l - 1 \in Nat
    BY <1>0, <1>2
  <2>4. q \in Nat \ {0} /\ p \in Nat \ {0}
    <3> HIDE DEF l
    <3> QED
      BY <1>0, <2>3, PowerIs
  <2>5. l + 1 <= n <=> m < q
    <3>1. CASE n = 1
      <4>1. q = 1
        BY <3>1, PowersAssumption, MaxBitWidthAssumption
      <4>2. ~(l + 1 <= n) /\ ~(m < q)
        <5> HIDE DEF q
        <5> QED
          BY <1>2, <1>5, <3>1, <4>1
      <4> QED
        BY <4>2
    <3>2. CASE n # 1
      <4>1. n - 1 \in 1 .. MaxBitWidth
        BY <1>0, <3>2
      <4>2. l <= n - 1 <=> m < q
        BY <1>2, <4>1
      <4>3. l <= n - 1 <=> l + 1 <= n
        BY <1>0, <1>2
      <4> QED
        BY <4>2, <4>3
    <3> QED
      BY <3>1, <3>2
  <2>6. m = p => (l <= n <=> m <= q)
    <3> HAVE m = p
    <3>1. l <= n => p <= q
      <4> DEFINE i == l - 1
                 j == n - 1
      <4> HAVE l <= n
      <4>1. i \in Nat /\ j \in Nat /\ i <= j /\ j <= MaxBitWidth
        BY <1>0, <1>2
      <4> HIDE DEF i, j
      <4>2. 2 ^ i <= 2 ^ j
        BY <4>1, PowersGrow
      <4> QED
        BY <4>2 DEF i, j
    <3>2. ~(l <= n) => ~(p <= q)
      <4> HAVE ~(l <= n)
      <4>1. ~(m < 2 ^ n)
        BY <1>2
      <4>2. 2 ^ n = 2 * q
        <5> DEFINE j == n - 1
        <5>1. j \in 0 .. MaxBitWidth /\ n = j + 1
          BY <1>0
        <5> HIDE DEF j
        <5>2. 2 ^ (j + 1) = 2 * 2 ^ j
          BY <5>1, PowersAssumption
        <5> QED
          BY <5>1, <5>2 DEF j
      <4> DEFINE t == 2 ^ n
      <4>3. ~(m < t) /\ t = 2 * q
        BY <4>1, <4>2
      <4> HIDE DEF t, p, q
      <4> QED
        BY <1>2, <2>4, <3>1, <4>3
    <3> QED
      BY <3>1, <3>2
  <2> HIDE DEF p, q
  <2>7. CASE m = p
    BY <1>3, <2>2, <2>6, <2>7 DEF q
  <2>8. CASE m # p
    <3>1. check_constd(TRUE, d, n) <=> m < q
      BY <1>3, <2>2, <2>5, <2>8
    <3>2. m # q
      <4>1. ASSUME m = q PROVE FALSE
        <5>1. n - 1 # l - 1
          BY <2>8, <4>1 DEF p, q
        <5>2. CASE n <= l - 1
          <6>1. ~(m < 2 ^ n)
            BY <1>0, <1>2, <5>2
          <6>2. 2 ^ n = 2 * q
            <7> DEFINE j == n - 1
            <7>1. j \in 0 .. MaxBitWidth /\ n = j + 1
              BY <1>0
            <7> HIDE DEF j
            <7>2. 2 ^ (j + 1) = 2 * 2 ^ j
              BY <7>1, PowersAssumption
            <7> QED
              BY <7>1, <7>2 DEF j, q
          <6> DEFINE t == 2 ^ n
          <6>3. ~(m < t) /\ t = 2 * q
            BY <6>1, <6>2
          <6> HIDE DEF t
          <6> QED
            BY <1>2, <2>4, <4>1, <6>3
        <5>3. CASE l + 1 <= n
          BY <1>2, <2>4, <2>5, <4>1, <5>3
        <5>4. n <= l - 1 \/ l + 1 <= n
          BY <1>0, <1>2, <5>1
        <5> QED
          BY <5>2, <5>3, <5>4
      <4> QED
        BY <4>1
    <3>3. m < q <=> m <= q
      BY <1>2, <2>4, <3>2
    <3>4. check_constd(TRUE, d, n) <=> m <= q
      BY <3>1, <3>3
    <3> QED
      BY <3>4 DEF q
  <2> QED
    BY <2>7, <2>8
<1>6. ASSUME m = 0 PROVE check_constd(TRUE, d, n) <=> n > 1
  <2>1. l = 1
    BY <1>6 DEF WrittenLength
  <2>2. ~IsMinVal(TRUE, s)
    <3>1. s = <<0>>
      BY <1>6, ShortStrings, MaxBitWidthAssumption, <1>0 DEF OrZero
    <3>2. s[1] = 0
      BY <3>1
    <3> QED
      BY <3>2 DEF IsMinVal
  <2>3. check_constd(TRUE, d, n) <=> l + 1 <= n
    <3> HIDE DEF s, l
    <3> QED
      BY <1>3, <2>2
  <2> HIDE DEF l
  <2>4. l + 1 <= n <=> n > 1
    BY <1>0, <2>1
  <2> QED
    BY <2>3, <2>4
<1> QED
  BY <1>4, <1>5, <1>6

\* Digits d of a number m below 2^k, that a vector of n bits holds, and what they are read as.
DecimalGiven(k, m, d, n) ==
    k \in Nat /\ k + 6 <= MaxBitWidth /\ m \in Values(k) /\ StandsFor(d, 10, m) /\ Handled(n) /\ m < 2 ^ n

DecimalRead(m, d, n) ==
    /\ bv_constd(FALSE, d, n) = Vector(n, m)
    /\ bv_constd(TRUE, d, n) = Vector(n, (-m) % 2 ^ n)

\* btorsim_bv_constd makes the vector of the number.
LEMMA DecimalOnLimbs ==
    ASSUME NEW k, NEW m, NEW d, NEW n, DecimalGiven(k, m, d, n)
    PROVE  DecimalRead(m, d, n)
<1>g. /\ k \in Nat /\ k + 6 <= MaxBitWidth /\ m \in Values(k) /\ StandsFor(d, 10, m)
      /\ Handled(n) /\ m < 2 ^ n
  BY DEF DecimalGiven
<1> USE <1>g
<1> DEFINE l == WrittenLength(m)
           p == 2 ^ n
<1>0. /\ MaxBitWidth \in Nat /\ k <= MaxBitWidth /\ n \in 1 .. MaxBitWidth
      /\ n \in 0 .. MaxBitWidth /\ DoubleBits \in Nat
  <2>1. n \in 1 .. MaxBitWidth /\ MaxBitWidth \in Nat /\ DoubleBits \in Nat
    BY LimbWidth, LimbBitsAssumption DEF DoubleBits
  <2> QED
    BY <2>1
<1>1. dec_to_bin_str(d) = Str(l, m)
  BY <1>0, DecimalIsBinary, WrittenIs
<1>2. l \in Nat \ {0} /\ l <= MaxBitWidth /\ m \in Values(l) /\ m \in Nat /\ l <= n
  BY <1>0, WrittenIs
<1> HIDE DEF l
<1>3. Handled(l)
  BY <1>0, <1>2 DEF Handled
<1>4. char_to_bv(Str(l, m)) = Vector(l, m)
  BY <1>2, <1>3, ConstOnLimbs
<1>5. ExtendedTo(Vector(l, m), n) = Vector(n, m) /\ m \in Values(n)
  BY <1>2, <1>3, ExtendedIs
<1>6. bv_constd(FALSE, d, n) = Vector(n, m) /\ bv_constd(TRUE, d, n) = lv_neg(Vector(n, m))
  BY <1>1, <1>4, <1>5 DEF bv_constd
<1>7. lv_neg(Vector(n, m)) = Vector(n, bv_neg(n, m))
  BY <1>5, SumsOnLimbs
<1>8. bv_neg(n, m) = (-m) % p
  <2>1. bv_neg(n, m) = IF m = 0 THEN 0 ELSE p - m
    BY <1>0, <1>5, Differences
  <2>2. p \in Nat \ {0} /\ m \in 0 .. p - 1
    BY <1>0, <1>5, PowerIs DEF Values
  <2> HIDE DEF p
  <2>3. CASE m = 0
    <3>1. 0 % p = 0 /\ -m = 0
      <4>1. 0 \in 0 .. p - 1
        BY <2>2
      <4>2. 0 % p = 0
        BY <2>2, <4>1, RestNearby
      <4> QED
        BY <2>3, <4>2, MinusZero
    <3> QED
      BY <2>1, <2>3, <3>1
  <2>4. CASE m # 0
    <3> DEFINE r == p - m
    <3>1. r \in 0 .. p - 1 /\ r - p = -m
      BY <1>2, <2>2, <2>4
    <3> HIDE DEF r
    <3>2. (r - p) % p = r
      BY <2>2, <3>1, RestNearby
    <3> QED
      BY <2>1, <2>4, <3>1, <3>2 DEF r
  <2> QED
    BY <2>3, <2>4
<1> QED
  BY <1>6, <1>7, <1>8 DEF p, DecimalRead

----------------------------------------------------------------------------
(* Hexadecimal digits.                                                     *)

\* check_consth: the width that is required is that of the number.
LEMMA HexadecimalFits ==
    ASSUME NEW k \in Nat, k + 6 <= MaxBitWidth, NEW m \in Values(k), NEW d, StandsFor(d, 16, m),
           NEW n \in 1 .. MaxBitWidth
    PROVE  check_consth(d, n) <=> m < 2 ^ n
<1> DEFINE N == Len(d)
           S == {i \in DOMAIN d : d[i] # 0}
<1>0. MaxBitWidth \in Nat /\ k <= MaxBitWidth /\ k + 4 <= MaxBitWidth /\ 6 <= MaxBitWidth
      /\ n \in Nat /\ n <= MaxBitWidth
  BY MaxBitWidthAssumption
<1>1. PICK h : Reads(d, 16, m, h)
  BY DEF StandsFor
<1>2. /\ N \in Nat /\ DOMAIN d = 1 .. N /\ h[0] = 0 /\ h[N] = m
      /\ \A i \in 1 .. N : h[i] = h[i - 1] * 16 + d[i] /\ d[i] \in 0 .. 15
      /\ \A i \in 0 .. N : h[i] \in Values(k) /\ h[i] \in Nat
  BY <1>0, <1>1, ReadsIs
<1>3. LengthOf(m) <= n <=> m < 2 ^ n
  BY <1>0, LengthFits
<1>4. m \in Nat /\ (LengthOf(m) = 0 <=> m = 0) /\ LengthOf(m) \in Nat
  BY <1>0, Lengths, ShortStrings
<1> HIDE DEF N
<1>5. CASE S = {}
  <2>1. \A i \in 1 .. N : d[i] = 0
    BY <1>2, <1>5
  <2>2. \A i \in 0 .. N : h[i] = 0
    <3> DEFINE z == [i \in 0 .. N |-> 0]
    <3>1. h[0] = z[0]
      BY <1>2
    <3>2. \A i \in 1 .. N : h[i - 1] = z[i - 1] => h[i] = z[i]
      <4> TAKE i \in 1 .. N
      <4>1. i - 1 \in 0 .. N /\ i \in 0 .. N /\ h[i] = h[i - 1] * 16 + 0
        BY <1>2, <2>1
      <4> QED
        BY <4>1
    <3>3. N \in Nat
      BY <1>2
    <3>4. \A i \in 0 .. N : h[i] = z[i]
      <4> HIDE DEF z, S
      <4> QED
        BY <3>1, <3>2, <3>3, LoopComputes
    <3> QED
      BY <3>4
  <2>3. m = 0
    BY <1>2, <2>2
  <2>4. check_consth(d, n) <=> 0 <= n
    BY <1>5 DEF check_consth
  <2> QED
    BY <1>0, <1>3, <1>4, <2>3, <2>4
<1>6. CASE S # {}
  <2> DEFINE c == Min(S)
             e == d[c]
             spare == IF e < 2 THEN 3 ELSE IF e < 4 THEN 2 ELSE IF e < 8 THEN 1 ELSE 0
  <2>1. c \in S /\ \A i \in S : c <= i
    <3>1. \E i \in S : \A j \in S : i <= j
      <4>1. S \in SUBSET Nat
        BY <1>2
      <4> HIDE DEF S
      <4> QED
        BY <1>6, <4>1, LeastNumber
    <3> HIDE DEF S
    <3> QED
      BY <3>1 DEF Min
  <2> HIDE DEF c
  <2>2. c \in 1 .. N /\ d[c] # 0 /\ \A i \in 1 .. N : i < c => d[i] = 0
    <3>1. c \in 1 .. N /\ d[c] # 0
      BY <1>2, <2>1
    <3>2. \A i \in 1 .. N : i < c => i \notin S
      <4> HIDE DEF S
      <4> QED
        BY <2>1, <3>1
    <3> QED
      BY <1>2, <3>1, <3>2
  <2>3. e \in 1 .. 15
    BY <1>2, <2>2
  <2>4. check_consth(d, n) <=> 4 * (N - c + 1) - spare <= n
    BY <1>6 DEF check_consth, N, c
  <2> HIDE DEF S
  <2>5. h[c - 1] = 0
    <3> DEFINE z == [i \in 0 .. c - 1 |-> 0]
    <3>0. c - 1 \in Nat /\ 0 \in 0 .. c - 1 /\ c - 1 \in 0 .. c - 1
      BY <2>2
    <3>1. h[0] = z[0]
      BY <1>2, <3>0
    <3>2. \A i \in 1 .. c - 1 : h[i - 1] = z[i - 1] => h[i] = z[i]
      <4> TAKE i \in 1 .. c - 1
      <4>1. i - 1 \in 0 .. c - 1 /\ i \in 0 .. c - 1 /\ i \in 1 .. N /\ i < c
        BY <1>2, <2>2
      <4>2. h[i] = h[i - 1] * 16 + 0
        BY <1>2, <2>2, <4>1
      <4> QED
        BY <4>1, <4>2
    <3> DEFINE j == c - 1
    <3>3. \A i \in 0 .. j : h[i] = z[i]
      <4>1. j \in Nat /\ \A i \in 1 .. j : h[i - 1] = z[i - 1] => h[i] = z[i]
        BY <3>0, <3>2
      <4> HIDE DEF z, j
      <4> QED
        BY <3>1, <4>1, LoopComputes
    <3> QED
      BY <3>0, <3>3
  <2>6. h[c] = e
    <3>1. h[c] = 0 * 16 + e
      BY <1>2, <2>2, <2>5
    <3> QED
      BY <2>3, <3>1
  <2>7. LengthOf(e) = 4 - spare
    BY <1>0, <2>3, DigitLengths
  <2> HIDE DEF e
  <2> DEFINE M == N - c
             f == [i \in 0 .. M |-> LengthOf(h[c + i])]
             g == [i \in 0 .. M |-> LengthOf(e) + 4 * i]
             P == [i \in 0 .. M |-> h[c + i] # 0]
  <2>8. M \in Nat /\ c + 0 = c /\ c + M = N /\ 0 \in 0 .. M /\ M \in 0 .. M
    BY <1>2, <2>2
  <2>9. ASSUME NEW i \in 1 .. M
        PROVE  /\ i - 1 \in 0 .. M /\ i \in 0 .. M /\ h[c + i] = h[c + (i - 1)] * 16 + d[c + i]
               /\ d[c + i] \in 0 .. 15 /\ h[c + (i - 1)] \in Values(k) /\ h[c + (i - 1)] \in Nat
    <3> DEFINE j == c + i
    <3>1. j \in 1 .. N /\ j - 1 = c + (i - 1) /\ j - 1 \in 0 .. N /\ i - 1 \in 0 .. M /\ i \in 0 .. M
      BY <1>2, <2>2
    <3> HIDE DEF j
    <3>2. h[j] = h[j - 1] * 16 + d[j] /\ d[j] \in 0 .. 15 /\ h[j - 1] \in Values(k) /\ h[j - 1] \in Nat
      BY <1>2, <3>1
    <3> QED
      BY <3>1, <3>2 DEF j
  <2> HIDE DEF M
  <2>10. \A i \in 0 .. M : h[c + i] # 0
    <3>1. P[0] = TRUE
      <4>1. h[c + 0] # 0
        <5>1. e # 0
          <6>1. e \in 1 .. 15
            BY <2>3
          <6> HIDE DEF e
          <6> QED
            BY <6>1
        <5> QED
          BY <2>6, <2>8, <5>1
      <4>2. P[0] = (h[c + 0] # 0)
        BY <2>8
      <4> HIDE DEF P
      <4> QED
        BY <4>1, <4>2
    <3>2. \A i \in 1 .. M : P[i - 1] = TRUE => P[i] = TRUE
      <4> TAKE i \in 1 .. M
      <4> HAVE P[i - 1] = TRUE
      <4> DEFINE x == h[c + (i - 1)]
                 y == d[c + i]
      <4>1. x # 0 /\ x \in Nat /\ h[c + i] = x * 16 + y /\ y \in 0 .. 15
        BY <2>9
      <4>2. x * 16 + y # 0
        <5> HIDE DEF x, y, P
        <5> QED
          BY <4>1
      <4> HIDE DEF x, y
      <4> QED
        BY <2>9, <4>1, <4>2
    <3>3. \A i \in 0 .. M : P[i] = TRUE
      <4> HIDE DEF P
      <4> QED
        BY <2>8, <3>1, <3>2, LoopKeeps
    <3> QED
      BY <3>3
  <2>11. f[0] = g[0]
    BY <2>6, <2>7, <2>8
  <2>12. \A i \in 1 .. M : f[i - 1] = g[i - 1] => f[i] = g[i]
    <3> TAKE i \in 1 .. M
    <3> HAVE f[i - 1] = g[i - 1]
    <3> DEFINE x == h[c + (i - 1)]
               y == d[c + i]
    <3>1. /\ x # 0 /\ x \in Values(k) /\ y \in 0 .. 15 /\ i - 1 \in 0 .. M /\ i \in 0 .. M
          /\ h[c + i] = x * 16 + y
      BY <2>9, <2>10
    <3>2. f[i] = LengthOf(h[c + i]) /\ f[i - 1] = LengthOf(x) /\ g[i] = LengthOf(e) + 4 * i
          /\ g[i - 1] = LengthOf(e) + 4 * (i - 1)
      BY <3>1
    <3> HIDE DEF x, y, f, g
    <3>3. LengthOf(x * 16 + y) = LengthOf(x) + 4
      BY <1>0, <3>1, FourMore
    <3>4. LengthOf(e) \in Int
      BY <2>7
    <3> HIDE DEF spare
    <3>5. LengthOf(e) + 4 * (i - 1) + 4 = LengthOf(e) + 4 * i
      BY <3>4
    <3> QED
      BY <3>1, <3>2, <3>3, <3>5
  <2>13. f[M] = g[M]
    <3> HIDE DEF f, g
    <3>1. \A i \in 0 .. M : f[i] = g[i]
      BY <2>8, <2>11, <2>12, LoopComputes
    <3> QED
      BY <2>8, <3>1
  <2>14. LengthOf(m) = (4 - spare) + 4 * M
    BY <1>2, <2>7, <2>8, <2>13
  <2>15. (4 - spare) + 4 * M = 4 * (N - c + 1) - spare
    BY <1>2, <2>2, <2>8
  <2> HIDE DEF spare
  <2> QED
    BY <1>3, <2>4, <2>14, <2>15
<1> QED
  BY <1>5, <1>6

----------------------------------------------------------------------------
(* Hexadecimal strings.                                                    *)

LEMMA HexadecimalDigits ==
    ASSUME NEW m \in Nat
    PROVE  DigitsOf(m, 16) = IF m < 16 THEN <<m>> ELSE DigitsOf(m \div 16, 16) \o <<m % 16>>
<1> DEFINE base == 16
<1>1. base \in Nat /\ base > 1
  OBVIOUS
<1> HIDE DEF base
<1>2. DigitsOf(m, base) = IF m < base THEN <<m>> ELSE DigitsOf(m \div base, base) \o <<m % base>>
  BY <1>1, DigitsAre
<1> QED
  BY <1>2 DEF base

LEMMA HexadecimalLength ==
    ASSUME NEW l \in Nat, l >= 1, l <= MaxBitWidth, 6 <= MaxBitWidth, NEW m \in Values(l)
    PROVE  /\ DigitsOf(m, 16) \in Seq(0 .. 15) /\ Len(DigitsOf(m, 16)) \in Nat
           /\ 4 * Len(DigitsOf(m, 16)) <= l + 3
<1> DEFINE D(x) == DigitsOf(x, 16)
           Good(k, x) == D(x) \in Seq(0 .. 15) /\ Len(D(x)) \in Nat /\ 4 * Len(D(x)) <= k + 3
           bad == {k \in 1 .. MaxBitWidth : \E x \in Values(k) : ~Good(k, x)}
<1>0. MaxBitWidth \in Nat
  BY MaxBitWidthAssumption
<1>1. ASSUME bad # {} PROVE FALSE
  <2>1. PICK k \in bad : \A j \in bad : k <= j
    <3>1. bad \in SUBSET Nat
      BY <1>0
    <3> HIDE DEF bad
    <3> QED
      BY <1>1, <3>1, LeastNumber
  <2>2. k \in 1 .. MaxBitWidth
    OBVIOUS
  <2>3. PICK x \in Values(k) : ~Good(k, x)
    OBVIOUS
  <2>4. k \in Nat /\ k <= MaxBitWidth /\ x \in Nat /\ k >= 1
    BY <1>0, <2>2, Lengths
  <2>5. CASE x < 16
    <3>1. D(x) = <<x>>
      BY <2>4, <2>5, HexadecimalDigits
    <3>2. <<x>> \in Seq(0 .. 15) /\ Len(<<x>>) = 1
      BY <2>4, <2>5
    <3> HIDE DEF D
    <3> QED
      BY <2>3, <2>4, <3>1, <3>2
  <2>6. CASE x >= 16
    <3> DEFINE q == x \div 16
               r == x % 16
               j == k - 4
    <3>1. j \in Nat /\ j >= 1 /\ q \in Values(j) /\ q \in Nat /\ r \in 0 .. 15
      BY <2>4, <2>6, QuotientShorter
    <3>2. D(x) = D(q) \o <<r>>
      <4>1. x \in Nat /\ ~(x < 16)
        BY <2>4, <2>6
      <4> QED
        BY <4>1, HexadecimalDigits
    <3>3. j \in 1 .. MaxBitWidth /\ j < k
      BY <1>0, <2>4, <3>1
    <3>4. j \notin bad
      <4> HIDE DEF bad, j
      <4> QED
        BY <2>1, <2>4, <3>1, <3>3
    <3>5. Good(j, q)
      <4> HIDE DEF Good, j, q
      <4> QED
        BY <3>1, <3>3, <3>4
    <3> HIDE DEF D, q, r
    <3> DEFINE s == D(q)
    <3>6. s \in Seq(0 .. 15) /\ Len(s) \in Nat /\ 4 * Len(s) <= j + 3
      BY <3>5
    <3> HIDE DEF s
    <3>7. s \o <<r>> \in Seq(0 .. 15) /\ Len(s \o <<r>>) = Len(s) + 1
      BY <3>1, <3>6
    <3>8. 4 * (Len(s) + 1) <= k + 3 /\ Len(s) + 1 \in Nat
      BY <2>4, <3>6
    <3>9. D(x) = s \o <<r>>
      BY <3>2 DEF s
    <3> QED
      BY <2>3, <3>7, <3>8, <3>9
  <2> QED
    BY <2>4, <2>5, <2>6
<1> HIDE DEF Good
<1>2. Good(l, m)
  <2>1. l \in 1 .. MaxBitWidth
    BY <1>0
  <2> QED
    BY <1>1, <2>1
<1> QED
  BY <1>2 DEF Good

\* The digits one after the other are those of the number.
LEMMA FlattenedIs ==
    ASSUME NEW d, 4 * Len(d) <= MaxBitWidth, 6 <= MaxBitWidth, NEW m, StandsFor(d, 16, m),
           NEW k \in Nat, k <= MaxBitWidth, m \in Values(k)
    PROVE  LET N == Len(d)
           IN  /\ FlattenSeq([i \in DOMAIN d |-> <<Bit(d[i], 3), Bit(d[i], 2),
                                                  Bit(d[i], 1), Bit(d[i], 0)>>]) = Str(4 * N, m)
               /\ N \in Nat /\ 4 * N \in Nat /\ m \in Values(4 * N)
<1> DEFINE N == Len(d)
           seqs == [i \in DOMAIN d |-> <<Bit(d[i], 3), Bit(d[i], 2), Bit(d[i], 1), Bit(d[i], 0)>>]
<1>0. MaxBitWidth \in Nat /\ 4 * N <= MaxBitWidth
  BY MaxBitWidthAssumption
<1>1. PICK h : Reads(d, 16, m, h)
  BY DEF StandsFor
<1>2. /\ N \in Nat /\ DOMAIN d = 1 .. N /\ h[0] = 0 /\ h[N] = m
      /\ \A i \in 1 .. N : h[i] = h[i - 1] * 16 + d[i] /\ d[i] \in 0 .. 15
      /\ \A i \in 0 .. N : h[i] \in Nat
  BY <1>1, ReadsIs
<1>3. Len(seqs) = N /\ \A i \in 1 .. N : seqs[i] = Str(4, d[i])
  <2>1. DOMAIN seqs = 1 .. N
    BY <1>2
  <2>2. \A i \in 1 .. N : seqs[i] = <<Bit(d[i], 3), Bit(d[i], 2), Bit(d[i], 1), Bit(d[i], 0)>>
    BY <1>2
  <2>3. \A i \in 1 .. N : seqs[i] = Str(4, d[i])
    BY <1>2, <2>2, FourDigits
  <2>4. Len(seqs) = N
    <3> HIDE DEF seqs, N
    <3>1. seqs = [i \in 1 .. N |-> seqs[i]]
      BY <1>2, <2>1 DEF seqs
    <3> QED
      BY <1>2, <3>1, AsTuple
  <2> QED
    BY <2>3, <2>4
<1> HIDE DEF seqs, N
\* four bits more at a time
<1>4. ASSUME NEW i \in 1 .. N, h[i - 1] \in Values(4 * (i - 1))
      PROVE  /\ Str(4 * (i - 1), h[i - 1]) \o Str(4, d[i]) = Str(4 * i, h[i])
             /\ h[i] \in Values(4 * i)
  <2> DEFINE c == 4 * (i - 1)
             x == h[i - 1]
             y == d[i]
  <2>1. c \in Nat /\ 4 \in Nat /\ c + 4 = 4 * i /\ c + 4 <= MaxBitWidth
    BY <1>0, <1>2
  <2>2. h[i] = x * 16 + y /\ y \in 0 .. 15 /\ x \in Values(c)
    BY <1>2, <1>4
  <2> HIDE DEF c, x, y
  <2>3. y \in Values(4) /\ 2 ^ 4 = 16
    BY <2>2, SmallPowers
  <2>4. Str(c, x) \o Str(4, y) = Str(c + 4, x * 2 ^ 4 + y) /\ x * 2 ^ 4 + y \in Values(c + 4)
    BY <2>1, <2>2, <2>3, JoinedStrings
  <2> QED
    BY <2>1, <2>2, <2>3, <2>4 DEF c, x, y
<1>5. \A i \in 0 .. N : h[i] \in Values(4 * i)
  <2> DEFINE P == [i \in 0 .. N |-> h[i] \in Values(4 * i)]
  <2>1. P[0] = TRUE
    <3>1. 0 \in 0 .. N /\ 4 * 0 = 0
      BY <1>2
    <3>2. 0 \in Values(0)
      BY <1>0, ZerosAre
    <3>3. P[0] = (h[0] \in Values(4 * 0))
      BY <3>1
    <3> HIDE DEF P
    <3> QED
      BY <1>2, <3>1, <3>2, <3>3
  <2>2. \A i \in 1 .. N : P[i - 1] = TRUE => P[i] = TRUE
    <3> TAKE i \in 1 .. N
    <3>1. i - 1 \in 0 .. N /\ i \in 0 .. N
      BY <1>2
    <3>2. P[i - 1] = (h[i - 1] \in Values(4 * (i - 1))) /\ P[i] = (h[i] \in Values(4 * i))
      BY <3>1
    <3> HIDE DEF P
    <3> QED
      BY <1>4, <3>2
  <2>3. \A i \in 0 .. N : P[i] = TRUE
    <3> HIDE DEF P
    <3> QED
      BY <1>2, <2>1, <2>2, LoopKeeps
  <2>4. \A i \in 0 .. N : P[i] = (h[i] \in Values(4 * i))
    OBVIOUS
  <2> HIDE DEF P
  <2> QED
    BY <2>3, <2>4
<1>6. N \in 0 .. N /\ 4 * N \in Nat
  BY <1>2
<1>7. m \in Values(4 * N)
  BY <1>2, <1>5, <1>6
<1>8. CASE N = 0
  <2>1. FlattenSeq(seqs) = seqs
    BY <1>3, <1>8 DEF FlattenSeq
  <2>2. seqs = [i \in 1 .. N |-> <<Bit(d[i], 3), Bit(d[i], 2), Bit(d[i], 1), Bit(d[i], 0)>>]
    BY <1>2 DEF seqs
  <2>3. 1 .. N = {} /\ 1 .. 4 * N = {} /\ 4 * N = 0
    BY <1>8
  <2>4. seqs = Str(4 * N, m)
    BY <2>2, <2>3 DEF Str
  <2> QED
    BY <1>6, <1>7, <2>1, <2>4 DEF seqs, N
<1>9. CASE N # 0
  <2> DEFINE F(f) == [i \in 1 .. N |-> IF i = 1 THEN seqs[i] ELSE f[i - 1] \o seqs[i]]
             g == [i \in 1 .. N |-> Str(4 * i, h[i])]
  <2>1. ASSUME NEW i \in 1 .. N, i # 1 PROVE g[i] = g[i - 1] \o seqs[i]
    <3>1. i - 1 \in 1 .. N /\ i - 1 \in 0 .. N
      BY <1>2, <2>1
    <3>2. g[i] = Str(4 * i, h[i]) /\ g[i - 1] = Str(4 * (i - 1), h[i - 1]) /\ seqs[i] = Str(4, d[i])
      BY <1>3, <3>1
    <3>3. h[i - 1] \in Values(4 * (i - 1))
      BY <1>5, <3>1
    <3> HIDE DEF g
    <3> QED
      BY <1>4, <3>2, <3>3
  <2>2. g[1] = seqs[1] /\ 1 \in 1 .. N
    <3>1. 1 \in 1 .. N /\ 0 \in 0 .. N /\ 1 - 1 = 0 /\ 4 * 1 = 4
      BY <1>2, <1>9
    <3>2. g[1] = Str(4, h[1]) /\ seqs[1] = Str(4, d[1]) /\ h[1] = h[0] * 16 + d[1] /\ d[1] \in 0 .. 15
      <4>1. g[1] = Str(4 * 1, h[1])
        BY <3>1
      <4>2. h[1] = h[1 - 1] * 16 + d[1]
        BY <1>2, <3>1
      <4> HIDE DEF g
      <4> QED
        BY <1>2, <1>3, <3>1, <4>1, <4>2
    <3>3. h[1] = d[1]
      <4> DEFINE e == d[1]
      <4>1. e \in 0 .. 15 /\ h[1] = 0 * 16 + e
        BY <1>2, <3>2
      <4> HIDE DEF e
      <4>2. 0 * 16 + e = e
        BY <4>1
      <4> QED
        BY <4>1, <4>2 DEF e
    <3> HIDE DEF g
    <3> QED
      BY <3>1, <3>2, <3>3
  <2>3. g = F(g)
    <3>1. g = [i \in 1 .. N |-> g[i]]
      OBVIOUS
    <3> HIDE DEF g
    <3> QED
      BY <2>1, <2>2, <3>1, Zenon
  <2> DEFINE f == CHOOSE f : f = F(f)
  <2>4. f = F(f)
    <3>1. \E e : e = F(e)
      BY <2>3
    <3> QED
      BY <3>1, Zenon
  <2>5. FlattenSeq(seqs) = f[N]
    BY <1>3, <1>9 DEF FlattenSeq
  <2> HIDE DEF f
  <2>6. \A i \in 1 .. N : f[i] = IF i = 1 THEN seqs[i] ELSE f[i - 1] \o seqs[i]
    <3>1. \A i \in 1 .. N : f[i] = F(f)[i]
      <4> HIDE DEF F
      <4> QED
        BY <2>4
    <3> QED
      BY <3>1
  <2> HIDE DEF F
  <2> DEFINE M == N - 1
             u == [i \in 0 .. M |-> f[i + 1]]
             v == [i \in 0 .. M |-> g[i + 1]]
  <2>7. M \in Nat /\ M + 1 = N /\ M \in 0 .. M /\ 0 \in 0 .. M /\ 0 + 1 = 1
    BY <1>2, <1>9
  <2>8. ASSUME NEW i \in 1 .. M PROVE u[i - 1] = v[i - 1] => u[i] = v[i]
    <3>1. i - 1 \in 0 .. M /\ i \in 0 .. M /\ (i - 1) + 1 = i /\ i + 1 \in 1 .. N /\ i + 1 # 1
          /\ (i + 1) - 1 = i
      BY <1>2, <2>7
    <3>2. u[i - 1] = f[i] /\ v[i - 1] = g[i] /\ u[i] = f[i + 1] /\ v[i] = g[i + 1]
      <4> HIDE DEF M, g
      <4> QED
        BY <3>1
    <3>3. f[i + 1] = f[i] \o seqs[i + 1] /\ g[i + 1] = g[i] \o seqs[i + 1]
      <4> DEFINE j == i + 1
      <4>1. j \in 1 .. N /\ j # 1 /\ j - 1 = i
        BY <3>1
      <4> HIDE DEF j, g, u, v
      <4>2. f[j] = f[j - 1] \o seqs[j] /\ g[j] = g[j - 1] \o seqs[j]
        BY <2>1, <2>6, <4>1
      <4> QED
        BY <4>1, <4>2 DEF j
    <3> HIDE DEF u, v, g
    <3> QED
      BY <3>2, <3>3
  <2>9. u[0] = v[0]
    <3>1. u[0] = f[1] /\ v[0] = g[1]
      <4> HIDE DEF M, g
      <4> QED
        BY <2>7
    <3>2. f[1] = seqs[1]
      BY <2>2, <2>6
    <3> HIDE DEF u, v, g
    <3> QED
      BY <2>2, <3>1, <3>2
  <2>10. u[M] = v[M]
    <3>1. M \in Nat /\ M \in 0 .. M
      BY <2>7
    <3>3. \A i \in 1 .. M : u[i - 1] = v[i - 1] => u[i] = v[i]
      BY <2>8
    <3> HIDE DEF u, v, M, g
    <3>4. SameRounds(u, v, M)
      BY <2>9, <3>1, <3>3 DEF SameRounds
    <3>2. \A i \in 0 .. M : u[i] = v[i]
      BY <3>1, <3>4, RoundsAgree
    <3> QED
      BY <3>1, <3>2
  <2>11. f[N] = g[N]
    <3>1. u[M] = f[M + 1] /\ v[M] = g[M + 1]
      <4>1. M \in 0 .. M
        BY <2>7
      <4> HIDE DEF M, g
      <4> QED
        BY <4>1
    <3> HIDE DEF u, v, g, M
    <3> QED
      BY <2>7, <2>10, <3>1
  <2>12. g[N] = Str(4 * N, m)
    <3>1. N \in 1 .. N
      BY <1>2, <1>9
    <3> QED
      BY <1>2, <3>1
  <2> HIDE DEF g
  <2>13. FlattenSeq(seqs) = Str(4 * N, m)
    BY <2>5, <2>11, <2>12
  <2> QED
    BY <1>2, <1>6, <1>7, <2>13 DEF seqs, N
<1> QED
  BY <1>8, <1>9

\* btorsim_bv_consth makes the vector of the number.
LEMMA HexadecimalOnLimbs ==
    ASSUME NEW k \in Nat, k <= MaxBitWidth, 6 <= MaxBitWidth, NEW m \in Values(k),
           NEW d, 4 * Len(d) <= MaxBitWidth, StandsFor(d, 16, m),
           NEW n, Handled(n), m < 2 ^ n
    PROVE  bv_consth(d, n) = Vector(n, m)
<1> DEFINE N == 4 * Len(d)
           l == WrittenLength(m)
<1>0. /\ MaxBitWidth \in Nat /\ n \in 1 .. MaxBitWidth
      /\ n \in 0 .. MaxBitWidth /\ DoubleBits \in Nat
  <2>1. n \in 1 .. MaxBitWidth /\ MaxBitWidth \in Nat /\ DoubleBits \in Nat
    BY LimbWidth, LimbBitsAssumption DEF DoubleBits
  <2> QED
    BY <2>1
<1>1. /\ FlattenSeq([i \in DOMAIN d |-> <<Bit(d[i], 3), Bit(d[i], 2),
                                          Bit(d[i], 1), Bit(d[i], 0)>>]) = Str(N, m)
      /\ N \in Nat /\ m \in Values(N)
  BY FlattenedIs
<1>2. hex_to_bin_str(d) = OrZero(strip_zeroes(Str(N, m)))
  BY <1>1 DEF hex_to_bin_str
<1>3. strip_zeroes(Str(N, m)) = BinOf(m)
  <2>1. N \in Nat /\ N <= MaxBitWidth /\ m \in Values(N)
    BY <1>1
  <2> HIDE DEF N
  <2> QED
    BY <2>1, Stripped
<1>4. /\ OrZero(BinOf(m)) = Str(l, m)
      /\ l \in Nat \ {0} /\ l <= MaxBitWidth /\ m \in Values(l) /\ m \in Nat /\ l <= n
  BY <1>0, WrittenIs
<1>5. hex_to_bin_str(d) = Str(l, m)
  BY <1>2, <1>3, <1>4
<1> HIDE DEF l, N
<1>6. Handled(l)
  BY <1>0, <1>4 DEF Handled
<1>7. char_to_bv(Str(l, m)) = Vector(l, m)
  BY <1>4, <1>6, ConstOnLimbs
<1>8. ExtendedTo(Vector(l, m), n) = Vector(n, m)
  BY <1>4, <1>6, ExtendedIs
<1> QED
  BY <1>5, <1>7, <1>8 DEF bv_consth

\* btorsim_bv_to_char: the digits of the vector, which are read back.
LEMMA PrintedInBinary ==
    ASSUME NEW n, Handled(n), NEW x \in Values(n)
    PROVE  to_char(Vector(n, x)) = Str(n, x) /\ bv_const(to_char(Vector(n, x)), n) = Vector(n, x)
<1> DEFINE V == Vector(n, x)
<1>1. V.width = n
  BY VectorParts
<1>2. n \in Nat /\ n \in 1 .. MaxBitWidth /\ MaxBitWidth \in Nat
  BY LimbWidth
<1>3. \A i \in 1 .. n : get_bit(V, n - i) = Bit(x, n - i)
  <2>1. \A i \in 1 .. n : n - i \in 0 .. n - 1
    BY <1>2
  <2> QED
    BY <2>1, GetBit
<1>4. x \in Nat /\ n <= MaxBitWidth
  BY <1>2, ValuesOf
<1> HIDE DEF V
<1>5. to_char(V) = <<>> \o [i \in 1 .. n |-> get_bit(V, n - i)]
  BY <1>1 DEF to_char
<1>6. [i \in 1 .. n |-> get_bit(V, n - i)] = Str(n, x)
  BY <1>3 DEF Str
<1>7. to_char(V) = Str(n, x)
  BY <1>2, <1>4, <1>5, <1>6, StrIs
<1>8. bv_const(Str(n, x), n) = Vector(n, x)
  BY ConstOnLimbs
<1> QED
  BY <1>7, <1>8 DEF V

LEMMA PrintedInHexadecimal ==
    ASSUME NEW n, Handled(n), n + 6 <= MaxBitWidth, NEW x \in Values(n)
    PROVE  LET d == to_hex_char(Vector(n, x))
           IN  StandsFor(d, 16, x) /\ Len(d) = (n + 3) \div 4 /\ 4 * Len(d) <= MaxBitWidth
<1> DEFINE V == Vector(n, x)
           l == (n + 3) \div 4
           bit(i) == IF i < V.width THEN get_bit(V, i) ELSE 0
           digit(j) == bit(4 * j) + 2 * bit(4 * j + 1) + 4 * bit(4 * j + 2) + 8 * bit(4 * j + 3)
           d == [i \in 1 .. l |-> digit(l - i)]
           h == [i \in 0 .. l |-> x \div 2 ^ (4 * (l - i))]
<1>0. n \in Nat /\ n \in 1 .. MaxBitWidth /\ n \in 0 .. MaxBitWidth /\ MaxBitWidth \in Nat
      /\ x \in Nat /\ V.width = n
  BY LimbWidth, ValuesOf, VectorParts
<1>1. l \in Nat /\ n <= 4 * l /\ 4 * l <= n + 3 /\ 4 * l <= MaxBitWidth
  <2> DEFINE y == n + 3
             r == y % 4
  <2>1. l \in Nat /\ r \in 0 .. 3 /\ y = l * 4 + r
    <3>1. y \in Int /\ 4 \in Nat \ {0}
      BY <1>0
    <3>2. y \div 4 \in Int /\ r \in 0 .. 4 - 1 /\ y = (y \div 4) * 4 + r
      <4> HIDE DEF y
      <4> QED
        BY <3>1, Division
    <3> HIDE DEF r, y
    <3>3. y \in Nat
      BY <1>0 DEF y
    <3> DEFINE q == y \div 4
    <3>4. q \in Int /\ r \in 0 .. 3 /\ y = q * 4 + r
      BY <3>2
    <3> HIDE DEF q
    <3>5. q \in Nat
      BY <3>3, <3>4
    <3> QED
      BY <3>4, <3>5 DEF q, y
  <2> HIDE DEF r, l
  <2> QED
    BY <1>0, <2>1
<1>2. to_hex_char(V) = <<>> \o d
  BY <1>0 DEF to_hex_char
<1>3. \A i \in 0 .. MaxBitWidth : bit(i) = Bit(x, i)
  <2> TAKE i \in 0 .. MaxBitWidth
  <2>1. CASE i < n
    <3>1. i \in 0 .. n - 1
      BY <1>0, <2>1
    <3> HIDE DEF V
    <3> QED
      BY <1>0, <2>1, <3>1, GetBit DEF V
  <2>2. CASE ~(i < n)
    <3>1. i \in n .. MaxBitWidth
      BY <1>0, <2>2
    <3>2. Bit(x, i) = 0
      BY <1>0, <3>1, BitAbove
    <3> HIDE DEF V
    <3> QED
      BY <1>0, <2>2, <3>2
  <2> QED
    BY <2>1, <2>2
<1> HIDE DEF l, bit
<1>4. ASSUME NEW i \in 1 .. l
      PROVE  h[i] = h[i - 1] * 16 + digit(l - i) /\ digit(l - i) \in 0 .. 15
  <2> DEFINE j == l - i
             p == 4 * j
  <2>1. /\ j \in Nat /\ l - (i - 1) = j + 1 /\ 4 * (j + 1) = p + 4 /\ p \in Nat
        /\ p + 4 <= MaxBitWidth /\ i \in 0 .. l /\ i - 1 \in 0 .. l
    BY <1>0, <1>1
  <2>2. h[i] = x \div 2 ^ p /\ h[i - 1] = x \div 2 ^ (p + 4)
    <3>1. h[i] = x \div 2 ^ (4 * (l - i)) /\ h[i - 1] = x \div 2 ^ (4 * (l - (i - 1)))
      BY <2>1
    <3>2. h[i - 1] = x \div 2 ^ (4 * (j + 1))
      <4> HIDE DEF j, h
      <4> QED
        BY <2>1, <3>1
    <3> HIDE DEF h
    <3> QED
      BY <2>1, <3>1, <3>2
  <2>3. /\ bit(p) = Bit(x, p) /\ bit(p + 1) = Bit(x, p + 1) /\ bit(p + 2) = Bit(x, p + 2)
        /\ bit(p + 3) = Bit(x, p + 3)
    <3>1. /\ p \in 0 .. MaxBitWidth /\ p + 1 \in 0 .. MaxBitWidth /\ p + 2 \in 0 .. MaxBitWidth
          /\ p + 3 \in 0 .. MaxBitWidth
      <4> HIDE DEF p
      <4> QED
        BY <1>0, <2>1
    <3> HIDE DEF p
    <3> QED
      BY <1>3, <3>1
  <2>4. digit(j) = Bit(x, p) + 2 * Bit(x, p + 1) + 4 * Bit(x, p + 2) + 8 * Bit(x, p + 3)
    BY <2>3
  <2> HIDE DEF p, h
  <2> DEFINE e == Bit(x, p) + 2 * Bit(x, p + 1) + 4 * Bit(x, p + 2) + 8 * Bit(x, p + 3)
  <2>5. x \div 2 ^ p = (x \div 2 ^ (p + 4)) * 16 + e /\ e \in 0 .. 15
    BY <1>0, <2>1, FourBits
  <2> HIDE DEF e
  <2>6. digit(j) = e
    BY <2>4 DEF e
  <2> HIDE DEF digit
  <2>7. digit(l - i) = e
    BY <2>6
  <2> QED
    BY <2>2, <2>5, <2>7
<1> HIDE DEF digit
<1>5. d \in [1 .. l -> 0 .. 15]
  BY <1>4
<1>6. <<>> \o d = d /\ d \in Seq(0 .. 15) /\ Len(d) = l /\ DOMAIN d = 1 .. l
  <2> HIDE DEF d
  <2> QED
    BY <1>1, <1>5, AsTuple
<1>7. h[l] = x
  <2>1. l \in 0 .. l /\ l - l = 0 /\ 4 * 0 = 0
    BY <1>1
  <2>2. h[l] = x \div 2 ^ 0
    BY <2>1
  <2>3. 2 ^ 0 = 1 /\ x \div 1 = x
    BY <1>0, PowersAssumption
  <2> QED
    BY <2>2, <2>3
<1>8. h[0] = 0
  <2> DEFINE p == 2 ^ (4 * l)
  <2>1. 0 \in 0 .. l /\ l - 0 = l /\ 4 * l \in Nat
    BY <1>1
  <2>2. h[0] = x \div p
    BY <2>1
  <2>3. p \in Nat \ {0} /\ 2 ^ n <= p
    <3> DEFINE c == 4 * l
    <3>1. c \in Nat /\ n <= c /\ c <= MaxBitWidth /\ c \in 0 .. MaxBitWidth
      BY <1>0, <1>1
    <3> HIDE DEF c
    <3>2. 2 ^ c \in Nat \ {0} /\ 2 ^ n <= 2 ^ c
      BY <1>0, <3>1, PowerIs, PowersGrow
    <3> QED
      BY <3>2 DEF c
  <2>4. x < 2 ^ n
    <3> DEFINE q == 2 ^ n
    <3>1. q \in Nat \ {0} /\ x \in 0 .. q - 1
      BY <1>0, PowerIs DEF Values
    <3> HIDE DEF q
    <3>2. x < q
      BY <3>1
    <3> QED
      BY <3>2 DEF q
  <2>5. x \in 0 .. p - 1
    <3> DEFINE q == 2 ^ n
    <3>1. x < q /\ q <= p /\ q \in Nat
      BY <1>0, <2>3, <2>4, PowerIs
    <3> HIDE DEF q, p
    <3> QED
      BY <1>0, <2>3, <3>1
  <2> HIDE DEF p, h
  <2>6. x = 0 * p + x
    BY <1>0, <2>3
  <2>7. x \div p = 0
    BY <1>0, <2>3, <2>5, <2>6, QuotientAndRest
  <2> QED
    BY <2>2, <2>7
<1>9. \A i \in 0 .. l : h[i] \in Nat /\ h[i] <= x
  <2> TAKE i \in 0 .. l
  <2> DEFINE c == 4 * (l - i)
             p == 2 ^ c
  <2>1. c \in 0 .. MaxBitWidth
    BY <1>0, <1>1
  <2>2. h[i] = x \div p
    OBVIOUS
  <2> HIDE DEF c
  <2>3. p \in Nat \ {0}
    BY <2>1, PowerIs
  <2> HIDE DEF p, h
  <2>4. x \div p \in 0 .. x
    BY <1>0, <2>3, DivMod
  <2> QED
    BY <1>0, <2>2, <2>4
<1>10. h \in [0 .. l -> Nat]
  <2>1. h = [i \in 0 .. l |-> h[i]]
    OBVIOUS
  <2> HIDE DEF h
  <2> QED
    BY <1>9, <2>1
<1>11. \A i \in 1 .. l : h[i] = h[i - 1] * 16 + d[i]
  <2> TAKE i \in 1 .. l
  <2>1. d[i] = digit(l - i)
    OBVIOUS
  <2> HIDE DEF d, h
  <2> QED
    BY <1>4, <2>1
<1> HIDE DEF d, h
<1>12. Reads(d, 16, x, h)
  <2>1. 16 - 1 = 15
    OBVIOUS
  <2> QED
    BY <1>6, <1>7, <1>8, <1>9, <1>10, <1>11, <2>1 DEF Reads
<1>13. to_hex_char(V) = d
  BY <1>2, <1>6
<1>14. StandsFor(d, 16, x) /\ Len(d) = l /\ 4 * Len(d) <= MaxBitWidth
  BY <1>1, <1>6, <1>12 DEF StandsFor
<1> QED
  BY <1>13, <1>14 DEF V, l

----------------------------------------------------------------------------
(* Decimal printing.                                                       *)

\* The rounds of btorsim_bv_to_dec_char on the number: what is left of it, and the
\* digits so far.
DecimalStates(m) == Values(m) \X Seq(0 .. 9)

DecimalRound(t)  == IF t[1] = 0 THEN t ELSE <<t[1] \div 10, <<t[1] % 10>> \o t[2]>>

LEMMA TenthIs ==
    ASSUME NEW m \in Nat
    PROVE  /\ m \div 10 \in Nat /\ m % 10 \in 0 .. 9 /\ m = (m \div 10) * 10 + (m % 10)
           /\ m \div 10 <= m /\ (m # 0 => m \div 10 < m)
           /\ DigitsOf(m, 10) = IF m < 10 THEN <<m>> ELSE DigitsOf(m \div 10, 10) \o <<m % 10>>
           /\ DigitsOf(m, 10) \in Seq(0 .. 9)
<1> DEFINE base == 10
<1>1. base \in Nat /\ base > 1 /\ base - 1 = 9
  OBVIOUS
<1> HIDE DEF base
<1>2. /\ m \div base \in Nat /\ m % base \in 0 .. base - 1 /\ m = (m \div base) * base + (m % base)
      /\ m \div base <= m /\ (m # 0 => m \div base < m)
  BY <1>1, QuotientBelow
<1>3. DigitsOf(m, base) = IF m < base THEN <<m>> ELSE DigitsOf(m \div base, base) \o <<m % base>>
  BY <1>1, DigitsAre
<1>4. StandsFor(DigitsOf(m, base), base, m)
  <2>1. <<>> \in {<<>>, <<0>>, <<0, 0>>}
    OBVIOUS
  <2> QED
    BY <1>1, <2>1, ReadingDigits
<1>5. DigitsOf(m, base) \in Seq(0 .. base - 1)
  BY <1>4 DEF StandsFor, Reads
<1> QED
  BY <1>1, <1>2, <1>3, <1>5 DEF base

LEMMA DecimalRoundIs ==
    ASSUME NEW m \in Nat, m <= MaxBitWidth, NEW t \in DecimalStates(m)
    PROVE  /\ DecimalRound(t) \in DecimalStates(m)
           /\ \A j \in 1 .. m : t[1] \in Values(j) => DecimalRound(t)[1] \in Values(j - 1)
           /\ t[1] # 0 => LET u == DecimalRound(t)
                          IN  DigitsOf(t[1], 10) \o t[2] =
                                IF u[1] = 0 THEN u[2] ELSE DigitsOf(u[1], 10) \o u[2]
<1> DEFINE x == t[1]
           s == t[2]
           q == x \div 10
           r == x % 10
<1>0. MaxBitWidth \in Nat /\ m \in 0 .. MaxBitWidth
  BY MaxBitWidthAssumption
<1>1. x \in Values(m) /\ s \in Seq(0 .. 9) /\ t = <<x, s>>
  BY DEF DecimalStates
<1>2. x \in Nat
  BY <1>0, <1>1, Lengths
<1>3. /\ q \in Nat /\ r \in 0 .. 9 /\ x = q * 10 + r /\ q <= x /\ (x # 0 => q < x)
      /\ DigitsOf(x, 10) = IF x < 10 THEN <<x>> ELSE DigitsOf(q, 10) \o <<r>>
  BY <1>2, TenthIs
<1>4. DigitsOf(q, 10) \in Seq(0 .. 9)
  BY <1>3, TenthIs
<1>5. q \in Values(m)
  <2> DEFINE p == 2 ^ m
  <2>1. p \in Nat \ {0} /\ x \in 0 .. p - 1
    <3> HIDE DEF x
    <3> QED
      BY <1>0, <1>1, PowerIs DEF Values
  <2> HIDE DEF p, x, q
  <2>2. q \in 0 .. p - 1
    BY <1>2, <1>3, <2>1
  <2> QED
    BY <2>2 DEF Values, p
<1>6. DecimalRound(t) = IF x = 0 THEN <<x, s>> ELSE <<q, <<r>> \o s>>
  <2>1. DecimalRound(t) = IF t[1] = 0 THEN t ELSE <<q, <<r>> \o s>>
    BY DEF DecimalRound
  <2> QED
    BY <1>1, <2>1
<1> HIDE DEF x, s, q, r
<1>7. <<r>> \o s \in Seq(0 .. 9) /\ <<r>> \in Seq(0 .. 9)
  BY <1>1, <1>3
<1> DEFINE u == DecimalRound(t)
           e == <<r>> \o s
<1>8. u \in DecimalStates(m)
  <2>1. <<x, s>> \in Values(m) \X Seq(0 .. 9)
    BY <1>1
  <2>2. <<q, e>> \in Values(m) \X Seq(0 .. 9)
    <3>1. e \in Seq(0 .. 9)
      BY <1>7
    <3> HIDE DEF e
    <3> QED
      BY <1>5, <3>1
  <2> HIDE DEF e
  <2> QED
    BY <1>6, <2>1, <2>2 DEF DecimalStates, e
<1>9. x = 0 => u[1] = 0
  <2> HIDE DEF e
  <2> QED
    BY <1>6
<1>10. x # 0 => u[1] = q /\ u[2] = e
  <2>1. x # 0 => u = <<q, e>>
    BY <1>6
  <2> HIDE DEF e, u
  <2> QED
    BY <2>1
<1> HIDE DEF u
<1>11. ASSUME NEW j \in 1 .. m, x \in Values(j) PROVE u[1] \in Values(j - 1)
  <2> DEFINE i == j - 1
             p == 2 ^ i
  <2>1. i \in Nat /\ i + 1 = j /\ i \in 0 .. MaxBitWidth /\ i + 1 <= MaxBitWidth
    BY <1>0
  <2> HIDE DEF i
  <2>2. 2 ^ j = 2 * p /\ p \in Nat \ {0}
    <3>1. 2 ^ (i + 1) = 2 * 2 ^ i /\ 2 ^ i \in Nat \ {0}
      BY <2>1, PowersAssumption, PowerIs
    <3> QED
      BY <2>1, <3>1
  <2>3. x < 2 * p
    <3>1. x \in 0 .. 2 * p - 1
      BY <1>11, <2>2 DEF Values
    <3> HIDE DEF p
    <3> QED
      BY <2>2, <3>1
  <2>4. CASE x = 0
    <3>1. 0 \in 0 .. p - 1
      <4> HIDE DEF p
      <4> QED
        BY <2>2
    <3> QED
      BY <1>9, <2>4, <3>1 DEF Values, i
  <2>5. CASE x # 0
    <3>1. q \in 0 .. p - 1
      <4> HIDE DEF p
      <4> QED
        BY <1>2, <1>3, <2>2, <2>3
    <3> QED
      BY <1>10, <2>5, <3>1 DEF Values, i
  <2> QED
    BY <2>4, <2>5
<1>12. ASSUME x # 0
       PROVE  DigitsOf(x, 10) \o s = IF u[1] = 0 THEN u[2] ELSE DigitsOf(u[1], 10) \o u[2]
  <2>1. u[1] = q /\ u[2] = <<r>> \o s
    BY <1>10, <1>12
  <2>2. CASE x < 10
    <3>1. q = 0 /\ r = x
      BY <1>2, <1>3, <2>2
    <3>2. DigitsOf(x, 10) = <<r>>
      BY <1>3, <2>2, <3>1
    <3> QED
      BY <2>1, <3>1, <3>2
  <2>3. CASE ~(x < 10)
    <3>1. q # 0
      BY <1>2, <1>3, <2>3
    <3>2. DigitsOf(x, 10) = DigitsOf(q, 10) \o <<r>>
      BY <1>3, <2>3
    <3> DEFINE D == DigitsOf(q, 10)
               y == <<r>>
    <3>3. D \in Seq(0 .. 9) /\ y \in Seq(0 .. 9)
      BY <1>4, <1>7
    <3>4. DigitsOf(x, 10) \o s = (D \o y) \o s
      BY <3>2
    <3> HIDE DEF D, y
    <3>5. (D \o y) \o s = D \o (y \o s)
      BY <1>1, <3>3, ConcatAssociative
    <3> QED
      BY <2>1, <3>1, <3>4, <3>5 DEF D, y
  <2> QED
    BY <2>2, <2>3
<1> QED
  BY <1>8, <1>11, <1>12 DEF u, x, s

\* One round on the vectors.
LEMMA RoundOnLimbs ==
    ASSUME NEW m, Handled(m), m >= 4, LimbBits > 1, 6 <= MaxBitWidth,
           NEW r \in Values(m)
    PROVE  LET p == udiv_urem_bv(Vector(m, r), uint64_to_bv(10, m))
           IN  /\ is_zero(Vector(m, r)) <=> r = 0
               /\ p.quot = Vector(m, r \div 10) /\ Number(p.rem) = r % 10
<1> DEFINE ten == Vector(m, 10)
<1>0. /\ m \in Nat /\ m \in 1 .. MaxBitWidth /\ m \in 0 .. MaxBitWidth /\ MaxBitWidth \in Nat
      /\ DoubleBits \in Nat /\ DoubleBits >= 4 /\ DoubleBits <= MaxBitWidth /\ m <= MaxBitWidth
  <2>1. m \in 1 .. MaxBitWidth /\ MaxBitWidth \in Nat /\ LimbBits \in Nat \ {0}
    BY LimbWidth
  <2>2. LimbBits >= 2 /\ DoubleBits = 2 * LimbBits
    BY <2>1 DEF DoubleBits
  <2>3. m + DoubleBits <= MaxBitWidth
    BY DEF Handled
  <2> QED
    BY <2>1, <2>2, <2>3
<1>1. 2 ^ 4 = 16 /\ 10 \in Values(4)
  <2>1. Values(4) = 0 .. 15 /\ 2 ^ 4 = 16
    BY SmallPowers
  <2> QED
    BY <2>1
<1>2. 10 \in Values(m) /\ 10 \in Values(DoubleBits)
  <2>1. 4 \in Nat /\ 4 <= m /\ 4 <= DoubleBits
    BY <1>0
  <2> QED
    BY <1>0, <1>1, <2>1, ValuesGrow
<1>3. uint64_to_bv(10, m) = ten
  <2>1. DoubleBits \in 0 .. MaxBitWidth
    BY <1>0
  <2>2. 10 % 2 ^ DoubleBits = 10
    BY <1>2, <2>1, RestOfValue
  <2>3. uint64_to_bv(10, m) = Vector(m, 10 % 2 ^ DoubleBits)
    BY <1>2, FromUint64Wide
  <2> QED
    BY <2>2, <2>3
<1>4. /\ udiv_urem_bv(Vector(m, r), ten).quot = Vector(m, bv_udiv(m, r, 10))
      /\ udiv_urem_bv(Vector(m, r), ten).rem = Vector(m, bv_urem(m, r, 10))
  BY <1>2, DivisionOnLimbs
<1>5. bv_udiv(m, r, 10) = r \div 10 /\ bv_urem(m, r, 10) = r % 10
  BY DEF bv_udiv, bv_urem
<1>6. bv_urem(m, r, 10) \in Values(m)
  BY <1>0, <1>2, DivisionFits
<1>7. Number(Vector(m, bv_urem(m, r, 10))) = bv_urem(m, r, 10)
  BY <1>6, NumberOf
<1> HIDE DEF ten
<1>8. is_zero(Vector(m, r)) <=> r = 0
  BY NoLimbSet
<1> QED
  BY <1>3, <1>4, <1>5, <1>7, <1>8

\* What is left after all rounds, and the digits.
LEMMA DecimalRounds ==
    ASSUME NEW m \in Nat \ {0}, m <= MaxBitWidth, NEW x \in Values(m), NEW t,
           t \in [0 .. m -> DecimalStates(m)], t[0] = <<x, <<>>>>,
           \A k \in 1 .. m : t[k] = DecimalRound(t[k - 1])
    PROVE  OrZero(t[m][2]) = DigitsOf(x, 10)
<1>0. MaxBitWidth \in Nat /\ m \in Nat /\ m \in 0 .. m /\ 0 \in 0 .. m /\ m - m = 0
  BY MaxBitWidthAssumption
<1>1. t[0][1] = x /\ t[0][2] = <<>>
  OBVIOUS
<1>2. ASSUME NEW k \in 1 .. m
      PROVE  /\ k - 1 \in 0 .. m /\ k \in 0 .. m
             /\ t[k - 1][1] \in Values(m - (k - 1)) => t[k][1] \in Values(m - k)
             /\ t[k - 1][1] # 0 =>
                  DigitsOf(t[k - 1][1], 10) \o t[k - 1][2] =
                     IF t[k][1] = 0 THEN t[k][2] ELSE DigitsOf(t[k][1], 10) \o t[k][2]
             /\ t[k - 1][1] = 0 => t[k] = t[k - 1]
  <2> DEFINE s == t[k - 1]
             j == m - (k - 1)
  <2>1. k - 1 \in 0 .. m /\ k \in 0 .. m /\ j \in 1 .. m /\ j - 1 = m - k
    OBVIOUS
  <2>2. s \in DecimalStates(m) /\ t[k] = DecimalRound(s)
    BY <2>1
  <2> HIDE DEF s, j
  <2>3. s[1] \in Values(j) => DecimalRound(s)[1] \in Values(j - 1)
    BY <1>0, <2>1, <2>2, DecimalRoundIs
  <2>4. s[1] # 0 => LET u == DecimalRound(s)
                    IN  DigitsOf(s[1], 10) \o s[2] =
                          IF u[1] = 0 THEN u[2] ELSE DigitsOf(u[1], 10) \o u[2]
    BY <1>0, <2>2, DecimalRoundIs
  <2>5. s[1] = 0 => DecimalRound(s) = s
    BY DEF DecimalRound
  <2> QED
    BY <2>1, <2>2, <2>3, <2>4, <2>5 DEF s, j
<1>3. t[m][1] = 0
  <2> DEFINE P == [k \in 0 .. m |-> t[k][1] \in Values(m - k)]
  <2>1. \A k \in 0 .. m : P[k] = (t[k][1] \in Values(m - k))
    OBVIOUS
  <2>2. P[0] = TRUE
    <3>1. m - 0 = m /\ x \in Values(m)
      OBVIOUS
    <3> HIDE DEF P
    <3> QED
      BY <1>0, <1>1, <2>1, <3>1
  <2>3. \A k \in 1 .. m : P[k - 1] = TRUE => P[k] = TRUE
    <3> HIDE DEF P
    <3> QED
      BY <1>2, <2>1
  <2>4. \A k \in 0 .. m : P[k] = TRUE
    <3> HIDE DEF P
    <3> QED
      BY <1>0, <2>2, <2>3, LoopKeeps
  <2>5. t[m][1] \in Values(0)
    <3> HIDE DEF P
    <3> QED
      BY <1>0, <2>1, <2>4
  <2>6. Values(0) = {0}
    <3>1. 2 ^ 0 - 1 = 0
      BY PowersAssumption
    <3> QED
      BY <3>1 DEF Values
  <2> QED
    BY <2>5, <2>6
<1>4. x \in Nat
  BY <1>0, Lengths
<1>5. CASE x = 0
  <2> DEFINE P == [k \in 0 .. m |-> t[k] = t[0]]
  <2>1. \A k \in 0 .. m : P[k] = (t[k] = t[0])
    OBVIOUS
  <2> HIDE DEF P
  <2>2. P[0] = TRUE
    BY <1>0, <2>1
  <2>3. \A k \in 1 .. m : P[k - 1] = TRUE => P[k] = TRUE
    <3> TAKE k \in 1 .. m
    <3>1. k - 1 \in 0 .. m /\ k \in 0 .. m /\ (t[k - 1][1] = 0 => t[k] = t[k - 1])
      BY <1>2
    <3>2. t[k - 1] = t[0] => t[k - 1][1] = 0
      BY <1>1, <1>5
    <3>3. P[k - 1] = (t[k - 1] = t[0]) /\ P[k] = (t[k] = t[0])
      BY <2>1, <3>1
    <3> QED
      BY <3>1, <3>2, <3>3
  <2>4. \A k \in 0 .. m : P[k] = TRUE
    BY <1>0, <2>2, <2>3, LoopKeeps
  <2>5. t[m][2] = <<>>
    BY <1>0, <1>1, <2>1, <2>4
  <2>6. DigitsOf(x, 10) = <<0>>
    <3>1. 0 \in Nat /\ 0 < 10
      OBVIOUS
    <3>2. DigitsOf(0, 10) = IF 0 < 10 THEN <<0>> ELSE DigitsOf(0 \div 10, 10) \o <<0 % 10>>
      BY <3>1, TenthIs
    <3> QED
      BY <1>5, <3>1, <3>2
  <2> QED
    BY <2>5, <2>6 DEF OrZero
<1>6. CASE x # 0
  <2> DEFINE All(k) == IF t[k][1] = 0 THEN t[k][2] ELSE DigitsOf(t[k][1], 10) \o t[k][2]
             P == [k \in 0 .. m |-> All(k) = DigitsOf(x, 10)]
  <2>1. \A k \in 0 .. m : P[k] = (All(k) = DigitsOf(x, 10))
    OBVIOUS
  <2> HIDE DEF P
  <2>2. P[0] = TRUE
    <3> DEFINE D == DigitsOf(x, 10)
    <3>1. D \in Seq(0 .. 9)
      BY <1>4, TenthIs
    <3>2. D \o <<>> = D
      <4> HIDE DEF D
      <4> QED
        BY <3>1, ConcatEmptySeq
    <3>3. All(0) = D \o <<>>
      BY <1>1, <1>6
    <3> HIDE DEF All
    <3> QED
      BY <1>0, <2>1, <3>2, <3>3
  <2>3. \A k \in 1 .. m : All(k) = All(k - 1)
    <3> TAKE k \in 1 .. m
    <3>1. CASE t[k - 1][1] = 0
      <4>1. t[k] = t[k - 1]
        BY <1>2, <3>1
      <4> QED
        BY <4>1
    <3>2. CASE t[k - 1][1] # 0
      BY <1>2, <3>2
    <3> QED
      BY <3>1, <3>2
  <2> HIDE DEF All
  <2>4. \A k \in 1 .. m : P[k - 1] = TRUE => P[k] = TRUE
    BY <1>2, <2>1, <2>3
  <2>5. \A k \in 0 .. m : P[k] = TRUE
    BY <1>0, <2>2, <2>4, LoopKeeps
  <2>6. All(m) = DigitsOf(x, 10)
    BY <1>0, <2>1, <2>5
  <2>7. t[m][2] = DigitsOf(x, 10)
    BY <1>3, <2>6 DEF All
  <2>8. DigitsOf(x, 10) # <<>>
    <3> DEFINE q == x \div 10
               r == x % 10
    <3>1. DigitsOf(x, 10) = IF x < 10 THEN <<x>> ELSE DigitsOf(q, 10) \o <<r>>
      BY <1>4, TenthIs
    <3>2. q \in Nat /\ DigitsOf(q, 10) \in Seq(0 .. 9) /\ r \in 0 .. 9
      BY <1>4, TenthIs
    <3> HIDE DEF q, r
    <3>3. CASE x < 10
      <4>1. Len(<<x>>) = 1 /\ Len(<<>>) = 0
        OBVIOUS
      <4>2. <<x>> # <<>>
        BY <4>1
      <4> QED
        BY <3>1, <3>3, <4>2
    <3>4. CASE ~(x < 10)
      <4> DEFINE D == DigitsOf(q, 10)
      <4>1. D \in Seq(0 .. 9)
        BY <3>2
      <4> HIDE DEF D
      <4>2. Len(D \o <<r>>) = Len(D) + 1 /\ Len(D) \in Nat
        BY <3>2, <4>1
      <4>3. D \o <<r>> # <<>>
        BY <4>2
      <4> QED
        BY <3>1, <3>4, <4>3 DEF D
    <3> QED
      BY <3>3, <3>4
  <2> QED
    BY <2>7, <2>8 DEF OrZero
<1> QED
  BY <1>5, <1>6

\* btorsim_bv_to_dec_char gives the digits of the number.
LEMMA PrintedInDecimal ==
    ASSUME NEW n, Handled(n), Handled(n + 4), LimbBits > 1, 6 <= MaxBitWidth, NEW x \in Values(n)
    PROVE  to_dec_char(Vector(n, x)) = DigitsOf(x, 10)
<1> DEFINE V == Vector(n, x)
           m == IF n < 4 THEN 4 ELSE n
           start == [tmp |-> ExtendedTo(V, m), stack |-> <<>>]
           step(s) == LET p == udiv_urem_bv(s.tmp, uint64_to_bv(10, m))
                      IN  IF is_zero(s.tmp) THEN s
                          ELSE [tmp |-> p.quot, stack |-> <<Number(p.rem)>> \o s.stack]
           F(f) == [k \in 0 .. m |-> IF k = 0 THEN start ELSE step(f[k - 1])]
<1>0. n \in Nat /\ n \in 1 .. MaxBitWidth /\ MaxBitWidth \in Nat /\ V.width = n
  BY LimbWidth, VectorParts
<1>1. m \in Nat \ {0} /\ m >= 4 /\ n <= m /\ m <= n + 4
  BY <1>0
<1>2. to_dec_char(V) = OrZero((CHOOSE f : f = F(f))[m].stack)
  BY <1>0 DEF to_dec_char
<1> HIDE DEF m
<1>3. Handled(m) /\ m <= MaxBitWidth
  <2>1. DoubleBits \in Nat
    BY LimbWidth, LimbBitsAssumption DEF DoubleBits
  <2>2. m + DoubleBits <= MaxBitWidth /\ m \in Nat \ {0}
    BY <1>0, <1>1, <2>1 DEF Handled
  <2> QED
    BY <1>0, <2>1, <2>2 DEF Handled
<1>4. ExtendedTo(V, m) = Vector(m, x) /\ x \in Values(m)
  BY <1>1, <1>3, ExtendedIs
<1> HIDE DEF V
<1>5. PICK t : /\ t \in [0 .. m -> DecimalStates(m)] /\ t[0] = <<x, <<>>>>
               /\ \A k \in 1 .. m : t[k] = DecimalRound(t[k - 1])
  <2> DEFINE S == DecimalStates(m)
             G == [s \in S |-> DecimalRound(s)]
             s0 == <<x, <<>>>>
  <2>1. s0 \in S
    <3>1. <<>> \in Seq(0 .. 9)
      OBVIOUS
    <3> QED
      BY <1>4, <3>1 DEF DecimalStates
  <2>2. m \in Nat
    BY <1>1
  <2>3. \A s \in S : G[s] \in S
    BY <1>3, <2>2, DecimalRoundIs
  <2>4. \A s \in S : G[s] = DecimalRound(s)
    OBVIOUS
  <2> HIDE DEF S, G, s0, start, step, F
  <2>5. \E f : LoopRun(S, G, s0, m, f)
    <3>1. Loop(S, G, s0)
      BY <2>1, <2>3 DEF Loop
    <3> QED
      BY <2>2, <3>1, LoopRuns
  <2>6. PICK f : /\ f \in [0 .. m -> S] /\ f[0] = s0
                 /\ \A k \in 1 .. m : f[k] = G[f[k - 1]]
    BY <2>5 DEF LoopRun
  <2>7. \A k \in 1 .. m : f[k] = DecimalRound(f[k - 1])
    <3> TAKE k \in 1 .. m
    <3>1. k - 1 \in 0 .. m
      BY <2>2
    <3>2. f[k - 1] \in S
      BY <2>6, <3>1
    <3> QED
      BY <2>4, <2>6, <3>2
  <2> QED
    BY <2>6, <2>7 DEF S, s0
<1>6. OrZero(t[m][2]) = DigitsOf(x, 10)
  BY <1>1, <1>3, <1>4, <1>5, DecimalRounds
<1> DEFINE g == [k \in 0 .. m |-> [tmp |-> Vector(m, t[k][1]), stack |-> t[k][2]]]
<1>7. 0 \in 0 .. m /\ m \in 0 .. m /\ \A k \in 1 .. m : k - 1 \in 0 .. m /\ k \in 0 .. m /\ k # 0
  BY <1>1
<1>8. \A k \in 0 .. m : g[k] = [tmp |-> Vector(m, t[k][1]), stack |-> t[k][2]]
  OBVIOUS
<1>9. ASSUME NEW k \in 1 .. m PROVE g[k] = step(g[k - 1])
  <2> DEFINE s == t[k - 1]
             r == s[1]
             d == s[2]
             gs == g[k - 1]
  <2>1. gs = [tmp |-> Vector(m, r), stack |-> d]
    BY <1>7, <1>8
  <2>2. s \in DecimalStates(m) /\ t[k] = DecimalRound(s)
    BY <1>5, <1>7
  <2>3. r \in Values(m)
    BY <2>2 DEF DecimalStates
  <2>4. g[k] = [tmp |-> Vector(m, t[k][1]), stack |-> t[k][2]]
    BY <1>7, <1>8
  <2>5. DecimalRound(s) = IF r = 0 THEN s ELSE <<r \div 10, <<r % 10>> \o d>>
    BY DEF DecimalRound
  <2> HIDE DEF g, s
  <2> DEFINE p == udiv_urem_bv(Vector(m, r), uint64_to_bv(10, m))
             q == r \div 10
             e == r % 10
  <2>6. /\ is_zero(Vector(m, r)) <=> r = 0
        /\ p.quot = Vector(m, q) /\ Number(p.rem) = e
    <3> HIDE DEF r
    <3> QED
      BY <1>1, <1>3, <2>3, RoundOnLimbs
  <2>7. gs.tmp = Vector(m, r) /\ gs.stack = d
    <3> HIDE DEF gs, r, d
    <3> QED
      BY <2>1
  <2>8. step(gs) = IF is_zero(Vector(m, r)) THEN gs
                   ELSE [tmp |-> p.quot, stack |-> <<Number(p.rem)>> \o d]
    <3> HIDE DEF gs, r, d
    <3> QED
      BY <2>7
  <2> HIDE DEF p, step
  <2>9. step(gs) = IF r = 0 THEN gs ELSE [tmp |-> Vector(m, q), stack |-> <<e>> \o d]
    <3> HIDE DEF gs, r, d, q, e
    <3> QED
      BY <2>6, <2>8
  <2>10. CASE r = 0
    <3>1. t[k] = s
      BY <2>2, <2>5, <2>10
    <3>2. g[k] = gs
      <4> HIDE DEF gs
      <4> QED
        BY <2>1, <2>4, <3>1
    <3> QED
      BY <2>9, <2>10, <3>2
  <2>11. CASE r # 0
    <3>1. t[k] = <<q, <<e>> \o d>>
      BY <2>2, <2>5, <2>11
    <3> DEFINE z == <<e>> \o d
    <3>2. t[k][1] = q /\ t[k][2] = z
      <4>1. t[k] = <<q, z>>
        BY <3>1
      <4> HIDE DEF q, z
      <4> QED
        BY <4>1
    <3> HIDE DEF q, z, r
    <3>3. step(gs) = [tmp |-> Vector(m, q), stack |-> z]
      BY <2>9, <2>11 DEF z
    <3> HIDE DEF gs
    <3>4. g[k] = step(gs)
      BY <2>4, <3>2, <3>3
    <3> QED
      BY <3>4 DEF gs
  <2> QED
    BY <2>10, <2>11
<1>10. g[0] = start
  <2>1. t[0][1] = x /\ t[0][2] = <<>>
    BY <1>5
  <2> QED
    BY <1>4, <1>7, <1>8, <2>1
<1> HIDE DEF step, start
<1>11. g = F(g)
  <2>1. g = [k \in 0 .. m |-> g[k]]
    OBVIOUS
  <2>2. \A k \in 0 .. m : k # 0 => k \in 1 .. m
    BY <1>1
  <2> HIDE DEF g
  <2> QED
    BY <1>9, <1>10, <2>1, <2>2
<1> DEFINE f == CHOOSE f : f = F(f)
<1>12. f = F(f)
  <2>1. \E e : e = F(e)
    BY <1>11
  <2> HIDE DEF F
  <2> QED
    BY <2>1
<1>13. to_dec_char(V) = OrZero(f[m].stack)
  BY <1>2
<1> HIDE DEF f, g
<1>14. f[0] = start /\ \A k \in 1 .. m : f[k] = step(f[k - 1])
  <2>1. f[0] = F(f)[0] /\ \A k \in 1 .. m : f[k] = F(f)[k]
    <3> HIDE DEF F
    <3> QED
      BY <1>12
  <2> QED
    BY <1>7, <2>1
<1>15. f[m] = g[m]
  <2> HIDE DEF F
  <2>1. \A k \in 1 .. m : f[k - 1] = g[k - 1] => f[k] = g[k]
    BY <1>9, <1>14
  <2>2. m \in Nat /\ f[0] = g[0]
    BY <1>1, <1>10, <1>14
  <2>3. \A k \in 0 .. m : f[k] = g[k]
    BY <2>1, <2>2, LoopComputes
  <2> QED
    BY <1>7, <2>3
<1>16. g[m].stack = t[m][2]
  <2>1. g[m] = [tmp |-> Vector(m, t[m][1]), stack |-> t[m][2]]
    BY <1>7, <1>8
  <2> QED
    BY <2>1
<1>17. to_dec_char(V) = DigitsOf(x, 10)
  BY <1>6, <1>13, <1>15, <1>16
<1> QED
  BY <1>17 DEF V

----------------------------------------------------------------------------
(* What is read and printed.                                               *)

LEMMA ZerosInFront ==
    ASSUME NEW zeros \in {<<>>, << 0 >>, << 0, 0 >>}, NEW m \in Nat
    PROVE  /\ StandsFor(zeros \o DigitsOf(m, 10), 10, m) /\ StandsFor(zeros, 10, 0)
           /\ StandsFor(zeros \o DigitsOf(m, 16), 16, m)
           /\ StandsFor(DigitsOf(m, 10), 10, m)
<1>1. ASSUME NEW base \in Nat, base > 1
      PROVE  /\ StandsFor(zeros \o DigitsOf(m, base), base, m) /\ StandsFor(zeros, base, 0)
             /\ StandsFor(DigitsOf(m, base), base, m)
  BY <1>1, ReadingDigits
<1>2. 10 \in Nat /\ 10 > 1 /\ 16 \in Nat /\ 16 > 1
  OBVIOUS
<1>3. StandsFor(zeros \o DigitsOf(m, 10), 10, m) /\ StandsFor(zeros, 10, 0) /\ StandsFor(DigitsOf(m, 10), 10, m)
  BY <1>1, <1>2
<1>4. StandsFor(zeros \o DigitsOf(m, 16), 16, m)
  BY <1>1, <1>2
<1> QED
  BY <1>3, <1>4

\* A number with a sign, and zeros in front of its digits or not.
LEMMA ReadOnLimbs ==
    ASSUME NEW n, Handled(n), n + 16 <= MaxBitWidth, NEW z \in Int, AbsOf(z) \in Values(n + 1),
           NEW zeros \in {<<>>, << 0 >>, << 0, 0 >>}
    PROVE  LET dec == zeros \o DigitsOf(AbsOf(z), 10)
               hex == zeros \o DigitsOf(AbsOf(z), 16)
           IN  /\ check_constd(z < 0, dec, n) <=> z \in -(2 ^ (n - 1)) .. 2 ^ n - 1
               /\ check_constd(z < 0, dec, n) => bv_constd(z < 0, dec, n) = Vector(n, z % 2 ^ n)
               /\ z >= 0 => (check_consth(hex, n) <=> z < 2 ^ n)
               /\ z \in 0 .. 2 ^ n - 1 => bv_consth(hex, n) = Vector(n, z)
<1> DEFINE m == AbsOf(z)
           k == n + 1
           dec == zeros \o DigitsOf(m, 10)
           hex == zeros \o DigitsOf(m, 16)
           p == 2 ^ n
           q == 2 ^ (n - 1)
<1>0. /\ n \in Nat /\ n >= 1 /\ n \in 1 .. MaxBitWidth /\ n \in 0 .. MaxBitWidth /\ MaxBitWidth \in Nat
      /\ 6 <= MaxBitWidth /\ k \in Nat /\ k + 6 <= MaxBitWidth /\ k <= MaxBitWidth /\ k >= 1
  BY LimbWidth
<1>1. m \in Nat /\ m \in Values(k) /\ (z < 0 => z = -m /\ m # 0) /\ (z >= 0 => z = m)
  BY DEF AbsOf
<1>2. p \in Nat \ {0} /\ q \in Nat \ {0} /\ p = 2 * q
  <2> DEFINE i == n - 1
  <2>1. i \in 0 .. MaxBitWidth /\ i + 1 = n
    BY <1>0
  <2> HIDE DEF i
  <2>2. 2 ^ (i + 1) = 2 * 2 ^ i /\ 2 ^ i \in Nat \ {0} /\ 2 ^ n \in Nat \ {0}
    BY <1>0, <2>1, PowersAssumption, PowerIs
  <2> QED
    BY <2>1, <2>2 DEF i
<1> HIDE DEF k
<1>3. StandsFor(dec, 10, m) /\ StandsFor(hex, 16, m)
  BY <1>1, ZerosInFront
<1>4. 4 * Len(hex) <= MaxBitWidth
  <2> DEFINE D == DigitsOf(m, 16)
  <2>1. D \in Seq(0 .. 15) /\ Len(D) \in Nat /\ 4 * Len(D) <= k + 3
    <3> HIDE DEF m
    <3> QED
      BY <1>0, <1>1, HexadecimalLength
  <2> HIDE DEF D, m
  <2>2. zeros \in Seq(0 .. 15) /\ Len(zeros) \in 0 .. 2
    <3>1. <<>> \in Seq(0 .. 15) /\ Len(<<>>) = 0
      OBVIOUS
    <3>2. <<0>> \in Seq(0 .. 15) /\ Len(<<0>>) = 1
      OBVIOUS
    <3>3. <<0, 0>> \in Seq(0 .. 15) /\ Len(<<0, 0>>) = 2
      OBVIOUS
    <3>4. zeros = <<>> \/ zeros = <<0>> \/ zeros = <<0, 0>>
      OBVIOUS
    <3>5. 0 \in 0 .. 2 /\ 1 \in 0 .. 2 /\ 2 \in 0 .. 2
      OBVIOUS
    <3>6. CASE zeros = <<>>
      BY <3>1, <3>5, <3>6
    <3>7. CASE zeros = <<0>>
      BY <3>2, <3>5, <3>7
    <3>8. CASE zeros = <<0, 0>>
      BY <3>3, <3>5, <3>8
    <3> QED
      BY <3>4, <3>6, <3>7, <3>8
  <2>3. Len(zeros \o D) = Len(zeros) + Len(D)
    BY <2>1, <2>2
  <2>4. 4 * (Len(zeros) + Len(D)) <= k + 11
    <3> DEFINE i == Len(zeros)
               j == Len(D)
    <3>1. i \in 0 .. 2 /\ j \in Nat /\ 4 * j <= k + 3
      BY <2>1, <2>2
    <3> HIDE DEF i, j
    <3>2. 4 * (i + j) <= k + 11
      BY <1>0, <3>1
    <3> QED
      BY <3>2 DEF i, j
  <2>5. k + 11 <= MaxBitWidth
    BY <1>0 DEF k
  <2>6. 4 * Len(zeros \o D) <= MaxBitWidth
    <3> DEFINE c == Len(zeros) + Len(D)
    <3>1. c \in Nat /\ Len(zeros \o D) = c /\ 4 * c <= k + 11
      BY <2>1, <2>2, <2>3, <2>4
    <3> HIDE DEF c
    <3>2. 4 * c <= MaxBitWidth
      BY <1>0, <2>5, <3>1
    <3> QED
      BY <3>1, <3>2
  <2> QED
    BY <2>6 DEF D
<1> HIDE DEF m, dec, hex
<1>5. /\ check_constd(FALSE, dec, n) <=> m < p
      /\ m # 0 => (check_constd(TRUE, dec, n) <=> m <= q)
  BY <1>0, <1>1, <1>3, DecimalFits
<1>6. ASSUME m < p
      PROVE  bv_constd(FALSE, dec, n) = Vector(n, m) /\ bv_constd(TRUE, dec, n) = Vector(n, (-m) % p)
  <2>1. DecimalGiven(k, m, dec, n)
    BY <1>0, <1>1, <1>3, <1>6 DEF DecimalGiven
  <2> HIDE DEF k
  <2>2. DecimalRead(m, dec, n)
    BY <2>1, DecimalOnLimbs
  <2> QED
    BY <2>2 DEF DecimalRead
<1>7. check_consth(hex, n) <=> m < p
  BY <1>0, <1>1, <1>3, HexadecimalFits
<1>8. m < p => bv_consth(hex, n) = Vector(n, m)
  BY <1>0, <1>1, <1>3, <1>4, HexadecimalOnLimbs
<1>9. m < p => m % p = m
  <2> HIDE DEF p
  <2>1. m < p => m \in 0 .. p - 1
    BY <1>1, <1>2
  <2> QED
    BY <1>2, <2>1, RestNearby
<1> HIDE DEF p, q
<1>10. CASE z < 0
  <2>1. (z < 0) = TRUE
    BY <1>10
  <2>2. z \in -q .. p - 1 <=> m <= q
    BY <1>1, <1>2, <1>10
  <2>3. m <= q => m < p
    BY <1>1, <1>2
  <2>4. ~(z >= 0) /\ z \notin 0 .. p - 1 /\ -m = z
    BY <1>1, <1>10
  <2> QED
    BY <1>1, <1>5, <1>6, <1>10, <2>1, <2>2, <2>3, <2>4 DEF dec, hex, m, p, q
<1>11. CASE ~(z < 0)
  <2>1. (z < 0) = FALSE
    BY <1>11
  <2>2. z = m
    BY <1>1, <1>11
  <2>3. m \in -q .. p - 1 <=> m < p
    BY <1>1, <1>2
  <2>4. m \in 0 .. p - 1 <=> m < p
    BY <1>1, <1>2
  <2> QED
    BY <1>5, <1>6, <1>7, <1>8, <1>9, <2>1, <2>2, <2>3, <2>4 DEF dec, hex, m, p, q
<1> QED
  BY <1>10, <1>11

\* A constant is accepted exactly if it is a number of the width, read as that number,
\* and printed so that it is read back: for every width and every width of a limb that
\* has the four bits of ten in a uint64_t.
THEOREM ConstantsReadAndPrintedRight ==
    ASSUME MaxWidth + DoubleBits + 16 <= MaxBitWidth, LimbBits > 1
    PROVE  Spec => []ConstantsReadAndPrinted
<1>0. MaxWidth \in Nat \ {0} /\ MaxBitWidth \in Nat /\ DoubleBits \in Nat
  BY MaxWidthAssumption, MaxBitWidthAssumption, LimbBitsAssumption DEF DoubleBits
<1>1. 1 <= MaxBitWidth
  BY <1>0
<1>2. Spec => []Operands
  BY <1>1, OperandsInvariant
<1>3. Operands => ConstantsReadAndPrinted
  <2> SUFFICES ASSUME Operands PROVE ConstantsReadAndPrinted
    OBVIOUS
  <2>1. w \in 1 .. MaxWidth /\ a \in Values(w) /\ b \in Values(w)
    BY DEF Operands
  <2>2. /\ Handled(w) /\ Handled(w + 4) /\ w \in Nat \ {0} /\ w + 16 <= MaxBitWidth
        /\ w + 6 <= MaxBitWidth /\ 6 <= MaxBitWidth /\ w <= MaxBitWidth
        /\ w \in 0 .. MaxBitWidth /\ w \in 1 .. MaxBitWidth
    BY <1>0, <2>1 DEF Handled
  <2> DEFINE p == 2 ^ w
  <2>3. p \in Nat \ {0} /\ a \in 0 .. p - 1 /\ b \in 0 .. p - 1 /\ 2 ^ (w + 1) = 2 * p
    BY <2>1, <2>2, PowerIs, PowersAssumption DEF Values
  <2>4. a \in Nat /\ a < p
    <3> HIDE DEF p
    <3> QED
      BY <2>3
  <2>5. ASSUME NEW n \in {a - b, a + b}, NEW zeros \in {<<>>, << 0 >>, << 0, 0 >>}
        PROVE  LET dec == zeros \o DigitsOf(AbsOf(n), 10)
                   hex == zeros \o DigitsOf(AbsOf(n), 16)
               IN  /\ check_constd(n < 0, dec, w) <=> n \in -(2 ^ (w - 1)) .. 2 ^ w - 1
                   /\ check_constd(n < 0, dec, w) =>
                        bv_constd(n < 0, dec, w) = Vector(w, n % 2 ^ w)
                   /\ n >= 0 => (check_consth(hex, w) <=> n < 2 ^ w)
                   /\ n \in 0 .. 2 ^ w - 1 => bv_consth(hex, w) = Vector(w, n)
    <3>1. n \in Int /\ AbsOf(n) \in 0 .. 2 * p - 1
      <4> HIDE DEF p
      <4>1. n \in Int /\ -p < n /\ n < 2 * p - 1
        BY <2>3
      <4> QED
        BY <2>3, <4>1 DEF AbsOf
    <3>2. AbsOf(n) \in Values(w + 1)
      BY <2>3, <3>1 DEF Values
    <3> QED
      BY <2>2, <3>1, <3>2, ReadOnLimbs
  <2>6. ASSUME NEW zero \in {<<>>, << 0 >>, << 0, 0 >>}
        PROVE  /\ check_constd(TRUE, zero, w) <=> w > 1
               /\ w > 1 => bv_constd(TRUE, zero, w) = lv_new(w)
    <3>1. StandsFor(zero, 10, 0)
      <4>1. 0 \in Nat
        OBVIOUS
      <4> QED
        BY <4>1, ZerosInFront
    <3>2. 0 \in Values(w) /\ w \in Nat /\ 0 < p
      <4>1. 0 \in Values(w)
        BY <2>2, ValuesOf
      <4> HIDE DEF p
      <4> QED
        BY <2>2, <2>3, <4>1
    <3>3. check_constd(TRUE, zero, w) <=> w > 1
      BY <2>2, <3>1, <3>2, DecimalFits
    <3>4. bv_constd(TRUE, zero, w) = Vector(w, (-0) % p)
      <4>1. DecimalGiven(w, 0, zero, w)
        BY <2>2, <3>1, <3>2 DEF DecimalGiven
      <4>2. DecimalRead(0, zero, w)
        BY <4>1, DecimalOnLimbs
      <4> QED
        BY <4>2 DEF DecimalRead
    <3>5. (-0) % p = 0
      <4> HIDE DEF p
      <4>1. 0 \in 0 .. p - 1
        BY <2>3
      <4>2. 0 % p = 0
        BY <2>3, <4>1, RestNearby
      <4> QED
        BY <4>2, MinusZero
    <3>6. lv_new(w) = Vector(w, 0)
      BY <2>2, NewIsZero
    <3> HIDE DEF p
    <3> QED
      BY <3>3, <3>4, <3>5, <3>6
  <2>7. bv_const(to_char(A), w) = A
    BY <2>1, <2>2, PrintedInBinary DEF A
  <2>8. to_dec_char(A) = DigitsOf(a, 10)
    BY <2>1, <2>2, PrintedInDecimal DEF A
  <2>9. bv_constd(FALSE, to_dec_char(A), w) = A
    <3>1. StandsFor(DigitsOf(a, 10), 10, a)
      <4>1. <<>> \in {<<>>, <<0>>, <<0, 0>>}
        OBVIOUS
      <4> QED
        BY <2>4, <4>1, ZerosInFront
    <3>2. bv_constd(FALSE, DigitsOf(a, 10), w) = Vector(w, a)
      <4>1. DecimalGiven(w, a, DigitsOf(a, 10), w)
        BY <2>1, <2>2, <2>4, <3>1 DEF DecimalGiven
      <4>2. DecimalRead(a, DigitsOf(a, 10), w)
        BY <4>1, DecimalOnLimbs
      <4> QED
        BY <4>2 DEF DecimalRead
    <3> QED
      BY <2>8, <3>2 DEF A
  <2>10. Len(to_hex_char(A)) = (w + 3) \div 4 /\ bv_consth(to_hex_char(A), w) = A
    <3> DEFINE d == to_hex_char(Vector(w, a))
    <3>1. StandsFor(d, 16, a) /\ Len(d) = (w + 3) \div 4 /\ 4 * Len(d) <= MaxBitWidth
      BY <2>1, <2>2, PrintedInHexadecimal
    <3> HIDE DEF d
    <3>2. bv_consth(d, w) = Vector(w, a)
      BY <2>1, <2>2, <2>4, <3>1, HexadecimalOnLimbs
    <3> QED
      BY <3>1, <3>2 DEF A, d
  <2> QED
    BY <2>5, <2>6, <2>7, <2>8, <2>9, <2>10 DEF ConstantsReadAndPrinted
<1> QED
  BY <1>2, <1>3, PTL

============================================================================
