--------------------------- MODULE ConstantDigits ---------------------------
(***************************************************************************)
(* How constants are read and printed.  btor2parser.c decides from the     *)
(* digits whether a constant fits its sort, btorsimbv.c makes the vector;  *)
(* both convert decimal digits with the same arithmetic on binary strings  *)
(* of any length.  A string is the sequence of its digits here, without    *)
(* the sign of a negative one.                                             *)
(***************************************************************************)
EXTENDS LimbVec

strip_zeroes(s) ==
    LET nonzero == {i \in DOMAIN s : s[i] # 0}
    IN  IF nonzero = {} THEN <<>> ELSE SubSeq(s, Min(nonzero), Len(s))

Zeros(n)     == <<>> \o [i \in 1 .. n |-> 0]
Padded(s, n) == Zeros(n - Len(s)) \o s

\* The full adder over two strings of the same length: carry[i] leaves position i.
StringCarries(x, y) ==
    LET carry[i \in 1 .. Len(x) + 1] ==
          IF i > Len(x) THEN 0 ELSE (x[i] + y[i] + carry[i + 1]) \div 2
    IN  carry
StringSum(x, y) ==
    <<>> \o [i \in DOMAIN x |-> (x[i] + y[i] + StringCarries(x, y)[i + 1]) % 2]

add_unbounded_bin_str(a, b) ==
    LET x == strip_zeroes(a)
        y == strip_zeroes(b)
        n == Max({Len(x), Len(y)}) + 1
    IN  CASE x = <<>> -> y
          [] x # <<>> /\ y = <<>> -> x
          [] OTHER -> strip_zeroes(StringSum(Padded(x, n), Padded(y, n)))

\* A register starts with zeros and the first factor behind them; its last bit
\* says whether the second is added to the front before everything moves right.
mult_unbounded_bin_str(a, b) ==
    LET x == strip_zeroes(a)
        y == strip_zeroes(b)
        moved(r) ==
          LET front == SubSeq(r, 1, Len(y))
              back  == SubSeq(r, Len(y) + 1, Len(r))
          IN  IF Last(r) = 0 THEN <<0>> \o Front(r)
              ELSE <<StringCarries(front, y)[1]>> \o Front(StringSum(front, y) \o back)
        register[i \in 0 .. Len(x)] ==
          IF i = 0 THEN Zeros(Len(y)) \o x ELSE moved(register[i - 1])
    IN  CASE x = <<>> -> <<>>
          [] x = <<1>> -> b
          [] x # <<1>> /\ y = <<>> -> <<>>
          [] x # <<1>> /\ y = <<1>> -> x
          [] OTHER -> register[Len(x)]

\* digit2const_table
digit2const(d) == strip_zeroes(<<Bit(d, 3), Bit(d, 2), Bit(d, 1), Bit(d, 0)>>)

OrZero(s) == IF s = <<>> THEN <<0>> ELSE s

dec_to_bin_str(digits) ==
    LET string[n \in 0 .. Len(digits)] ==
          IF n = 0 THEN <<>>
          ELSE add_unbounded_bin_str(
                 mult_unbounded_bin_str(string[n - 1], <<1, 0, 1, 0>>),
                 digit2const(digits[n]))
    IN  OrZero(string[Len(digits)])

\* Of a negative number the binary digits of its absolute value need a bit less
\* than the width, unless it is the smallest, a power of two.
IsMinVal(neg, bits) == neg /\ bits[1] = 1 /\ \A i \in 2 .. Len(bits) : bits[i] = 0

check_constd_no_min(neg, digits, w) ==
    LET bits == dec_to_bin_str(digits)
    IN  IF neg THEN Len(bits) + 1 <= w ELSE Len(bits) <= w
check_constd(neg, digits, w) ==
    LET bits == dec_to_bin_str(digits)
        min  == IsMinVal(neg, bits)
    IN  /\ (neg /\ ~min) \/ Len(bits) <= w
        /\ ~neg \/ min \/ Len(bits) + 1 <= w

\* Four bits for each digit, but not for zeros in front.
check_consth(digits, w) ==
    LET nonzero == {i \in DOMAIN digits : digits[i] # 0}
        d == digits[Min(nonzero)]
        spare == IF d < 2 THEN 3 ELSE IF d < 4 THEN 2 ELSE IF d < 8 THEN 1 ELSE 0
        req_width == IF nonzero = {} THEN 0
                     ELSE 4 * (Len(digits) - Min(nonzero) + 1) - spare
    IN  req_width <= w

hex_to_bin_str(digits) ==
    OrZero(strip_zeroes(FlattenSeq(
      [i \in DOMAIN digits |-> <<Bit(digits[i], 3), Bit(digits[i], 2),
                                 Bit(digits[i], 1), Bit(digits[i], 0)>>])))

\* btorsim_bv_const and btorsim_bv_char_to_bv
bv_const(str, w) ==
    LET read[i \in 0 .. w] ==
          IF i = 0 THEN lv_new(w) ELSE set_bit(read[i - 1], i - 1, str[w - (i - 1)])
    IN  read[w]
char_to_bv(str) == bv_const(str, Len(str))

\* The common end of btorsim_bv_constd and btorsim_bv_consth: zero-extended to w
ExtendedTo(v, w) == IF v.width < w THEN lv_uext(v, w - v.width) ELSE v

bv_constd(neg, digits, w) ==
    LET v == ExtendedTo(char_to_bv(dec_to_bin_str(digits)), w)
    IN  IF neg THEN lv_neg(v) ELSE v
bv_consth(digits, w) == ExtendedTo(char_to_bv(hex_to_bin_str(digits)), w)

----------------------------------------------------------------------------
(* Printing.                                                               *)

\* btorsim_bv_to_char
to_char(v) == <<>> \o [i \in 1 .. v.width |-> get_bit(v, v.width - i)]

\* btorsim_bv_to_hex_char: groups of four bits from the end
to_hex_char(v) ==
    LET len == (v.width + 3) \div 4
        bit(i) == IF i < v.width THEN get_bit(v, i) ELSE 0
        digit(j) == bit(4 * j) + 2 * bit(4 * j + 1) + 4 * bit(4 * j + 2) + 8 * bit(4 * j + 3)
    IN  <<>> \o [n \in 1 .. len |-> digit(len - n)]

\* btorsim_bv_to_dec_char: divided by ten, which needs four bits, until it is zero; that
\* takes no more rounds than there are bits.
to_dec_char(v) ==
    LET w == IF v.width < 4 THEN 4 ELSE v.width
        round[k \in 0 .. w] ==
          IF k = 0 THEN [tmp |-> ExtendedTo(v, w), stack |-> <<>>]
          ELSE LET last == round[k - 1]
                   p == udiv_urem_bv(last.tmp, uint64_to_bv(10, w))
               IN  IF is_zero(last.tmp) THEN last
                   ELSE [tmp |-> p.quot, stack |-> <<Number(p.rem)>> \o last.stack]
    IN  OrZero(round[w].stack)

=============================================================================
