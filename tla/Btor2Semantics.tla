--------------------------- MODULE Btor2Semantics ---------------------------
(***************************************************************************)
(* What a line of a model computes from its arguments: the switch of       *)
(* btorsim.cpp's simulate.  A value is a number for a bit-vector and an    *)
(* array model for an array; a valuation is a partial function from ids to *)
(* values (current_state, without its empty entries).                      *)
(***************************************************************************)
EXTENDS Btor2Format, BitVec, ArrayModel

\* parse_model_line dies on these.
Unsupported == {"fair", "justice", "saddo", "sdivo", "smulo", "ssubo", "uaddo",
                "umulo", "usubo"}

\* Lines that simulate_step computes no value of.
ValueLines(T) ==
    {i \in DOMAIN T : T[i].tag \notin NonArguments \cup {"output"}}

Leaves(T)    == {i \in DOMAIN T : T[i].tag \in {"input", "state"}}
Operators(T) == ValueLines(T) \ Leaves(T)
LinesOf(T, tag) == {i \in DOMAIN T : T[i].tag = tag}
StateIds(T)  == LinesOf(T, "state")
InputIds(T)  == LinesOf(T, "input")

\* The width of index and element of an array sort.
IndexWidthOf(T, l)   == T[l.sort.word].sort.word
ElementWidthOf(T, l) == T[l.sort.element].sort.word

\* The value simulate returns for a possibly negated id: a copy of the stored
\* array, or the stored bit-vector or its negation.
ArgValue(T, v, a) ==
    LET i == Abs(a)
    IN  IF IsArray(T[i]) THEN Copy(v[i])
        ELSE IF a < 0 THEN bv_not(Width(T[i]), v[i])
        ELSE v[i]

ConstantValue(l) ==
    CASE l.tag = "const"  -> l.imm[2]
      [] l.tag = "constd" -> Fit(Width(l), l.imm[1])
      [] l.tag = "consth" -> l.imm[1]
      [] l.tag = "one"    -> 1
      [] l.tag = "ones"   -> 2 ^ Width(l) - 1
      [] l.tag = "zero"   -> 0

\* Operators whose operands are one bit-vector; w is its width.
UnaryValue(l, w, x) ==
    CASE l.tag = "not"    -> bv_not(w, x)
      [] l.tag = "neg"    -> bv_neg(w, x)
      [] l.tag = "inc"    -> bv_inc(w, x)
      [] l.tag = "dec"    -> bv_dec(w, x)
      [] l.tag = "redand" -> bv_redand(w, x)
      [] l.tag = "redor"  -> bv_redor(w, x)
      [] l.tag = "redxor" -> bv_redxor(w, x)
      [] l.tag = "slice"  -> bv_slice(x, l.imm[1], l.imm[2])
      [] l.tag = "uext"   -> x
      [] l.tag = "sext"   -> bv_sext(w, x, Width(l) - w)

\* Operators on two bit-vectors; v is the width of the second.
BinaryValue(l, v, x, y) ==
    CASE l.tag = "add"  -> bv_add(v, x, y)
      [] l.tag = "sub"  -> bv_sub(v, x, y)
      [] l.tag = "mul"  -> bv_mul(v, x, y)
      [] l.tag = "udiv" -> bv_udiv(v, x, y)
      [] l.tag = "urem" -> bv_urem(v, x, y)
      [] l.tag = "sdiv" -> bv_sdiv(v, x, y)
      [] l.tag = "srem" -> bv_srem(v, x, y)
      [] l.tag = "smod" -> bv_smod(v, x, y)
      [] l.tag = "and"  -> bv_and(v, x, y)
      [] l.tag = "or"   -> bv_or(v, x, y)
      [] l.tag \in {"xnor", "iff"} -> bv_xnor(v, x, y)
      [] l.tag = "xor"  -> bv_xor(v, x, y)
      [] l.tag = "nand" -> bv_nand(v, x, y)
      [] l.tag = "nor"  -> bv_nor(v, x, y)
      [] l.tag = "implies" -> bv_implies(v, x, y)
      [] l.tag = "sll"  -> bv_sll(v, x, y)
      [] l.tag = "srl"  -> bv_srl(v, x, y)
      [] l.tag = "sra"  -> bv_sra(v, x, y)
      [] l.tag = "rol"  -> bv_rol(v, x, y)
      [] l.tag = "ror"  -> bv_ror(v, x, y)
      [] l.tag = "ult"  -> bv_ult(x, y)
      [] l.tag = "ulte" -> bv_ulte(x, y)
      [] l.tag = "ugt"  -> bv_ult(y, x)
      [] l.tag = "ugte" -> bv_ulte(y, x)
      [] l.tag = "slt"  -> bv_slt(v, x, y)
      [] l.tag = "slte" -> bv_slte(v, x, y)
      [] l.tag = "sgt"  -> bv_slt(v, y, x)
      [] l.tag = "sgte" -> bv_slte(v, y, x)
      [] l.tag = "concat" -> bv_concat(v, x, y)

\* Operators that take bit-vectors or arrays.
EqualValue(T, k, x, y) ==
    Truth(IF IsArray(k)
          THEN Equal(x, y, IndexWidthOf(T, k), ElementWidthOf(T, k))
          ELSE x = y)

IteValue(l, c, t, e) ==
    IF IsArray(l) THEN Choose(c, t, e) ELSE IF c = 1 THEN t ELSE e

\* The value of an operator line l from its operands x.
OperatorValue(T, l, x) ==
    CASE l.tag \in Constants -> ConstantValue(l)
      [] l.tag \in UnaryTags -> UnaryValue(l, Width(Arg(T, l, 1)), x[1])
      [] l.tag = "eq"  -> EqualValue(T, Arg(T, l, 1), x[1], x[2])
      [] l.tag = "neq" -> 1 - EqualValue(T, Arg(T, l, 1), x[1], x[2])
      [] l.tag = "ite" -> IteValue(l, x[1], x[2], x[3])
      [] l.tag = "read"  -> Element(x[1], x[2], ElementWidthOf(T, Arg(T, l, 1)))
      [] l.tag = "write" -> Write(x[1], x[2], x[3])
      [] OTHER -> BinaryValue(l, Width(Arg(T, l, 2)), x[1], x[2])

\* The value of line i from the values v of its arguments.
Compute(T, v, i) ==
    OperatorValue(T, T[i], [k \in DOMAIN T[i].args |-> ArgValue(T, v, T[i].args[k])])

\* All arguments of the line have a value.
ArgsSet(T, v, i) == \A k \in DOMAIN T[i].args : Abs(T[i].args[k]) \in DOMAIN v

\* The value a state starts from, by its init line: an array may be filled with
\* a bit-vector.
InitValue(T, v, s) ==
    LET x == ArgValue(T, v, T[s].init)
    IN  IF IsArray(T[s]) /\ IsBitvec(T[Abs(T[s].init)])
        THEN SetConstInit(NewArray, x)
        ELSE x

\* The complete valuation that the values v of the states and inputs determine.
Evaluate(T, v) ==
    LET value[i \in ValueLines(T)] ==
          IF i \in Leaves(T) THEN v[i]
          ELSE LET args == T[i].args
               IN  Compute(T, [a \in {Abs(args[n]) : n \in DOMAIN args} |-> value[a]], i)
    IN  value

\* A fresh value of the line's sort: zero, or any value if chosen at random.
ZeroValue(l) == IF IsArray(l) THEN NewArray ELSE 0

----------------------------------------------------------------------------
(* Models whose lines have values that fit their sorts.  check_sorts_bfr   *)
(* checks some of the sorts; what it leaves open the file has to get right. *)

\* Powers of two, up to the width of any bit-vector.
ASSUME PowersAssumption ==
    /\ 2 ^ 0 = 1
    /\ \A n \in 0 .. MaxBitWidth : 2 ^ n \in Nat /\ 2 ^ (n + 1) = 2 * 2 ^ n

\* The line is a bit-vector, or an array of bit-vectors indexed by bit-vectors.
WidthsKnown(T, l) ==
    IF IsBitvec(l) THEN Width(l) \in 1 .. MaxBitWidth - 1
    ELSE /\ IsBitvec(T[l.sort.word]) /\ IndexWidthOf(T, l) \in 1 .. MaxBitWidth - 1
         /\ IsBitvec(T[l.sort.element]) /\ ElementWidthOf(T, l) \in 1 .. MaxBitWidth - 1

SameWidths(T, k, l) ==
    IF IsBitvec(k) THEN IsBitvec(l) /\ Width(k) = Width(l)
    ELSE IsArray(l) /\ ElementWidthOf(T, k) = ElementWidthOf(T, l)

IsElement(T, k, l) == IsBitvec(k) /\ Width(k) = ElementWidthOf(T, l)

WellSorted(T) ==
    \A i \in DOMAIN T :
        LET l == T[i]
            a(k) == Arg(T, l, k)
        IN  /\ SortsOk(T, l) /\ IndexesOk(l)
            /\ i \in ValueLines(T) => WidthsKnown(T, l)
            /\ l.tag \in Constants => IsBitvec(l)
            /\ l.tag = "const" => l.imm[2] \in Values(Width(l))
            /\ l.tag = "constd" => l.imm[1] \in Int
            /\ l.tag = "consth" => l.imm[1] \in Values(Width(l))
            /\ l.tag \in Equalities => IsBitvec(l)
            /\ l.tag = "ite" => \A k \in 2 .. 3 : SameWidths(T, l, a(k))
            /\ l.tag = "read" => IsElement(T, l, a(1)) /\ IsBitvec(a(2))
            /\ l.tag = "write" =>
                 SameWidths(T, l, a(1)) /\ IsBitvec(a(2)) /\ IsElement(T, a(3), l)
            /\ l.init # 0 =>
                 \/ SameWidths(T, l, T[Abs(l.init)])
                 \/ IsArray(l) /\ IsElement(T, T[Abs(l.init)], l)
            /\ l.next # 0 => SameWidths(T, l, T[Abs(l.next)])

=============================================================================
