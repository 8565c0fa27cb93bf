----------------------------- MODULE Btor2Lemmas -----------------------------
(***************************************************************************)
(* Lemmas that the theorems of several components rest on: sets of natural *)
(* numbers, the lines of accepted statements, and what lines compute, for  *)
(* models of all widths - every operation of BitVec and ArrayModel leaves  *)
(* its result within the width of its sort.  Then what arrays of limbs and *)
(* strings of digits are about: the bits of numbers, digits and loops.     *)
(***************************************************************************)
EXTENDS Btor2Semantics, FiniteSetTheorems, WellFoundedInduction,
        NaturalsInduction, SequenceTheorems, TLAPS

----------------------------------------------------------------------------
(* Least and greatest elements and ranks in sets of natural numbers.       *)

\* A set of natural numbers that is not empty has a least element.
LEMMA LeastNumber ==
    ASSUME NEW S \in SUBSET Nat, S # {}
    PROVE  \E i \in S : \A j \in S : i <= j
<1> DEFINE R == {p \in Nat \X Nat : p[1] < p[2]}
<1>1. IsWellFoundedOn(R, Nat)
  BY NatLessThanWellFounded DEF OpToRel
<1>2. \E i \in S : \A j \in S : <<j, i>> \notin R
  <2> HIDE DEF R
  <2> QED
    BY <1>1, WFMin
<1>3. PICK i \in S : \A j \in S : <<j, i>> \notin R
  BY <1>2
<1>4. \A j \in S : i <= j
  <2> TAKE j \in S
  <2>1. <<j, i>> \in Nat \X Nat /\ ~(<<j, i>>[1] < <<j, i>>[2])
    BY <1>3
  <2> QED
    BY <2>1
<1> QED
  BY <1>4

\* The elements of S below i.
Below(S, i) == {j \in S : j < i}

\* What is below i, and i itself, is below any larger element.
LEMMA BelowGrows ==
    ASSUME NEW S \in SUBSET Nat, IsFiniteSet(S), NEW i \in S, NEW j \in S, i < j
    PROVE  /\ Cardinality(Below(S, i)) \in Nat /\ Cardinality(Below(S, j)) \in Nat
           /\ Cardinality(Below(S, i)) < Cardinality(Below(S, j))
<1>1. /\ Below(S, i) \in SUBSET S /\ Below(S, j) \in SUBSET S
      /\ i \notin Below(S, i)
      /\ Below(S, i) \cup {i} \in SUBSET Below(S, j)
  <2>1. i \in Nat /\ j \in Nat /\ \A x \in S : x \in Nat
    OBVIOUS
  <2>2. \A x \in Below(S, i) : x \in S /\ x < i /\ x < j
    BY <2>1 DEF Below
  <2>3. i \notin Below(S, i) /\ i \in Below(S, j) /\ \A x \in Below(S, j) : x \in S
    BY <2>1 DEF Below
  <2>4. \A x \in Below(S, i) : x \in Below(S, j)
    BY <2>2 DEF Below
  <2> QED
    BY <2>2, <2>3, <2>4
<1>2. IsFiniteSet(Below(S, i)) /\ IsFiniteSet(Below(S, j))
  BY <1>1, FS_Subset
<1>3. Cardinality(Below(S, i)) \in Nat /\ Cardinality(Below(S, j)) \in Nat
  BY <1>2, FS_CardinalityType
<1>4. Cardinality(Below(S, i) \cup {i}) = Cardinality(Below(S, i)) + 1
  BY <1>1, <1>2, FS_AddElement
<1>5. Cardinality(Below(S, i) \cup {i}) <= Cardinality(Below(S, j))
  BY <1>1, <1>2, FS_Subset
<1> QED
  BY <1>3, <1>4, <1>5

\* A finite set of natural numbers that is not empty has a greatest element: the
\* one with most elements below it.
LEMMA GreatestNumber ==
    ASSUME NEW S \in SUBSET Nat, IsFiniteSet(S), S # {}
    PROVE  \E i \in S : \A j \in S : j <= i
<1> DEFINE above(i) == Cardinality(S) - Cardinality(Below(S, i))
           D == {above(i) : i \in S}
<1>1. \A i \in S : above(i) \in Nat
  <2> TAKE i \in S
  <2>1. Below(S, i) \in SUBSET S
    BY DEF Below
  <2> QED
    BY <2>1, FS_Subset, FS_CardinalityType
<1>2. D \in SUBSET Nat /\ D # {}
  BY <1>1
<1>3. PICK d \in D : \A e \in D : d <= e
  <2> HIDE DEF D
  <2> QED
    BY <1>2, LeastNumber
<1>4. PICK i \in S : d = above(i)
  OBVIOUS
<1>5. ASSUME NEW j \in S, i < j PROVE FALSE
  <2>1. above(i) <= above(j)
    BY <1>3, <1>4
  <2>2. /\ Cardinality(Below(S, i)) \in Nat /\ Cardinality(Below(S, j)) \in Nat
        /\ Cardinality(Below(S, i)) < Cardinality(Below(S, j))
    BY <1>5, BelowGrows
  <2>3. Cardinality(S) \in Nat
    BY FS_CardinalityType
  <2> QED
    BY <2>1, <2>2, <2>3
<1> QED
  <2>1. \A j \in S : ~(i < j)
    BY <1>5
  <2> QED
    BY <2>1

\* Of a finite set of natural numbers there is an element with n smaller ones,
\* for every n below its size.
LEMMA RankExists ==
    ASSUME NEW S \in SUBSET Nat, IsFiniteSet(S), NEW n \in Nat, n < Cardinality(S)
    PROVE  \E i \in S : Cardinality(Below(S, i)) = n
<1> DEFINE X == {i \in S : Cardinality(Below(S, i)) >= n}
<1>1. ASSUME NEW T \in SUBSET S, NEW i \in T, \A j \in T : j <= i
      PROVE  /\ Below(T, i) = T \ {i} /\ IsFiniteSet(T)
             /\ Cardinality(T) \in Nat
             /\ Cardinality(Below(T, i)) = Cardinality(T) - 1
  <2>1. Below(T, i) = T \ {i}
    <3>1. i \in Nat /\ \A j \in T : j \in Nat /\ j <= i
      BY <1>1
    <3>2. \A j \in T : j < i <=> j # i
      BY <3>1
    <3> QED
      BY <3>2 DEF Below
  <2>2. IsFiniteSet(T)
    BY FS_Subset
  <2> QED
    BY <2>1, <2>2, FS_RemoveElement, FS_CardinalityType
<1>2. S # {}
  BY FS_EmptySet
<1>3. PICK m \in S : \A j \in S : j <= m
  BY <1>2, GreatestNumber
<1>4. m \in X
  <2>1. Cardinality(S) \in Nat /\ Cardinality(Below(S, m)) = Cardinality(S) - 1
    BY <1>1, <1>3
  <2> QED
    BY <2>1
<1>5. PICK i \in X : \A j \in X : i <= j
  <2>1. X \in SUBSET Nat /\ X # {}
    BY <1>4
  <2> HIDE DEF X
  <2> QED
    BY <2>1, LeastNumber
<1>6. i \in S /\ Cardinality(Below(S, i)) >= n /\ Cardinality(Below(S, i)) \in Nat
  <2>1. Below(S, i) \in SUBSET S
    BY DEF Below
  <2> QED
    BY <2>1, FS_Subset, FS_CardinalityType
<1>7. CASE Cardinality(Below(S, i)) = n
  BY <1>6, <1>7
<1>8. CASE Cardinality(Below(S, i)) > n
  <2> DEFINE T == Below(S, i)
  <2>1. T \in SUBSET S /\ T \in SUBSET Nat /\ IsFiniteSet(T) /\ T # {}
    <3>1. T \in SUBSET S
      BY DEF Below
    <3>2. IsFiniteSet(T)
      BY <3>1, FS_Subset
    <3>3. Cardinality(T) # 0
      BY <1>6, <1>8
    <3> QED
      BY <3>1, <3>2, <3>3, FS_EmptySet
  <2>2. PICK j \in T : \A q \in T : q <= j
    <3> HIDE DEF T
    <3> QED
      BY <2>1, GreatestNumber
  <2>3. Cardinality(Below(T, j)) = Cardinality(T) - 1
    BY <1>1, <2>1, <2>2
  <2>4. Below(T, j) = Below(S, j) /\ j \in S /\ j < i
    <3>1. j \in S /\ j < i /\ i \in Nat /\ j \in Nat /\ \A x \in S : x \in Nat
      BY <1>6, <2>2 DEF Below
    <3>2. \A x \in S : x < j => x < i
      BY <3>1
    <3> QED
      BY <3>1, <3>2 DEF Below
  <2>5. j \in X
    BY <1>6, <1>8, <2>3, <2>4
  <2> QED
    BY <1>5, <1>6, <2>4, <2>5
<1> QED
  BY <1>6, <1>7, <1>8
----------------------------------------------------------------------------
(* Statements: what is stored for an accepted one is a line.               *)

\* A link names its state and its value.
LEMMA LinkArity == Arity["init"] = 2 /\ Arity["next"] = 2
BY DEF Arity, Tag, SortedTags, Constants, UnaryTags, BinaryTags, TernaryTags,
       Unary, Reductions, Extensions, Binary, Predicates, Equalities,
       Connectives, Links, Properties

\* A sort line names no sort.
LEMMA SortTag == "sort" \notin SortedTags
BY DEF SortedTags, Constants, UnaryTags, BinaryTags, TernaryTags, Unary,
       Reductions, Extensions, Binary, Predicates, Equalities, Connectives, Links

\* The sort of an accepted line is a sort.
LEMMA SortOfType ==
    ASSUME NEW T, \A i \in DOMAIN T : T[i] \in Line,
           NEW s \in StatementType, BodyOk(T, s)
    PROVE  SortOf(T, s) \in Sort
<1>1. CASE s.tag \in SortedTags
  <2>1. s.sid \in DOMAIN T
    BY <1>1 DEF BodyOk, SortIdOk
  <2>2. T[s.sid].sort \in Sort
    BY <2>1 DEF Line
  <2> QED
    BY <1>1, <2>2, SortTag DEF SortOf
<1>2. CASE s.tag = "sort" /\ s.kind = "bitvec" /\ s.tag \notin SortedTags
  <2>1. s.imm[1] \in Nat
    BY <1>2, MaxBitWidthAssumption DEF BodyOk, SortBodyOk
  <2> QED
    BY <1>2, <2>1 DEF SortOf, Sort, StatementType
<1>3. CASE s.tag = "sort" /\ s.kind = "array" /\ s.tag \notin SortedTags
  <2>1. \A i \in 1 .. 2 : s.imm[i] \in DOMAIN T
    BY <1>3 DEF BodyOk, SortBodyOk, SortIdOk
  <2>2. \A i \in 1 .. 2 : T[s.imm[i]].sort.id \in Nat
    BY <2>1 DEF Line, Sort
  <2> QED
    BY <1>3, <2>2 DEF SortOf, Sort, StatementType
<1>4. CASE s.tag # "sort" /\ s.tag \notin SortedTags
  BY <1>4 DEF SortOf, NoSort, Sort
<1> QED
  BY <1>1, <1>2, <1>3, <1>4 DEF StatementType

\* What the parser stores for an accepted statement is a line.
LEMMA LineOfType ==
    ASSUME NEW T, \A i \in DOMAIN T : T[i] \in Line,
           NEW s \in StatementType, BodyOk(T, s)
    PROVE  LineOf(T, s) \in Line
<1>1. SortOf(T, s) \in Sort
  BY SortOfType
<1> QED
  BY <1>1 DEF LineOf, Line, StatementType

\* The table stays one of lines when it is extended.
LEMMA ExtendedType ==
    ASSUME NEW T, \A i \in DOMAIN T : T[i] \in Line,
           NEW s \in StatementType, BodyOk(T, s)
    PROVE  \A i \in DOMAIN Extended(T, s) : Extended(T, s)[i] \in Line
<1> SUFFICES ASSUME NEW i \in DOMAIN T \cup {s.id}
             PROVE  Extended(T, s)[i] \in Line
  BY DEF Extended
<1>1. CASE i = s.id
  BY <1>1, LineOfType DEF Extended
<1>2. CASE i # s.id
  <2>1. T[i] \in Line
    BY <1>2
  <2>2. s.tag \in {"init", "next"} => s.args[2] \in Int
    BY LinkArity DEF BodyOk, StatementType
  <2> QED
    BY <1>2, <2>1, <2>2 DEF Extended, Line
<1> QED
  BY <1>1, <1>2

----------------------------------------------------------------------------
(* Numbers as bit-vectors.                                                 *)

\* The partial sums of SumBelow, which its recursive definition describes: there
\* is a function that satisfies it, by induction on the number of terms.
LEMMA PartialSums ==
    ASSUME NEW w \in Nat, NEW h \in [0 .. w - 1 -> Int]
    PROVE  \E f : /\ SumBelow(w, h) = f[w]
                  /\ f[0] = 0
                  /\ \A n \in 1 .. w : f[n] = f[n - 1] + h[n - 1]
<1> DEFINE step(g, i) == IF i = 0 THEN 0 ELSE g[i - 1] + h[i - 1]
           sums(n) == \E g \in [0 .. w -> Int] : \A i \in 0 .. n : g[i] = step(g, i)
           F(f) == [i \in 0 .. w |-> step(f, i)]
           bad == {n \in 0 .. w : ~sums(n)}
<1>1. ASSUME bad # {} PROVE FALSE
  <2>1. PICK n \in bad : \A j \in bad : n <= j
    <3>1. bad \in SUBSET Nat
      OBVIOUS
    <3> HIDE DEF bad
    <3> QED
      BY <1>1, <3>1, LeastNumber
  <2>2. sums(0)
    <3> DEFINE e == [i \in 0 .. w |-> 0]
    <3>1. e \in [0 .. w -> Int] /\ \A i \in 0 .. 0 : e[i] = step(e, i)
      OBVIOUS
    <3> HIDE DEF e, step
    <3> QED
      BY <3>1
  <2>3. n \in 1 .. w /\ n - 1 \in 0 .. w /\ sums(n - 1)
    <3> HIDE DEF sums
    <3>1. n \in 0 .. w /\ n # 0
      BY <2>1, <2>2
    <3>2. n - 1 \in 0 .. w /\ ~(n <= n - 1)
      BY <3>1
    <3>3. n - 1 \notin bad
      BY <2>1, <3>2
    <3> QED
      BY <3>1, <3>2, <3>3
  <2>4. PICK g \in [0 .. w -> Int] : \A i \in 0 .. n - 1 : g[i] = step(g, i)
    BY <2>3
  <2>5. DEFINE e == [g EXCEPT ![n] = g[n - 1] + h[n - 1]]
  <2>6. e \in [0 .. w -> Int]
    BY <2>3
  <2>7. ASSUME NEW i \in 0 .. n PROVE e[i] = step(e, i)
    <3>1. CASE i = n
      BY <2>3, <3>1
    <3>2. CASE i # n
      <4>1. i \in 0 .. n - 1 /\ i # n /\ i - 1 # n /\ i \in 0 .. w
        BY <2>3, <3>2
      <4>2. e[i] = g[i] /\ (i # 0 => e[i - 1] = g[i - 1])
        BY <4>1
      <4> QED
        BY <2>4, <4>1, <4>2
    <3> QED
      BY <3>1, <3>2
  <2> QED
    BY <2>1, <2>6, <2>7
<1>2. PICK g \in [0 .. w -> Int] : \A i \in 0 .. w : g[i] = step(g, i)
  <2>1. sums(w)
    <3> HIDE DEF sums
    <3> QED
      BY <1>1
  <2> QED
    BY <2>1
<1>3. g = F(g)
  BY <1>2
<1>4. \E f : f = F(f)
  BY <1>3
<1> DEFINE f == CHOOSE f : f = F(f)
<1>5. f = F(f)
  BY <1>4
<1>6. SumBelow(w, h) = f[w]
  BY DEF SumBelow
<1> HIDE DEF f
<1>7. \A i \in 0 .. w : f[i] = step(f, i)
  BY <1>5
<1>8. f[0] = 0 /\ \A n \in 1 .. w : f[n] = f[n - 1] + h[n - 1]
  BY <1>7
<1> QED
  BY <1>6, <1>8

\* Powers of two are positive.
LEMMA Powers == \A n \in 0 .. MaxBitWidth + 1 : 2 ^ n \in Nat \ {0}
<1> DEFINE bad == {n \in 0 .. MaxBitWidth + 1 : 2 ^ n \notin Nat \ {0}}
<1>1. ASSUME bad # {} PROVE FALSE
  <2>1. PICK n \in bad : \A j \in bad : n <= j
    <3>1. bad \in SUBSET Nat
      OBVIOUS
    <3> HIDE DEF bad
    <3> QED
      BY <1>1, <3>1, LeastNumber
  <2>2. n # 0 /\ n \in 0 .. MaxBitWidth + 1
    <3>1. 1 \in Nat \ {0}
      OBVIOUS
    <3>2. n # 0
      BY <2>1, <3>1, PowersAssumption, Zenon
    <3> QED
      BY <2>1, <3>2
  <2> DEFINE m == n - 1
  <2>3. m \in 0 .. MaxBitWidth /\ m \in 0 .. MaxBitWidth + 1 /\ ~(n <= m) /\ n = m + 1
    BY <2>2, MaxBitWidthAssumption
  <2> HIDE DEF m
  <2>4. m \notin bad
    BY <2>1, <2>3
  <2>5. 2 ^ m \in Nat \ {0} /\ 2 ^ (m + 1) = 2 * 2 ^ m
    BY <2>3, <2>4, PowersAssumption
  <2>6. 2 ^ n \in Nat \ {0}
    BY <2>3, <2>5
  <2> QED
    BY <2>1, <2>6
<1> QED
  BY <1>1

\* The power of a sum is the product of the powers.
LEMMA PowerOfSum ==
    ASSUME NEW m \in Nat, NEW n \in Nat, m + n <= MaxBitWidth
    PROVE  2 ^ (m + n) = 2 ^ m * 2 ^ n
<1> DEFINE bad == {j \in 0 .. n : 2 ^ (m + j) # 2 ^ m * 2 ^ j}
<1>0. MaxBitWidth \in Nat
  BY MaxBitWidthAssumption
<1>1. ASSUME bad # {} PROVE FALSE
  <2>1. PICK j \in bad : \A i \in bad : j <= i
    <3>1. bad \in SUBSET Nat
      OBVIOUS
    <3> HIDE DEF bad
    <3> QED
      BY <1>1, <3>1, LeastNumber
  <2>2. j \in 0 .. n /\ 2 ^ (m + j) # 2 ^ m * 2 ^ j
    BY <2>1
  <2>3. 2 ^ m \in Nat
    BY <1>0, Powers
  <2>4. j # 0
    <3>1. m + 0 = m /\ 2 ^ m * 1 = 2 ^ m
      BY <2>3
    <3> QED
      BY <2>2, <3>1, PowersAssumption, Zenon
  <2> DEFINE i == j - 1
  <2>5. i \in 0 .. n /\ ~(j <= i) /\ j = i + 1 /\ m + j = (m + i) + 1
        /\ i \in 0 .. MaxBitWidth /\ m + i \in 0 .. MaxBitWidth
    BY <1>0, <2>2, <2>4
  <2> HIDE DEF i
  <2>6. i \notin bad
    BY <2>1, <2>5
  <2>7. 2 ^ (m + i) = 2 ^ m * 2 ^ i
    BY <2>5, <2>6
  <2>8. 2 ^ j = 2 * 2 ^ i /\ 2 ^ (m + j) = 2 * 2 ^ (m + i) /\ 2 ^ i \in Nat
    BY <2>5, PowersAssumption
  <2>9. \A x, y \in Nat : 2 * (x * y) = x * (2 * y)
    OBVIOUS
  <2> QED
    BY <2>2, <2>3, <2>7, <2>8, <2>9
<1>2. n \in 0 .. n
  OBVIOUS
<1> QED
  BY <1>1, <1>2

\* A sum of bits, each at its place, has the width of their number.
LEMMA SumOfBits ==
    ASSUME NEW w \in 0 .. MaxBitWidth, NEW h \in [0 .. w - 1 -> Int],
           \A i \in 0 .. w - 1 : h[i] \in {0, 2 ^ i}
    PROVE  SumBelow(w, h) \in Values(w)
<1>0. w \in Nat /\ MaxBitWidth \in Nat
  BY MaxBitWidthAssumption
<1>1. PICK f : /\ SumBelow(w, h) = f[w]
               /\ f[0] = 0
               /\ \A n \in 1 .. w : f[n] = f[n - 1] + h[n - 1]
  BY <1>0, PartialSums
<1> DEFINE bad == {n \in 0 .. w : f[n] \notin Values(n)}
<1>2. ASSUME bad # {} PROVE FALSE
  <2>1. PICK n \in bad : \A j \in bad : n <= j
    <3>1. bad \in SUBSET Nat
      OBVIOUS
    <3> HIDE DEF bad
    <3> QED
      BY <1>2, <3>1, LeastNumber
  <2>2. n \in 0 .. w /\ f[n] \notin Values(n)
    BY <2>1
  <2>3. n # 0
    <3>1. 0 \in 0 .. 1 - 1
      OBVIOUS
    <3> QED
      BY <1>1, <2>2, <3>1, PowersAssumption, Zenon DEF Values
  <2> DEFINE m == n - 1
  <2>4. m \in 0 .. w - 1 /\ m \in 0 .. w /\ m \in 0 .. MaxBitWidth /\ ~(n <= m) /\ n = m + 1 /\ n \in 1 .. w
    BY <1>0, <2>2, <2>3
  <2>5. f[n] = f[m] + h[m]
    BY <1>1, <2>4
  <2> HIDE DEF m
  <2>6. f[m] \in Values(m)
    BY <2>1, <2>4
  <2>7. h[m] \in {0, 2 ^ m} /\ 2 ^ n = 2 * 2 ^ m /\ 2 ^ m \in Nat
    BY <2>4, PowersAssumption
  <2>8. f[n] \in Values(n)
    <3>1. \A p \in Nat : \A x \in 0 .. p - 1, y \in {0, p} : x + y \in 0 .. 2 * p - 1
      OBVIOUS
    <3> QED
      BY <2>5, <2>6, <2>7, <3>1, Zenon DEF Values
  <2> QED
    BY <2>2, <2>8
<1> QED
  BY <1>0, <1>1, <1>2

----------------------------------------------------------------------------
(* Bit-vectors: no result is wider than its sort.                          *)

\* The values of a width.
LEMMA ValuesOf ==
    ASSUME NEW w \in 1 .. MaxBitWidth
    PROVE  /\ w \in Nat \ {0} /\ w \in 0 .. MaxBitWidth
           /\ 2 ^ w \in Nat \ {0}
           /\ Values(w) \subseteq Nat
           /\ 0 \in Values(w) /\ 1 \in Values(w) /\ 2 ^ w - 1 \in Values(w)
           /\ \A x \in Int : Fit(w, x) \in Values(w)
<1>0. MaxBitWidth \in Nat
  BY MaxBitWidthAssumption
<1> DEFINE m == w - 1
<1>1. w \in Nat \ {0} /\ w \in 0 .. MaxBitWidth /\ m \in 0 .. MaxBitWidth /\ w = m + 1
      /\ m \in 0 .. MaxBitWidth + 1
  BY <1>0
<1> HIDE DEF m
<1>2. 2 ^ w = 2 * 2 ^ m /\ 2 ^ m \in Nat \ {0}
  BY <1>1, Powers, PowersAssumption
<1> DEFINE p == 2 ^ w
<1>3. p \in Nat /\ p > 1
  BY <1>2
<1>4. Values(w) = 0 .. p - 1 /\ \A x : Fit(w, x) = x % p
  BY DEF Values, Fit
<1>5. p \in Nat \ {0} /\ 2 ^ w = p
  BY <1>3
<1> HIDE DEF p
<1>6. \A x \in Int : x % p \in 0 .. p - 1
  BY <1>3
<1>7. 0 .. p - 1 \subseteq Nat /\ 0 \in 0 .. p - 1 /\ 1 \in 0 .. p - 1 /\ p - 1 \in 0 .. p - 1
  BY <1>3
<1> QED
  BY <1>1, <1>4, <1>5, <1>6, <1>7, Zenon

\* Division and remainder of natural numbers.
LEMMA DivMod ==
    ASSUME NEW x \in Nat, NEW y \in Nat \ {0}
    PROVE  /\ x \div y \in 0 .. x
           /\ x % y \in 0 .. x /\ x % y \in 0 .. y - 1
OBVIOUS

\* A bit is zero or one, and a truth value is a bit.
LEMMA Bits ==
    /\ \A x \in Nat, i \in 0 .. MaxBitWidth : Bit(x, i) \in {0, 1}
    /\ \A p : Truth(p) \in {0, 1}
    /\ Values(1) = {0, 1}
<1>1. ASSUME NEW x \in Nat, NEW i \in 0 .. MaxBitWidth PROVE Bit(x, i) \in {0, 1}
  <2>1. 2 ^ i \in Nat \ {0}
    BY Powers, MaxBitWidthAssumption
  <2>2. \A d \in Nat \ {0} : x \div d \in Nat
    OBVIOUS
  <2>3. \A q \in Nat : q % 2 \in {0, 1}
    OBVIOUS
  <2> QED
    BY <2>1, <2>2, <2>3, Zenon DEF Bit
<1>2. \A p : Truth(p) \in {0, 1}
  BY DEF Truth
<1>3. Values(1) = {0, 1}
  <2>1. 0 \in 0 .. MaxBitWidth /\ 0 + 1 = 1
    BY MaxBitWidthAssumption
  <2>2. 2 ^ 1 = 2 * 1
    BY <2>1, PowersAssumption, Zenon
  <2> QED
    BY <2>2 DEF Values
<1> QED
  BY <1>1, <1>2, <1>3

\* Negation and what an addition or multiplication leaves of its result.
LEMMA ArithmeticFits ==
    ASSUME NEW w \in 1 .. MaxBitWidth, NEW a \in Values(w), NEW b \in Values(w)
    PROVE  /\ bv_not(w, a) \in Values(w) /\ bv_neg(w, a) \in Values(w)
           /\ bv_inc(w, a) \in Values(w) /\ bv_dec(w, a) \in Values(w)
           /\ bv_add(w, a, b) \in Values(w) /\ bv_sub(w, a, b) \in Values(w)
           /\ bv_mul(w, a, b) \in Values(w)
<1>1. 2 ^ w \in Nat /\ a \in Nat /\ b \in Nat /\ \A x \in Int : Fit(w, x) \in Values(w)
  BY ValuesOf
<1>2. ASSUME NEW x \in Values(w) PROVE bv_not(w, x) \in Values(w) /\ bv_not(w, x) \in Int
  BY <1>1 DEF bv_not, Values
<1>3. ASSUME NEW x \in Values(w) PROVE bv_neg(w, x) \in Values(w) /\ bv_neg(w, x) \in Nat
  <2>1. bv_not(w, x) + 1 \in Int
    BY <1>2
  <2> QED
    BY <1>1, <2>1, ValuesOf DEF bv_neg
<1>4. a + 1 \in Int /\ a + 2 ^ w - 1 \in Int /\ a + b \in Int /\ a * b \in Int
  BY <1>1
<1>5. a + bv_neg(w, b) \in Int
  BY <1>1, <1>3
<1> QED
  BY <1>1, <1>2, <1>3, <1>4, <1>5 DEF bv_inc, bv_dec, bv_add, bv_sub, bv_mul

\* Operations bit by bit.
LEMMA BitwiseFits ==
    ASSUME NEW w \in 1 .. MaxBitWidth, NEW a \in Values(w), NEW b \in Values(w)
    PROVE  /\ bv_and(w, a, b) \in Values(w) /\ bv_or(w, a, b) \in Values(w)
           /\ bv_xor(w, a, b) \in Values(w) /\ bv_nand(w, a, b) \in Values(w)
           /\ bv_nor(w, a, b) \in Values(w) /\ bv_xnor(w, a, b) \in Values(w)
           /\ bv_implies(w, a, b) \in Values(w)
<1>1. MaxBitWidth \in Nat /\ w \in Nat /\ w \in 0 .. MaxBitWidth
      /\ \A i \in 0 .. w - 1 : i \in 0 .. MaxBitWidth /\ 2 ^ i \in Nat
  BY MaxBitWidthAssumption, Powers
<1>2. ASSUME NEW x \in Values(w), NEW y \in Values(w)
      PROVE  /\ bv_and(w, x, y) \in Values(w)
             /\ bv_or(w, x, y) \in Values(w)
             /\ bv_xor(w, x, y) \in Values(w)
  <2>1. x \in Nat /\ y \in Nat
    BY ValuesOf
  <2>2. \A i \in 0 .. w - 1 : Bit(x, i) \in {0, 1} /\ Bit(y, i) \in {0, 1}
    BY <1>1, <2>1, Bits
  <2>3. \A p, q \in {0, 1} : p * q \in {0, 1} /\ p + q - p * q \in {0, 1} /\ (p + q) % 2 \in {0, 1}
    OBVIOUS
  <2>4. \A n \in Nat, p \in {0, 1} : n * p \in {0, n} /\ n * p \in Int
    OBVIOUS
  <2> DEFINE h1 == [i \in 0 .. w - 1 |-> 2 ^ i * (Bit(x, i) * Bit(y, i))]
             h2 == [i \in 0 .. w - 1 |-> 2 ^ i * (Bit(x, i) + Bit(y, i) - Bit(x, i) * Bit(y, i))]
             h3 == [i \in 0 .. w - 1 |-> 2 ^ i * ((Bit(x, i) + Bit(y, i)) % 2)]
  <2>5. ASSUME NEW i \in 0 .. w - 1
        PROVE  /\ h1[i] \in {0, 2 ^ i} /\ h1[i] \in Int
               /\ h2[i] \in {0, 2 ^ i} /\ h2[i] \in Int
               /\ h3[i] \in {0, 2 ^ i} /\ h3[i] \in Int
    <3>1. /\ Bit(x, i) * Bit(y, i) \in {0, 1}
          /\ Bit(x, i) + Bit(y, i) - Bit(x, i) * Bit(y, i) \in {0, 1}
          /\ (Bit(x, i) + Bit(y, i)) % 2 \in {0, 1}
      BY <2>2, <2>3, Zenon
    <3> QED
      BY <1>1, <2>4, <3>1, Zenon
  <2>6. h1 \in [0 .. w - 1 -> Int] /\ h2 \in [0 .. w - 1 -> Int] /\ h3 \in [0 .. w - 1 -> Int]
    <3> HIDE DEF h1, h2, h3
    <3> SUFFICES /\ h1 = [i \in 0 .. w - 1 |-> h1[i]]
                 /\ h2 = [i \in 0 .. w - 1 |-> h2[i]]
                 /\ h3 = [i \in 0 .. w - 1 |-> h3[i]]
      BY <2>5
    <3> QED
      BY DEF h1, h2, h3
  <2>7. /\ bv_and(w, x, y) = SumBelow(w, h1)
        /\ bv_or(w, x, y) = SumBelow(w, h2)
        /\ bv_xor(w, x, y) = SumBelow(w, h3)
    BY DEF bv_and, bv_or, bv_xor, Bitwise
  <2> HIDE DEF h1, h2, h3
  <2> QED
    BY <1>1, <2>5, <2>6, <2>7, SumOfBits
<1>3. \A x \in Values(w) : bv_not(w, x) \in Values(w)
  BY ArithmeticFits
<1> QED
  BY <1>2, <1>3 DEF bv_nand, bv_nor, bv_xnor, bv_implies

\* Reductions and comparisons give a bit.
LEMMA ComparisonsFit ==
    ASSUME NEW w \in 1 .. MaxBitWidth, NEW a \in Values(w), NEW b \in Values(w)
    PROVE  /\ bv_redand(w, a) \in {0, 1} /\ bv_redor(w, a) \in {0, 1}
           /\ bv_redxor(w, a) \in {0, 1}
           /\ bv_ult(a, b) \in {0, 1} /\ bv_ulte(a, b) \in {0, 1}
           /\ bv_slt(w, a, b) \in {0, 1} /\ bv_slte(w, a, b) \in {0, 1}
<1>1. w \in Nat /\ a \in Nat /\ \A i \in 0 .. w - 1 : i \in 0 .. MaxBitWidth
  BY MaxBitWidthAssumption, ValuesOf
<1>2. bv_redxor(w, a) \in {0, 1}
  <2> DEFINE h == [i \in 0 .. w - 1 |-> Bit(a, i)]
  <2>1. \A i \in 0 .. w - 1 : h[i] \in {0, 1}
    BY <1>1, Bits
  <2>2. h \in [0 .. w - 1 -> Int] /\ bv_redxor(w, a) = SumBelow(w, h) % 2
    BY <2>1 DEF bv_redxor
  <2> HIDE DEF h
  <2>3. PICK f : /\ SumBelow(w, h) = f[w]
                 /\ f[0] = 0
                 /\ \A n \in 1 .. w : f[n] = f[n - 1] + h[n - 1]
    BY <1>1, <2>2, PartialSums
  <2> DEFINE bad == {n \in 0 .. w : f[n] \notin Int}
  <2>4. ASSUME bad # {} PROVE FALSE
    <3>1. PICK n \in bad : \A j \in bad : n <= j
      <4>1. bad \in SUBSET Nat
        OBVIOUS
      <4> HIDE DEF bad
      <4> QED
        BY <2>4, <4>1, LeastNumber
    <3>2. n \in 1 .. w /\ n - 1 \in 0 .. w - 1 /\ n - 1 \in 0 .. w /\ ~(n <= n - 1)
      BY <2>3, <3>1
    <3>3. f[n - 1] \in Int
      BY <3>1, <3>2
    <3>4. f[n] \in Int
      BY <2>2, <2>3, <3>2, <3>3
    <3> QED
      BY <3>1, <3>4
  <2>5. f[w] \in Int
    BY <1>1, <2>4
  <2>6. \A n \in Int : n % 2 \in {0, 1}
    OBVIOUS
  <2> QED
    BY <2>2, <2>3, <2>5, <2>6
<1> QED
  BY <1>2, Bits DEF bv_redand, bv_redor, bv_ult, bv_ulte, bv_slt, bv_slte

\* Division, also by zero; signed division is division of magnitudes.
LEMMA DivisionFits ==
    ASSUME NEW w \in 1 .. MaxBitWidth, NEW a \in Values(w), NEW b \in Values(w)
    PROVE  /\ bv_udiv(w, a, b) \in Values(w) /\ bv_urem(w, a, b) \in Values(w)
           /\ bv_sdiv(w, a, b) \in Values(w) /\ bv_srem(w, a, b) \in Values(w)
           /\ bv_smod(w, a, b) \in Values(w)
<1>1. ASSUME NEW x \in Values(w), NEW y \in Values(w)
      PROVE  /\ bv_udiv(w, x, y) \in Values(w)
             /\ bv_urem(w, x, y) \in Values(w)
  <2>1. /\ x \in Nat /\ y \in Nat /\ 2 ^ w \in Nat /\ 2 ^ w - 1 \in Values(w)
        /\ Values(w) = 0 .. 2 ^ w - 1
    BY ValuesOf DEF Values
  <2>2. y # 0 => x \div y \in 0 .. x /\ x % y \in 0 .. x
    BY <2>1, DivMod
  <2>3. \A n \in 0 .. x : n \in Values(w)
    BY <2>1
  <2> QED
    BY <2>1, <2>2, <2>3 DEF bv_udiv, bv_urem
<1>2. \A x \in Values(w) : bv_neg(w, x) \in Values(w) /\ bv_not(w, x) \in Values(w)
  BY ArithmeticFits
<1>3. \A x, y \in Values(w) : bv_and(w, x, y) \in Values(w) /\ bv_add(w, x, y) \in Values(w)
  BY BitwiseFits, ArithmeticFits
<1>4. Magnitude(w, a) \in Values(w) /\ Magnitude(w, b) \in Values(w) /\ 0 \in Values(w)
  BY <1>2, ValuesOf DEF Magnitude
<1> DEFINE quotient == bv_udiv(w, Magnitude(w, a), Magnitude(w, b))
           rest == bv_urem(w, Magnitude(w, a), Magnitude(w, b))
<1>5. quotient \in Values(w) /\ rest \in Values(w)
  BY <1>1, <1>4
<1>6. bv_sdiv(w, a, b) \in Values(w)
  BY <1>2, <1>3, <1>5, Zenon DEF bv_sdiv
<1>7. bv_srem(w, a, b) \in Values(w)
  BY <1>2, <1>3, <1>5, Zenon DEF bv_srem
<1>8. bv_smod(w, a, b) \in Values(w)
  <2> DEFINE add == IF rest = 0 THEN 0 ELSE b
             neg == bv_neg(w, rest)
  <2>1. add \in Values(w) /\ neg \in Values(w)
    BY <1>2, <1>4, <1>5
  <2>2. /\ bv_add(w, neg, add) \in Values(w) /\ bv_add(w, rest, add) \in Values(w)
        /\ bv_and(w, a, bv_not(w, b)) \in Values(w)
    BY <1>2, <1>3, <1>5, <2>1
  <2>3. bv_smod(w, a, b) =
          IF w = 1 THEN bv_and(w, a, bv_not(w, b))
          ELSE CASE Sign(w, a) = 0 /\ Sign(w, b) = 0 -> rest
                 [] Sign(w, a) = 1 /\ Sign(w, b) = 0 -> bv_add(w, neg, add)
                 [] Sign(w, a) = 0 /\ Sign(w, b) = 1 -> bv_add(w, rest, add)
                 [] OTHER -> neg
    BY DEF bv_smod
  <2> HIDE DEF add, neg, rest
  <2> QED
    BY <1>5, <2>1, <2>2, <2>3
<1> QED
  BY <1>1, <1>6, <1>7, <1>8

\* Shifts and rotations.
LEMMA ShiftsFit ==
    ASSUME NEW w \in 1 .. MaxBitWidth, NEW a \in Values(w), NEW b \in Values(w)
    PROVE  /\ bv_sll(w, a, b) \in Values(w) /\ bv_srl(w, a, b) \in Values(w)
           /\ bv_sra(w, a, b) \in Values(w)
           /\ bv_rol(w, a, b) \in Values(w) /\ bv_ror(w, a, b) \in Values(w)
<1>0. w \in Nat /\ MaxBitWidth \in Nat /\ \A n \in Nat : n < w => n \in 0 .. MaxBitWidth + 1
  BY ValuesOf, MaxBitWidthAssumption
<1>1. ASSUME NEW x \in Values(w), NEW y \in Values(w)
      PROVE  bv_sll(w, x, y) \in Values(w) /\ bv_srl(w, x, y) \in Values(w)
  <2>1. x \in Nat /\ y \in Nat /\ 0 \in Values(w) /\ \A n \in Int : Fit(w, n) \in Values(w)
    BY ValuesOf
  <2> DEFINE shift == y % 2 ^ WordBits
  <2>2. shift \in Nat
    BY <2>1, WordBitsAssumption, DivMod
  <2> HIDE DEF shift
  <2>3. ~(shift >= w) => x * 2 ^ shift \in Int
    <3>1. \A p \in Nat : x * p \in Int
      BY <2>1
    <3> QED
      BY <1>0, <2>2, <3>1, Powers
  <2>4. bv_sll(w, x, y) \in Values(w)
    BY <2>1, <2>3 DEF bv_sll, shift
  <2>5. ~(y >= w) => x \div 2 ^ y \in 0 .. x
    <3>1. ~(y >= w) => 2 ^ y \in Nat \ {0}
      BY <1>0, <2>1, Powers
    <3> QED
      BY <2>1, <3>1, DivMod
  <2>6. \A n \in 0 .. x : n \in Values(w)
    <3>1. 2 ^ w \in Nat
      BY ValuesOf
    <3> QED
      BY <2>1, <3>1 DEF Values
  <2> QED
    BY <2>1, <2>4, <2>5, <2>6 DEF bv_srl
<1>2. \A x, y \in Values(w) : /\ bv_not(w, x) \in Values(w)
                               /\ bv_or(w, x, y) \in Values(w)
                               /\ bv_sub(w, x, y) \in Values(w)
  BY ArithmeticFits, BitwiseFits
<1>3. bv_sra(w, a, b) \in Values(w)
  BY <1>1, <1>2 DEF bv_sra
<1>4. bv_sub(w, Fit(w, w), b) \in Values(w)
  <2>1. w \in Int
    BY <1>0
  <2>2. Fit(w, w) \in Values(w)
    BY <2>1, ValuesOf
  <2> QED
    BY <1>2, <2>2
<1> QED
  BY <1>1, <1>2, <1>3, <1>4 DEF bv_rol, bv_ror

\* Operations that change the width.
LEMMA ConcatFits ==
    ASSUME NEW u \in 0 .. MaxBitWidth, NEW v \in 0 .. MaxBitWidth, u + v <= MaxBitWidth,
           NEW a \in Values(u), NEW b \in Values(v)
    PROVE  bv_concat(v, a, b) \in Values(u + v)
<1>1. u \in Nat /\ v \in Nat /\ 2 ^ u \in Nat /\ 2 ^ v \in Nat /\ 2 ^ (u + v) = 2 ^ u * 2 ^ v
  BY MaxBitWidthAssumption, Powers, PowerOfSum
<1>2. \A p, q \in Nat : \A x \in 0 .. p - 1, y \in 0 .. q - 1 : x * q + y \in 0 .. p * q - 1
  <2> SUFFICES ASSUME NEW p \in Nat, NEW q \in Nat, NEW x \in 0 .. p - 1, NEW y \in 0 .. q - 1
               PROVE  x * q + y \in 0 .. p * q - 1
    OBVIOUS
  <2> DEFINE r == p - 1 - x
  <2>1. r \in Nat /\ p = r + x + 1 /\ x \in Nat
    OBVIOUS
  <2> HIDE DEF r
  <2>2. p * q = r * q + x * q + q /\ r * q \in Nat /\ x * q \in Nat
    BY <2>1
  <2> QED
    BY <2>2
<1> QED
  BY <1>1, <1>2, Zenon DEF bv_concat, Values

\* A slice has the width of its bounds.
LEMMA SliceFits ==
    ASSUME NEW upper \in Nat, NEW lower \in 0 .. MaxBitWidth, NEW a \in Nat,
           upper - lower + 1 \in 1 .. MaxBitWidth
    PROVE  bv_slice(a, upper, lower) \in Values(upper - lower + 1)
<1>1. 2 ^ lower \in Nat \ {0}
  BY Powers, MaxBitWidthAssumption
<1>2. a \div 2 ^ lower \in Int
  BY <1>1, DivMod
<1> QED
  BY <1>2, ValuesOf DEF bv_slice

\* A sign extension by len bits.
LEMMA ExtensionFits ==
    ASSUME NEW v \in 1 .. MaxBitWidth, NEW len \in 0 .. MaxBitWidth, v + len <= MaxBitWidth,
           NEW a \in Values(v)
    PROVE  bv_sext(v, a, len) \in Values(v + len)
<1>1. /\ v \in 0 .. MaxBitWidth /\ len \in Nat /\ v \in Nat /\ len + v = v + len
      /\ 2 ^ len \in Nat \ {0}
  BY MaxBitWidthAssumption, Powers
<1>2. 2 ^ len - 1 \in Values(len) /\ 0 \in Values(len)
  BY <1>1 DEF Values
<1> DEFINE x == IF Sign(v, a) = 1 THEN 2 ^ len - 1 ELSE 0
<1>3. x \in Values(len)
  BY <1>2
<1>4. bv_sext(v, a, len) = bv_concat(v, x, a)
  BY DEF bv_sext
<1> HIDE DEF x
<1>5. bv_concat(v, x, a) \in Values(len + v)
  BY <1>1, <1>3, ConcatFits
<1> QED
  BY <1>1, <1>4, <1>5

----------------------------------------------------------------------------
(* Arrays.                                                                 *)

\* The array models with elements of width w.
ArraysOver(w) == [data : UNION {[D -> Values(w)] : D \in SUBSET Int},
              const_init : Values(w) \cup {None},
              random_seed : Nat]

\* What an array holds, and what becomes of it.
LEMMA ArraysFit ==
    ASSUME NEW w \in 1 .. MaxBitWidth, NEW m \in ArraysOver(w), NEW i \in Int, NEW x \in Values(w)
    PROVE  /\ Element(m, i, w) \in Values(w)
           /\ Write(m, i, x) \in ArraysOver(w)
           /\ Copy(m) \in ArraysOver(w)
           /\ SetConstInit(m, x) \in ArraysOver(w)
<1>1. 0 \in Values(w) /\ \A n \in Int : Fit(w, n) \in Values(w)
  BY ValuesOf
<1>2. get_random_init(m, i, w) \in Values(w)
  <2> DEFINE n == m.random_seed + i
             r == (n * (n + 1)) \div 2 + i
  <2>1. n \in Int
    BY DEF ArraysOver
  <2> HIDE DEF n
  <2>2. n * (n + 1) \in Int /\ \A y \in Int : y \div 2 \in Int
    BY <2>1
  <2>3. r \in Int
    BY <2>2
  <2>4. get_random_init(m, i, w) = Fit(w, r)
    BY DEF get_random_init, Fit, n
  <2> HIDE DEF r
  <2> QED
    BY <1>1, <2>3, <2>4
<1>3. Default(m, i, w) \in Values(w)
  <2>1. m.const_init \in Values(w) \cup {None}
    BY DEF ArraysOver
  <2> QED
    BY <1>1, <1>2, <2>1 DEF Default
<1>4. PICK D \in SUBSET Int : m.data \in [D -> Values(w)]
  BY DEF ArraysOver
<1>5. Element(m, i, w) \in Values(w)
  BY <1>3, <1>4 DEF Element
<1>6. With(m.data, i, x) \in [D \cup {i} -> Values(w)]
  BY <1>4 DEF With
<1>7. With(m.data, i, x) \in UNION {[E -> Values(w)] : E \in SUBSET Int}
  BY <1>6
<1>8. Copy(m) \in ArraysOver(w) /\ Copy(m).data = m.data
  BY DEF Copy, ArraysOver
<1>9. Write(m, i, x) \in ArraysOver(w)
  BY <1>7, <1>8 DEF Write, ArraysOver
<1>10. SetConstInit(m, x) \in ArraysOver(w)
  BY <1>8 DEF SetConstInit, ArraysOver
<1> QED
  BY <1>5, <1>8, <1>9, <1>10

\* A new array, with a seed or without.
LEMMA NewFits ==
    ASSUME NEW w
    PROVE  /\ NewArray \in ArraysOver(w)
           /\ \A n \in Nat : [NewArray EXCEPT !.random_seed = n] \in ArraysOver(w)
<1>1. NoData \in [{} -> Values(w)]
  BY DEF NoData
<1>2. NoData \in UNION {[D -> Values(w)] : D \in SUBSET Int}
  BY <1>1
<1> QED
  BY <1>2 DEF NewArray, ArraysOver

----------------------------------------------------------------------------
(* Lines: each has a value of its sort if its arguments have.              *)

\* The values of the sort of line l.
ValuesOfSort(T, l) ==
    IF IsArray(l) THEN ArraysOver(ElementWidthOf(T, l)) ELSE Values(Width(l))

\* The number of arguments of a line.
LEMMA ArityOf ==
    /\ \A t \in UnaryTags \cup Properties \cup {"output"} : t \in Tag /\ Arity[t] = 1
    /\ \A t \in BinaryTags : t \in Tag /\ Arity[t] = 2
    /\ \A t \in TernaryTags : t \in Tag /\ Arity[t] = 3
<1> USE DEF Tag, SortedTags, Constants, UnaryTags, BinaryTags, TernaryTags, Unary,
            Reductions, Extensions, Binary, Predicates, Equalities, Connectives, Links,
            Properties
<1>1. \A t \in UnaryTags \cup Properties \cup {"output"} : t \in Tag /\ Arity[t] = 1
  BY DEF Arity
<1>2. \A t \in BinaryTags : t \in Tag /\ Arity[t] = 2
  BY DEF Arity
<1>3. \A t \in TernaryTags : t \in Tag /\ Arity[t] = 3
  BY DEF Arity
<1> QED
  BY <1>1, <1>2, <1>3

\* Lines are bit-vectors or arrays, of known widths.
LEMMA SortsOf ==
    ASSUME NEW T, Wired(T), WellSorted(T), NEW i \in ValueLines(T)
    PROVE  /\ i \in DOMAIN T
           /\ IsBitvec(T[i]) <=> ~IsArray(T[i])
           /\ IsBitvec(T[i]) => Width(T[i]) \in 1 .. MaxBitWidth - 1
           /\ IsArray(T[i]) => ElementWidthOf(T, T[i]) \in 1 .. MaxBitWidth - 1
<1>1. i \in DOMAIN T
  BY DEF ValueLines
<1>2. T[i] \in Line /\ WidthsKnown(T, T[i])
  BY <1>1 DEF Wired, WellSorted
<1>3. IsBitvec(T[i]) <=> ~IsArray(T[i])
  BY <1>2 DEF Line, Sort, IsBitvec, IsArray
<1> QED
  BY <1>1, <1>2, <1>3 DEF WidthsKnown

\* Arguments have values of their lines' sorts, negated ones too.
LEMMA ArgFits ==
    ASSUME NEW T, Wired(T), WellSorted(T), NEW a \in Int, Abs(a) \in ValueLines(T),
           NEW v, v[Abs(a)] \in ValuesOfSort(T, T[Abs(a)])
    PROVE  ArgValue(T, v, a) \in ValuesOfSort(T, T[Abs(a)])
<1> DEFINE i == Abs(a)
<1>1. CASE IsArray(T[i])
  <2>1. ElementWidthOf(T, T[i]) \in 1 .. MaxBitWidth /\ v[i] \in ArraysOver(ElementWidthOf(T, T[i]))
    BY <1>1, SortsOf, MaxBitWidthAssumption DEF ValuesOfSort
  <2>2. 0 \in Int /\ 0 \in Values(ElementWidthOf(T, T[i]))
    BY <2>1, ValuesOf
  <2>3. Copy(v[i]) \in ArraysOver(ElementWidthOf(T, T[i]))
    BY <2>1, <2>2, ArraysFit
  <2> QED
    BY <1>1, <2>3 DEF ArgValue, ValuesOfSort
<1>2. CASE ~IsArray(T[i])
  <2>1. Width(T[i]) \in 1 .. MaxBitWidth /\ v[i] \in Values(Width(T[i]))
    BY <1>2, SortsOf, MaxBitWidthAssumption DEF ValuesOfSort
  <2>2. bv_not(Width(T[i]), v[i]) \in Values(Width(T[i]))
    BY <2>1, ArithmeticFits
  <2> QED
    BY <1>2, <2>1, <2>2 DEF ArgValue, ValuesOfSort
<1> QED
  BY <1>1, <1>2

\* What operators on one bit-vector compute.
LEMMA UnaryFits ==
    ASSUME NEW l, l.tag \in UnaryTags, NEW w \in 1 .. MaxBitWidth, NEW x \in Values(w),
           Width(l) \in 1 .. MaxBitWidth - 1,
           l.tag \in Unary => Width(l) = w,
           l.tag \in Reductions => Width(l) = 1,
           l.tag = "slice" => /\ l.imm[1] \in Nat /\ l.imm[2] \in 0 .. MaxBitWidth
                              /\ Width(l) = l.imm[1] - l.imm[2] + 1,
           l.tag \in Extensions => l.imm[1] \in Nat /\ Width(l) = w + l.imm[1]
    PROVE  UnaryValue(l, w, x) \in Values(Width(l))
<1>0. MaxBitWidth \in Nat /\ x \in Nat /\ w \in Nat /\ Width(l) \in 1 .. MaxBitWidth
  BY MaxBitWidthAssumption, ValuesOf
<1>1. CASE l.tag \in Unary
  BY <1>1, ArithmeticFits DEF UnaryValue, Unary
<1>2. CASE l.tag \in Reductions
  BY <1>2, ComparisonsFit, Bits DEF UnaryValue, Reductions
<1>3. CASE l.tag = "slice"
  BY <1>0, <1>3, SliceFits DEF UnaryValue
<1>4. CASE l.tag = "uext"
  <2>1. l.imm[1] \in 0 .. MaxBitWidth /\ w \in 0 .. MaxBitWidth /\ w + l.imm[1] = Width(l)
        /\ l.imm[1] + w = Width(l) /\ l.imm[1] + w <= MaxBitWidth
    BY <1>0, <1>4 DEF Extensions
  <2>2. 0 \in Values(l.imm[1])
    <3>1. 2 ^ l.imm[1] \in Nat \ {0}
      BY <2>1, Powers, MaxBitWidthAssumption
    <3> QED
      BY <3>1 DEF Values
  <2>3. bv_concat(w, 0, x) \in Values(l.imm[1] + w)
    BY <2>1, <2>2, ConcatFits
  <2>4. bv_concat(w, 0, x) = x
    <3>1. 2 ^ w \in Nat
      BY ValuesOf
    <3> QED
      BY <1>0, <3>1 DEF bv_concat
  <2> QED
    BY <1>4, <2>1, <2>3, <2>4 DEF UnaryValue
<1>5. CASE l.tag = "sext"
  <2>1. /\ Width(l) - w = l.imm[1] /\ l.imm[1] \in 0 .. MaxBitWidth
        /\ w + l.imm[1] <= MaxBitWidth
    BY <1>0, <1>5 DEF Extensions
  <2>2. bv_sext(w, x, l.imm[1]) \in Values(w + l.imm[1])
    BY <2>1, ExtensionFits
  <2> QED
    BY <1>5, <2>1, <2>2 DEF UnaryValue, Extensions
<1> QED
  BY <1>1, <1>2, <1>3, <1>4, <1>5 DEF UnaryTags, Extensions

\* What operators on two bit-vectors compute.
LEMMA BinaryFits ==
    ASSUME NEW l,
           l.tag \in (Binary \cup Predicates \cup Connectives \cup {"concat"}) \ Unsupported,
           NEW u \in 1 .. MaxBitWidth, NEW v \in 1 .. MaxBitWidth,
           NEW x \in Values(u), NEW y \in Values(v),
           Width(l) \in 1 .. MaxBitWidth - 1,
           l.tag \in Binary => Width(l) = u /\ Width(l) = v,
           l.tag \in Predicates => Width(l) = 1 /\ u = v,
           l.tag \in Connectives => Width(l) = 1 /\ u = 1 /\ v = 1,
           l.tag = "concat" => Width(l) = u + v
    PROVE  BinaryValue(l, v, x, y) \in Values(Width(l))
<1>1. CASE l.tag \in Binary
  <2>1. x \in Values(v)
    BY <1>1
  <2>2. BinaryValue(l, v, x, y) \in Values(v)
    <3>1. /\ bv_add(v, x, y) \in Values(v) /\ bv_sub(v, x, y) \in Values(v)
          /\ bv_mul(v, x, y) \in Values(v)
      BY <2>1, ArithmeticFits
    <3>2. /\ bv_and(v, x, y) \in Values(v) /\ bv_or(v, x, y) \in Values(v)
          /\ bv_xor(v, x, y) \in Values(v) /\ bv_nand(v, x, y) \in Values(v)
          /\ bv_nor(v, x, y) \in Values(v) /\ bv_xnor(v, x, y) \in Values(v)
      BY <2>1, BitwiseFits
    <3>3. /\ bv_udiv(v, x, y) \in Values(v) /\ bv_urem(v, x, y) \in Values(v)
          /\ bv_sdiv(v, x, y) \in Values(v) /\ bv_srem(v, x, y) \in Values(v)
          /\ bv_smod(v, x, y) \in Values(v)
      BY <2>1, DivisionFits
    <3>4. /\ bv_sll(v, x, y) \in Values(v) /\ bv_srl(v, x, y) \in Values(v)
          /\ bv_sra(v, x, y) \in Values(v) /\ bv_rol(v, x, y) \in Values(v)
          /\ bv_ror(v, x, y) \in Values(v)
      BY <2>1, ShiftsFit
    <3> QED
      BY <1>1, <3>1, <3>2, <3>3, <3>4 DEF BinaryValue, Binary
  <2> QED
    BY <1>1, <2>2
<1>2. CASE l.tag \in Predicates
  <2>1. x \in Values(v) /\ Values(Width(l)) = {0, 1}
    BY <1>2, Bits
  <2>2. /\ bv_ult(x, y) \in {0, 1} /\ bv_ulte(x, y) \in {0, 1}
        /\ bv_ult(y, x) \in {0, 1} /\ bv_ulte(y, x) \in {0, 1}
        /\ bv_slt(v, x, y) \in {0, 1} /\ bv_slte(v, x, y) \in {0, 1}
        /\ bv_slt(v, y, x) \in {0, 1} /\ bv_slte(v, y, x) \in {0, 1}
    BY <2>1, ComparisonsFit
  <2>3. l.tag \in {"ugt", "ugte", "ult", "ulte", "sgt", "sgte", "slt", "slte"}
    BY <1>2 DEF Predicates, Unsupported
  <2> QED
    BY <2>1, <2>2, <2>3 DEF BinaryValue
<1>3. CASE l.tag \in Connectives
  <2>1. bv_xnor(v, x, y) \in Values(v) /\ bv_implies(v, x, y) \in Values(v)
    BY <1>3, BitwiseFits
  <2> QED
    BY <1>3, <2>1 DEF BinaryValue, Connectives
<1>4. CASE l.tag = "concat"
  <2>1. u \in 0 .. MaxBitWidth /\ v \in 0 .. MaxBitWidth /\ u + v <= MaxBitWidth
    BY <1>4, MaxBitWidthAssumption
  <2>2. bv_concat(v, x, y) \in Values(u + v)
    BY <2>1, ConcatFits
  <2> QED
    BY <1>4, <2>2 DEF BinaryValue
<1> QED
  BY <1>1, <1>2, <1>3, <1>4

\* A line computes a value of its sort: the hypotheses say what check_sorts_bfr
\* leaves open too.
LEMMA ComputeFits ==
    ASSUME NEW T, Wired(T), WellSorted(T),
           NEW i \in Operators(T), T[i].tag \notin Unsupported,
           NEW v, \A k \in DOMAIN T[i].args :
                    v[Abs(T[i].args[k])] \in ValuesOfSort(T, Arg(T, T[i], k))
    PROVE  Compute(T, v, i) \in ValuesOfSort(T, T[i])
<1> DEFINE l == T[i]
           x == [k \in DOMAIN l.args |-> ArgValue(T, v, l.args[k])]
           a(k) == Arg(T, l, k)
<1> SUFFICES Compute(T, v, i) \in ValuesOfSort(T, l)
  OBVIOUS
<1>0. i \in ValueLines(T) /\ i \in DOMAIN T
  BY DEF Operators, ValueLines
<1>1. /\ l \in Line /\ l.args \in Seq(Int)
      /\ l.tag # "justice" => Len(l.args) = Arity[l.tag]
      /\ \A k \in DOMAIN l.args : Abs(l.args[k]) \in ValueLines(T)
  BY <1>0 DEF Wired, Line, ArgumentLines, ValueLines
<1>2. /\ SortsOk(T, l) /\ IndexesOk(l)
      /\ l.tag \in Constants => IsBitvec(l)
      /\ l.tag = "const" => l.imm[2] \in Values(Width(l))
      /\ l.tag = "constd" => l.imm[1] \in Int
      /\ l.tag = "consth" => l.imm[1] \in Values(Width(l))
      /\ l.tag \in Equalities => IsBitvec(l)
      /\ l.tag = "ite" => \A k \in 2 .. 3 : SameWidths(T, l, a(k))
      /\ l.tag = "read" => IsElement(T, l, a(1)) /\ IsBitvec(a(2))
      /\ l.tag = "write" =>
           SameWidths(T, l, a(1)) /\ IsBitvec(a(2)) /\ IsElement(T, a(3), l)
  BY <1>0 DEF WellSorted
<1>3. /\ IsBitvec(l) <=> ~IsArray(l)
      /\ IsBitvec(l) => Width(l) \in 1 .. MaxBitWidth - 1
      /\ IsArray(l) => ElementWidthOf(T, l) \in 1 .. MaxBitWidth - 1
  BY <1>0, SortsOf
<1>4. ASSUME NEW k \in DOMAIN l.args
      PROVE  /\ x[k] \in ValuesOfSort(T, a(k))
             /\ IsBitvec(a(k)) <=> ~IsArray(a(k))
             /\ IsBitvec(a(k)) => Width(a(k)) \in 1 .. MaxBitWidth - 1
             /\ IsArray(a(k)) => ElementWidthOf(T, a(k)) \in 1 .. MaxBitWidth - 1
  <2>1. l.args[k] \in Int /\ Abs(l.args[k]) \in ValueLines(T)
    BY <1>1
  <2>2. ArgValue(T, v, l.args[k]) \in ValuesOfSort(T, a(k))
    BY <2>1, ArgFits DEF Arg
  <2> QED
    BY <2>1, <2>2, SortsOf DEF Arg
<1>5. Compute(T, v, i) = OperatorValue(T, l, x)
  BY DEF Compute
<1>6. \A w \in 1 .. MaxBitWidth - 1 : w \in 1 .. MaxBitWidth
  BY MaxBitWidthAssumption
<1> HIDE DEF l, x
<1>7. CASE l.tag \in Constants
  <2>1. /\ 0 \in Values(Width(l)) /\ 1 \in Values(Width(l)) /\ 2 ^ Width(l) - 1 \in Values(Width(l))
        /\ \A n \in Int : Fit(Width(l), n) \in Values(Width(l))
    BY <1>2, <1>3, <1>6, <1>7, ValuesOf
  <2>2. ConstantValue(l) \in Values(Width(l))
    BY <1>2, <1>7, <2>1 DEF ConstantValue, Constants
  <2> QED
    <3>1. l.tag \notin UnaryTags \cup {"eq", "neq", "ite", "read", "write"}
      BY <1>7 DEF Constants, UnaryTags, Unary, Reductions, Extensions
    <3>2. OperatorValue(T, l, x) = ConstantValue(l)
      BY <1>7, <3>1 DEF OperatorValue
    <3> QED
      BY <1>2, <1>3, <1>5, <1>7, <2>2, <3>2 DEF ValuesOfSort
<1>8. CASE l.tag \in UnaryTags
  <2>1. 1 \in DOMAIN l.args /\ l.tag \notin Constants
    <3>1. Arity[l.tag] = 1 /\ l.tag # "justice" /\ l.tag \notin Constants
      BY <1>8, ArityOf DEF UnaryTags, Unary, Reductions, Extensions, Constants
    <3> QED
      BY <1>1, <3>1
  <2>2. /\ AllBitvec(T, l) /\ IsBitvec(l) /\ IsBitvec(a(1))
        /\ l.tag \in Unary => Width(l) = Width(a(1))
        /\ l.tag \in Reductions => Width(l) = 1
        /\ l.tag = "slice" => Width(l) = l.imm[1] - l.imm[2] + 1
        /\ l.tag \in Extensions => Width(l) = Width(a(1)) + l.imm[1]
    BY <1>2, <1>8, <2>1 DEF SortsOk, AllBitvec, UnaryTags
  <2>3. /\ l.tag = "slice" => l.imm[1] \in Nat /\ l.imm[2] \in 0 .. MaxBitWidth
        /\ l.tag \in Extensions => l.imm[1] \in Nat
    BY <1>2, MaxBitWidthAssumption DEF IndexesOk
  <2>4. x[1] \in Values(Width(a(1))) /\ Width(a(1)) \in 1 .. MaxBitWidth
    BY <1>4, <1>6, <2>1, <2>2 DEF ValuesOfSort
  <2>5. UnaryValue(l, Width(a(1)), x[1]) \in Values(Width(l))
    BY <1>3, <1>8, <2>2, <2>3, <2>4, UnaryFits
  <2> QED
    <3>1. l.tag \notin {"eq", "neq", "ite", "read", "write"}
      BY <1>8 DEF UnaryTags, Unary, Reductions, Extensions
    <3>2. OperatorValue(T, l, x) = UnaryValue(l, Width(a(1)), x[1])
      BY <1>8, <2>1, <3>1 DEF OperatorValue
    <3> QED
      BY <1>3, <1>5, <2>2, <2>5, <3>2 DEF ValuesOfSort
<1>9. CASE l.tag \in Equalities
  <2>1. l.tag \notin Constants \cup UnaryTags
    BY <1>9 DEF UnaryTags, Unary, Reductions, Extensions, Constants, Equalities
  <2>2. Width(l) = 1 /\ IsBitvec(l) /\ Values(1) = {0, 1}
    BY <1>2, <1>9, Bits DEF SortsOk
  <2>3. EqualValue(T, a(1), x[1], x[2]) \in {0, 1}
    BY Bits DEF EqualValue
  <2>4. OperatorValue(T, l, x) \in {0, 1}
    BY <1>9, <2>1, <2>3 DEF OperatorValue, Equalities
  <2> QED
    BY <1>3, <1>5, <2>2, <2>4 DEF ValuesOfSort
<1>10. CASE l.tag \in TernaryTags \cup {"read"}
  <2>1. /\ l.tag \notin Constants \cup UnaryTags \cup {"eq", "neq"}
        /\ 1 \in DOMAIN l.args /\ 2 \in DOMAIN l.args
        /\ l.tag # "read" => 3 \in DOMAIN l.args
    <3>1. /\ l.tag \notin Constants \cup UnaryTags \cup {"eq", "neq"}
          /\ Arity[l.tag] = IF l.tag = "read" THEN 2 ELSE 3
          /\ l.tag # "justice"
      BY <1>10, ArityOf DEF UnaryTags, Unary, Reductions, Extensions, Constants, TernaryTags,
         BinaryTags
    <3> QED
      BY <1>1, <3>1
  <2>2. CASE l.tag = "ite"
    <3>1. SameWidths(T, l, a(2)) /\ SameWidths(T, l, a(3))
      BY <1>2, <2>2
    <3>2. x[2] \in ValuesOfSort(T, l) /\ x[3] \in ValuesOfSort(T, l)
      BY <1>3, <1>4, <2>1, <2>2, <3>1 DEF SameWidths, ValuesOfSort
    <3>3. IteValue(l, x[1], x[2], x[3]) \in ValuesOfSort(T, l)
      <4>1. CASE IsArray(l)
        <5>1. ElementWidthOf(T, l) \in 1 .. MaxBitWidth /\ 0 \in Values(ElementWidthOf(T, l)) /\ 0 \in Int
          BY <1>3, <1>6, <4>1, ValuesOf
        <5> QED
          BY <3>2, <4>1, <5>1, ArraysFit DEF IteValue, Choose, ValuesOfSort
      <4>2. CASE ~IsArray(l)
        BY <3>2, <4>2 DEF IteValue
      <4> QED
        BY <4>1, <4>2
    <3> QED
      BY <1>5, <2>1, <2>2, <3>3 DEF OperatorValue
  <2>3. CASE l.tag = "read"
    <3>1. /\ IsArray(a(1)) /\ IsBitvec(a(2)) /\ IsBitvec(l)
          /\ Width(l) = ElementWidthOf(T, a(1))
      BY <1>2, <2>3 DEF SortsOk, ReadSortsOk, IsElement
    <3>2. /\ x[1] \in ArraysOver(Width(l)) /\ Width(l) \in 1 .. MaxBitWidth
          /\ x[2] \in Values(Width(a(2))) /\ Width(a(2)) \in 1 .. MaxBitWidth
      BY <1>4, <1>6, <2>1, <3>1 DEF ValuesOfSort
    <3>3. x[2] \in Int /\ 0 \in Values(Width(l))
      BY <3>2, ValuesOf
    <3>4. Element(x[1], x[2], Width(l)) \in Values(Width(l))
      BY <3>2, <3>3, ArraysFit
    <3> QED
      BY <1>3, <1>5, <2>1, <2>3, <3>1, <3>4 DEF OperatorValue, ValuesOfSort
  <2>4. CASE l.tag = "write"
    <3>1. /\ IsArray(l) /\ IsArray(a(1)) /\ IsBitvec(a(2)) /\ IsBitvec(a(3))
          /\ ElementWidthOf(T, l) = ElementWidthOf(T, a(1))
          /\ Width(a(3)) = ElementWidthOf(T, l)
      BY <1>2, <1>3, <2>4 DEF SortsOk, WriteSortsOk, SameWidths, IsElement
    <3> DEFINE w == ElementWidthOf(T, l)
    <3>2. /\ x[1] \in ArraysOver(w) /\ w \in 1 .. MaxBitWidth
          /\ x[2] \in Values(Width(a(2))) /\ Width(a(2)) \in 1 .. MaxBitWidth
          /\ x[3] \in Values(w)
      BY <1>4, <1>6, <2>1, <2>4, <3>1 DEF ValuesOfSort
    <3>3. x[2] \in Int
      BY <3>2, ValuesOf
    <3>4. Write(x[1], x[2], x[3]) \in ArraysOver(w)
      BY <3>2, <3>3, ArraysFit
    <3> QED
      BY <1>5, <2>1, <2>4, <3>1, <3>4 DEF OperatorValue, ValuesOfSort
  <2> QED
    BY <1>10, <2>2, <2>3, <2>4 DEF TernaryTags
<1>11. CASE l.tag \in Binary \cup Predicates \cup Connectives \cup {"concat"}
  <2>1. /\ l.tag \notin Constants \cup UnaryTags \cup {"eq", "neq", "ite", "read", "write"}
        /\ 1 \in DOMAIN l.args /\ 2 \in DOMAIN l.args
    <3>1. /\ l.tag \notin Constants \cup UnaryTags \cup {"eq", "neq", "ite", "read", "write"}
          /\ l.tag \in BinaryTags /\ l.tag # "justice"
      BY <1>11 DEF UnaryTags, Unary, Reductions, Extensions, Constants, BinaryTags,
         Binary, Predicates, Connectives
    <3>2. Arity[l.tag] = 2
      BY <3>1, ArityOf
    <3> QED
      BY <1>1, <3>1, <3>2
  <2>2. /\ IsBitvec(l) /\ IsBitvec(a(1)) /\ IsBitvec(a(2))
        /\ l.tag \in Binary => Width(l) = Width(a(1)) /\ Width(l) = Width(a(2))
        /\ l.tag \in Predicates => Width(l) = 1 /\ Width(a(1)) = Width(a(2))
        /\ l.tag \in Connectives => Width(l) = 1 /\ Width(a(1)) = 1 /\ Width(a(2)) = 1
        /\ l.tag = "concat" => Width(l) = Width(a(1)) + Width(a(2))
    BY <1>2, <1>11, <2>1 DEF SortsOk, AllBitvec
  <2>3. /\ x[1] \in Values(Width(a(1))) /\ Width(a(1)) \in 1 .. MaxBitWidth
        /\ x[2] \in Values(Width(a(2))) /\ Width(a(2)) \in 1 .. MaxBitWidth
    BY <1>4, <1>6, <2>1, <2>2 DEF ValuesOfSort
  <2>4. l.tag \in (Binary \cup Predicates \cup Connectives \cup {"concat"}) \ Unsupported
    BY <1>11 DEF l
  <2>5. BinaryValue(l, Width(a(2)), x[1], x[2]) \in Values(Width(l))
    BY <1>3, <2>2, <2>3, <2>4, BinaryFits
  <2> QED
    BY <1>3, <1>5, <2>1, <2>2, <2>5 DEF OperatorValue, ValuesOfSort
<1>12. l.tag \in Constants \cup UnaryTags \cup Equalities \cup TernaryTags \cup {"read"}
                 \cup Binary \cup Predicates \cup Connectives \cup {"concat"}
  <2>1. l.tag \in Tag /\ l.tag \notin NonArguments \cup {"output", "input", "state"}
    BY <1>1 DEF Line, Operators, ValueLines, Leaves, l
  <2> QED
    BY <2>1 DEF Tag, SortedTags, BinaryTags, Properties, Links, NonArguments
<1> QED
  BY <1>7, <1>8, <1>9, <1>10, <1>11, <1>12

----------------------------------------------------------------------------
(* Complete valuations.                                                    *)

\* What Evaluate determines of line i from the values g of other lines and the
\* values v of the leaves.
Determined(T, v, g, i) ==
    IF i \in Leaves(T) THEN v[i]
    ELSE LET args == T[i].args
         IN  Compute(T, [a \in {Abs(args[n]) : n \in DOMAIN args} |-> g[a]], i)

\* The lines up to n have the values determined.
DeterminedUpTo(T, v, g, n) ==
    \A i \in ValueLines(T) : i <= n => g[i] = Determined(T, v, g, i)

\* A line is determined by the values of its arguments, which come first.
LEMMA DeterminedByArguments ==
    ASSUME NEW T, Wired(T), NEW v, NEW g, NEW h, NEW i \in ValueLines(T),
           \A j \in ValueLines(T) : j < i => g[j] = h[j]
    PROVE  Determined(T, v, g, i) = Determined(T, v, h, i)
<1> DEFINE A == {Abs(T[i].args[n]) : n \in DOMAIN T[i].args}
<1>1. \A a \in A : a \in ValueLines(T) /\ a < i
  BY DEF Wired, ValueLines, ArgumentLines
<1>2. \A a \in A : g[a] = h[a]
  BY <1>1
<1> HIDE DEF A
<1>3. [a \in A |-> g[a]] = [a \in A |-> h[a]]
  BY <1>2
<1> QED
  BY <1>3 DEF A, Determined

\* So two functions that are determined up to a line agree up to it.
LEMMA DeterminedOnce ==
    ASSUME NEW T, Wired(T), NEW v, NEW g, NEW h, NEW n \in Nat,
           DeterminedUpTo(T, v, g, n), DeterminedUpTo(T, v, h, n)
    PROVE  \A i \in ValueLines(T) : i <= n => g[i] = h[i]
<1> DEFINE bad == {i \in ValueLines(T) : i <= n /\ g[i] # h[i]}
<1>1. ASSUME bad # {} PROVE FALSE
  <2>1. ValueLines(T) \subseteq Nat
    BY DEF Wired, ValueLines
  <2>2. bad \in SUBSET Nat
    BY <2>1
  <2>3. PICK i \in bad : \A j \in bad : i <= j
    <3> HIDE DEF bad
    <3> QED
      BY <1>1, <2>2, LeastNumber
  <2>4. \A j \in ValueLines(T) : j < i => g[j] = h[j]
    BY <2>1, <2>3
  <2>5. Determined(T, v, g, i) = Determined(T, v, h, i)
    BY <2>3, <2>4, DeterminedByArguments
  <2> QED
    BY <2>3, <2>5 DEF DeterminedUpTo
<1> QED
  BY <1>1

\* There is such a function for every line, by induction on its id.
LEMMA DeterminedSomewhere ==
    ASSUME NEW T, Wired(T), NEW v
    PROVE  \A n \in Nat : \E g : DeterminedUpTo(T, v, g, n)
<1> DEFINE bad == {n \in Nat : ~\E g : DeterminedUpTo(T, v, g, n)}
<1>0. ValueLines(T) \subseteq Nat \ {0}
  BY DEF Wired, ValueLines
<1>1. ASSUME bad # {} PROVE FALSE
  <2>1. PICK n \in bad : \A j \in bad : n <= j
    <3>1. bad \in SUBSET Nat
      OBVIOUS
    <3> HIDE DEF bad
    <3> QED
      BY <1>1, <3>1, LeastNumber
  <2>2. n # 0
    <3>1. \A g : DeterminedUpTo(T, v, g, 0)
      BY <1>0 DEF DeterminedUpTo
    <3> QED
      BY <2>1, <3>1
  <2>3. n - 1 \in Nat /\ ~(n <= n - 1)
    BY <2>1, <2>2
  <2>4. PICK g : DeterminedUpTo(T, v, g, n - 1)
    BY <2>1, <2>3
  <2> DEFINE h == [i \in ValueLines(T) |-> IF i = n THEN Determined(T, v, g, n) ELSE g[i]]
  <2>5. ASSUME NEW i \in ValueLines(T), i <= n
        PROVE  h[i] = Determined(T, v, h, i)
    <3>1. \A j \in ValueLines(T) : j < i => g[j] = h[j]
      BY <1>0, <2>1, <2>5
    <3>2. Determined(T, v, g, i) = Determined(T, v, h, i)
      <4> HIDE DEF h
      <4> QED
        BY <3>1, DeterminedByArguments
    <3>3. h[i] = Determined(T, v, g, i)
      <4>1. CASE i = n
        BY <4>1
      <4>2. CASE i # n
        <5>1. i <= n - 1
          BY <1>0, <2>1, <2>5, <4>2
        <5> QED
          BY <2>4, <4>2, <5>1 DEF DeterminedUpTo
      <4> QED
        BY <4>1, <4>2
    <3> QED
      BY <3>2, <3>3
  <2>6. DeterminedUpTo(T, v, h, n)
    <3> HIDE DEF h
    <3> QED
      BY <2>5 DEF DeterminedUpTo
  <2> QED
    BY <2>1, <2>6
<1> QED
  BY <1>1

\* Evaluate gives every line the value determined: its recursion ends, as arguments
\* come first.
LEMMA EvaluateDetermines ==
    ASSUME NEW T, Wired(T), NEW v
    PROVE  Evaluate(T, v) = [i \in ValueLines(T) |-> Determined(T, v, Evaluate(T, v), i)]
<1> DEFINE F(g) == [i \in ValueLines(T) |-> Determined(T, v, g, i)]
           upto(n) == CHOOSE g : DeterminedUpTo(T, v, g, n)
           all == [i \in ValueLines(T) |-> upto(i)[i]]
<1>0. ValueLines(T) \subseteq Nat
  BY DEF Wired, ValueLines
<1>1. ASSUME NEW n \in Nat PROVE DeterminedUpTo(T, v, upto(n), n)
  BY DeterminedSomewhere
<1> HIDE DEF upto
<1>2. ASSUME NEW i \in ValueLines(T) PROVE all[i] = Determined(T, v, all, i)
  <2>1. ASSUME NEW j \in ValueLines(T), j < i PROVE upto(i)[j] = all[j]
    <3>1. i \in Nat /\ j \in Nat /\ j <= i
      BY <1>0, <2>1
    <3>2. DeterminedUpTo(T, v, upto(i), j) /\ DeterminedUpTo(T, v, upto(j), j)
      BY <1>0, <1>1, <3>1 DEF DeterminedUpTo
    <3>3. upto(i)[j] = upto(j)[j]
      BY <3>1, <3>2, DeterminedOnce
    <3> QED
      BY <3>3
  <2>2. upto(i)[i] = Determined(T, v, upto(i), i)
    BY <1>0, <1>1 DEF DeterminedUpTo
  <2>3. Determined(T, v, upto(i), i) = Determined(T, v, all, i)
    <3> HIDE DEF all
    <3> QED
      BY <2>1, DeterminedByArguments
  <2> QED
    BY <2>2, <2>3
<1>3. all = F(all)
  <2>1. all = [i \in ValueLines(T) |-> all[i]]
    OBVIOUS
  <2> HIDE DEF all
  <2> QED
    BY <1>2, <2>1
<1>4. \E g : g = F(g)
  BY <1>3
<1> DEFINE f == CHOOSE g : g = F(g)
<1>5. f = F(f)
  BY <1>4
<1>6. Evaluate(T, v) = f
  BY DEF Evaluate, Determined
<1> QED
  BY <1>5, <1>6

\* What Evaluate returns satisfies the equations of all operator lines and agrees
\* with v on the leaves.
LEMMA EvaluateConsistent ==
    ASSUME NEW T, Wired(T), NEW v
    PROVE  LET u == Evaluate(T, v)
           IN  /\ DOMAIN u = ValueLines(T)
               /\ \A i \in Leaves(T) : u[i] = v[i]
               /\ \A i \in Operators(T) : u[i] = Compute(T, u, i)
<1> DEFINE u == Evaluate(T, v)
<1>1. u = [i \in ValueLines(T) |-> Determined(T, v, u, i)]
  BY EvaluateDetermines
<1> HIDE DEF u
<1>2. DOMAIN u = ValueLines(T) /\ \A i \in ValueLines(T) : u[i] = Determined(T, v, u, i)
  BY <1>1
<1>3. ASSUME NEW i \in Leaves(T) PROVE u[i] = v[i]
  <2>1. i \in ValueLines(T)
    BY DEF Leaves, ValueLines, NonArguments
  <2> QED
    BY <1>2, <2>1 DEF Determined
<1>4. ASSUME NEW i \in Operators(T) PROVE u[i] = Compute(T, u, i)
  <2> DEFINE A == {Abs(T[i].args[n]) : n \in DOMAIN T[i].args}
             w == [a \in A |-> u[a]]
  <2>1. i \in ValueLines(T) /\ i \notin Leaves(T)
    BY DEF Operators
  <2>2. u[i] = Compute(T, w, i)
    BY <1>2, <2>1 DEF Determined
  <2>3. ASSUME NEW n \in DOMAIN T[i].args
        PROVE  ArgValue(T, w, T[i].args[n]) = ArgValue(T, u, T[i].args[n])
    <3>1. w[Abs(T[i].args[n])] = u[Abs(T[i].args[n])]
      OBVIOUS
    <3> HIDE DEF w
    <3> QED
      BY <3>1 DEF ArgValue
  <2> HIDE DEF w
  <2>4. Compute(T, w, i) = Compute(T, u, i)
    BY <2>3 DEF Compute
  <2> QED
    BY <2>2, <2>4
<1> QED
  BY <1>2, <1>3, <1>4 DEF u

\* If the leaves have values of their sorts, so have all lines.
LEMMA ConsistentFits ==
    ASSUME NEW T, Wired(T), WellSorted(T),
           \A i \in ValueLines(T) : T[i].tag \notin Unsupported,
           NEW u, \A i \in Leaves(T) : u[i] \in ValuesOfSort(T, T[i]),
           \A i \in Operators(T) : u[i] = Compute(T, u, i)
    PROVE  \A i \in ValueLines(T) : u[i] \in ValuesOfSort(T, T[i])
<1> DEFINE bad == {i \in ValueLines(T) : u[i] \notin ValuesOfSort(T, T[i])}
<1>0. ValueLines(T) \subseteq Nat
  BY DEF Wired, ValueLines
<1>1. ASSUME bad # {} PROVE FALSE
  <2>1. bad \in SUBSET Nat
    BY <1>0
  <2>2. PICK i \in bad : \A j \in bad : i <= j
    <3> HIDE DEF bad
    <3> QED
      BY <1>1, <2>1, LeastNumber
  <2>3. i \in Operators(T)
    BY <2>2 DEF Operators
  <2>4. ASSUME NEW n \in DOMAIN T[i].args
        PROVE  u[Abs(T[i].args[n])] \in ValuesOfSort(T, Arg(T, T[i], n))
    <3>1. Abs(T[i].args[n]) \in ValueLines(T) /\ Abs(T[i].args[n]) < i
      BY <2>3 DEF Wired, Operators, ValueLines, ArgumentLines
    <3>2. Abs(T[i].args[n]) \notin bad
      BY <1>0, <2>2, <3>1
    <3> QED
      BY <3>1, <3>2 DEF Arg
  <2>5. Compute(T, u, i) \in ValuesOfSort(T, T[i])
    BY <2>2, <2>3, <2>4, ComputeFits
  <2> QED
    BY <2>2, <2>3, <2>5
<1> QED
  BY <1>1

----------------------------------------------------------------------------
(* Bits.                                                                   *)

\* Halving a quotient is dividing by twice the number.
LEMMA HalfOfQuotient ==
    ASSUME NEW x \in Nat, NEW d \in Nat \ {0}
    PROVE  /\ x \div d \in Nat /\ x \div (2 * d) \in Nat
           /\ x \div d = 2 * (x \div (2 * d)) + ((x \div d) % 2)
<1> DEFINE q == x \div d
           r == x \div (2 * d)
<1>1. q \in Nat /\ r \in Nat
  OBVIOUS
<1>2. q * d <= x /\ x < q * d + d
  OBVIOUS
<1>3. r * (2 * d) <= x /\ x < r * (2 * d) + 2 * d
  <2> DEFINE e == 2 * d
  <2>1. e \in Nat \ {0}
    OBVIOUS
  <2> HIDE DEF e
  <2>2. (x \div e) * e <= x /\ x < (x \div e) * e + e
    BY <2>1
  <2> QED
    BY <2>2 DEF e
<1> HIDE DEF q, r
<1>4. 2 * r <= q /\ q <= 2 * r + 1
  <2>1. (2 * r) * d = r * (2 * d) /\ (q + 1) * d = q * d + d /\ (2 * r + 2) * d = r * (2 * d) + 2 * d
    BY <1>1
  <2>2. (2 * r) * d < (q + 1) * d /\ q * d < (2 * r + 2) * d
    BY <1>1, <1>2, <1>3, <2>1
  <2>3. \A a, b \in Nat : a * d < b * d => a < b
    <3> SUFFICES ASSUME NEW a \in Nat, NEW b \in Nat, a >= b PROVE ~(a * d < b * d)
      OBVIOUS
    <3>1. PICK c \in Nat : a = b + c
      <4>1. a - b \in Nat /\ a = b + (a - b)
        OBVIOUS
      <4> QED
        BY <4>1
    <3>2. a * d = b * d + c * d /\ c * d >= 0 /\ b * d \in Nat
      BY <3>1
    <3> QED
      BY <3>2
  <2>4. 2 * r < q + 1 /\ q < 2 * r + 2
    BY <1>1, <2>2, <2>3
  <2> QED
    BY <1>1, <2>4
<1>5. q = 2 * r + (q % 2)
  BY <1>1, <1>4
<1> QED
  BY <1>1, <1>5 DEF q, r

\* A vector is determined by its bits: what is left of two of them above bit k is
\* the same for every k, by induction from the most significant bit downwards.
LEMMA BitsDetermine ==
    ASSUME NEW w \in 0 .. MaxBitWidth, NEW x \in Values(w), NEW y \in Values(w),
           \A i \in 0 .. w - 1 : Bit(x, i) = Bit(y, i)
    PROVE  x = y
<1> DEFINE bad == {j \in 0 .. w : x \div 2 ^ (w - j) # y \div 2 ^ (w - j)}
<1>0. /\ w \in Nat /\ MaxBitWidth \in Nat /\ x \in Nat /\ y \in Nat
      /\ \A n \in 0 .. w : 2 ^ n \in Nat \ {0}
      /\ \A n \in 0 .. w - 1 : 2 ^ (n + 1) = 2 * 2 ^ n
      /\ x < 2 ^ w /\ y < 2 ^ w
  BY MaxBitWidthAssumption, Powers, PowersAssumption DEF Values
<1>1. ASSUME bad # {} PROVE FALSE
  <2>1. bad \in SUBSET Nat
    BY <1>0
  <2>2. PICK j \in bad : \A i \in bad : j <= i
    <3> HIDE DEF bad
    <3> QED
      BY <1>1, <2>1, LeastNumber
  <2>3. CASE j = 0
    <3>1. w - j = w
      BY <1>0, <2>3
    <3>2. \A d \in Nat \ {0} : x < d => x \div d = 0
      BY <1>0
    <3>3. \A d \in Nat \ {0} : y < d => y \div d = 0
      BY <1>0
    <3>4. 2 ^ w \in Nat \ {0}
      BY <1>0
    <3>5. x \div 2 ^ w = 0 /\ y \div 2 ^ w = 0
      BY <1>0, <3>2, <3>3, <3>4
    <3> QED
      BY <2>2, <3>1, <3>5
  <2>4. CASE j # 0
    <3> DEFINE n == w - j
               d == 2 ^ n
    <3>1. /\ n \in 0 .. w - 1 /\ n \in 0 .. w /\ w - (j - 1) = n + 1
          /\ j - 1 \in 0 .. w /\ ~(j <= j - 1)
      BY <1>0, <2>2, <2>4
    <3>2. x \div 2 ^ (n + 1) = y \div 2 ^ (n + 1)
      BY <2>2, <3>1
    <3>3. d \in Nat \ {0} /\ 2 ^ (n + 1) = 2 * d
      BY <1>0, <3>1
    <3>4. (x \div d) % 2 = (y \div d) % 2
      BY <3>1 DEF Bit
    <3>5. x \div d # y \div d
      BY <2>2
    <3> HIDE DEF d, n
    <3>6. x \div (2 * d) = y \div (2 * d)
      BY <3>2, <3>3
    <3>7. /\ x \div d = 2 * (x \div (2 * d)) + ((x \div d) % 2)
          /\ y \div d = 2 * (y \div (2 * d)) + ((y \div d) % 2)
      BY <1>0, <3>3, HalfOfQuotient
    <3>8. x \div d = y \div d
      BY <3>4, <3>6, <3>7, Zenon
    <3> QED
      BY <3>5, <3>8
  <2> QED
    BY <2>3, <2>4
<1>2. w \in 0 .. w /\ w - w = 0
  BY <1>0
<1>3. x \div 2 ^ (w - w) = y \div 2 ^ (w - w)
  BY <1>1, <1>2
<1>4. 2 ^ (w - w) = 1
  BY <1>2, PowersAssumption, Zenon
<1>5. x \div 1 = x /\ y \div 1 = y
  BY <1>0
<1> QED
  BY <1>3, <1>4, <1>5

\* The least bit of a truth value is the value.
LEMMA BitOfTruth == \A x \in {0, 1} : Bit(x, 0) = x
<1>1. 2 ^ 0 = 1
  BY PowersAssumption
<1>2. \A x \in {0, 1} : (x \div 1) % 2 = x
  OBVIOUS
<1> QED
  BY <1>1, <1>2, Zenon DEF Bit

----------------------------------------------------------------------------
(* Powers of two, and division of natural numbers.                         *)

\* A product with a positive number is larger for a larger number.
LEMMA ProductGrows ==
    ASSUME NEW d \in Nat \ {0}, NEW p \in Int, NEW q \in Int, p < q
    PROVE  p * d + d <= q * d
<1> DEFINE e == q - p - 1
<1>1. e \in Nat /\ q = p + e + 1
  OBVIOUS
<1> HIDE DEF e
<1>2. q * d = p * d + e * d + d /\ e * d \in Nat
  BY <1>1
<1> QED
  BY <1>2

\* Quotient and rest are determined by the size of the rest.
LEMMA QuotientAndRest ==
    ASSUME NEW x \in Int, NEW d \in Nat \ {0}, NEW q \in Int, NEW r \in 0 .. d - 1,
           x = q * d + r
    PROVE  x \div d = q /\ x % d = r
<1> DEFINE q2 == x \div d
           r2 == x % d
<1>1. q2 \in Int /\ r2 \in 0 .. d - 1 /\ x = q2 * d + r2
  <2>1. x % d \in 0 .. d - 1 /\ x \div d \in Int
    OBVIOUS
  <2>2. x = d * (x \div d) + (x % d)
    OBVIOUS
  <2> QED
    BY <2>1, <2>2
<1> HIDE DEF q2, r2
<1>2. q * d \in Int /\ q2 * d \in Int
  BY <1>1
<1>3. ~(q < q2)
  <2>1. q < q2 => q * d + d <= q2 * d
    BY <1>1, ProductGrows
  <2> QED
    BY <1>1, <1>2, <2>1
<1>4. ~(q2 < q)
  <2>1. q2 < q => q2 * d + d <= q * d
    BY <1>1, ProductGrows
  <2> QED
    BY <1>1, <1>2, <2>1
<1>5. q = q2 /\ r = r2
  <2>1. q = q2
    BY <1>1, <1>3, <1>4
  <2> QED
    BY <1>1, <1>2, <2>1
<1> QED
  BY <1>5 DEF q2, r2

LEMMA MinusZero == -0 = 0
<1>1. \A z \in Int : 0 - z = -z
  OBVIOUS
<1>2. 0 - 0 = 0 /\ 0 \in Int
  OBVIOUS
<1> QED
  BY <1>1, <1>2

\* What division and remainder are.
LEMMA Division ==
    ASSUME NEW x \in Int, NEW d \in Nat \ {0}
    PROVE  x \div d \in Int /\ x % d \in 0 .. d - 1 /\ x = (x \div d) * d + (x % d)
<1>1. x % d \in 0 .. d - 1 /\ x \div d \in Int
  OBVIOUS
<1>2. x = d * (x \div d) + (x % d)
  OBVIOUS
<1> QED
  BY <1>1, <1>2

\* Dividing twice is dividing by the product.
LEMMA DivisionTwice ==
    ASSUME NEW x \in Int, NEW d \in Nat \ {0}, NEW e \in Nat \ {0}
    PROVE  (x \div d) \div e = x \div (d * e) /\ d * e \in Nat \ {0}
<1> DEFINE q == x \div d
           r == x % d
           p == q \div e
           s == q % e
<1>1. q \in Int /\ r \in 0 .. d - 1 /\ x = q * d + r
  BY Division
<1>2. p \in Int /\ s \in 0 .. e - 1 /\ q = p * e + s
  <2> HIDE DEF q
  <2> QED
    BY <1>1, Division
<1> HIDE DEF q, r, p, s
<1>3. d * e \in Nat \ {0}
  OBVIOUS
<1>4. x = p * (d * e) + (s * d + r)
  <2>1. (p * e + s) * d = p * (d * e) + s * d
    BY <1>1, <1>2
  <2> QED
    BY <1>1, <1>2, <2>1
<1>5. s * d + r \in 0 .. d * e - 1
  <2>1. s < e => s * d + d <= e * d
    BY <1>2, ProductGrows
  <2>2. s * d \in Nat /\ e * d = d * e
    BY <1>2
  <2> QED
    BY <1>1, <1>2, <2>1, <2>2
<1>6. x \div (d * e) = p
  <2> DEFINE t == s * d + r
             f == d * e
  <2>1. f \in Nat \ {0} /\ t \in 0 .. f - 1 /\ x = p * f + t
    BY <1>3, <1>4, <1>5
  <2> HIDE DEF t, f
  <2>2. x \div f = p
    BY <1>2, <2>1, QuotientAndRest
  <2> QED
    BY <2>2 DEF f
<1> QED
  BY <1>3, <1>6 DEF p, q

\* The rest of a number a multiple of the divisor away from a smaller number.
LEMMA RestNearby ==
    ASSUME NEW d \in Nat \ {0}, NEW r \in 0 .. d - 1
    PROVE  r % d = r /\ (r + d) % d = r /\ (r - d) % d = r
<1>1. r = 0 * d + r /\ r + d = 1 * d + r /\ r - d = (-1) * d + r
  OBVIOUS
<1>2. r % d = r
  BY <1>1, QuotientAndRest
<1>3. (r + d) % d = r
  <2> DEFINE x == r + d
  <2>1. x \in Int /\ x = 1 * d + r
    BY <1>1
  <2> HIDE DEF x
  <2>2. x % d = r
    BY <2>1, QuotientAndRest
  <2> QED
    BY <2>2 DEF x
<1>4. (r - d) % d = r
  <2> DEFINE x == r - d
  <2>1. x \in Int /\ x = (-1) * d + r /\ -1 \in Int
    BY <1>1
  <2> HIDE DEF x
  <2>2. x % d = r
    BY <2>1, QuotientAndRest
  <2> QED
    BY <2>2 DEF x
<1> QED
  BY <1>2, <1>3, <1>4

\* A right shift of a negative number is one of its complement.
LEMMA FloorOfNegative ==
    ASSUME NEW c \in Nat, NEW d \in Nat \ {0}
    PROVE  (-1 - c) \div d = -1 - (c \div d)
<1> DEFINE q == c \div d
           r == c % d
           x == -1 - c
<1>1. q \in Int /\ r \in 0 .. d - 1 /\ c = q * d + r /\ x \in Int
  BY Division
<1> HIDE DEF q, r
<1>2. x = (-1 - q) * d + (d - 1 - r)
  <2>1. (-1 - q) * d = -d - q * d /\ q * d \in Int
    BY <1>1
  <2> QED
    BY <1>1, <2>1
<1> DEFINE s == d - 1 - r
           u == -1 - q
<1>3. s \in 0 .. d - 1 /\ u \in Int /\ x = u * d + s
  BY <1>1, <1>2
<1> HIDE DEF s, u, x
<1>4. x \div d = u
  BY <1>1, <1>3, QuotientAndRest
<1> QED
  BY <1>4 DEF x, u, q

LEMMA PowerIs ==
    ASSUME NEW p \in 0 .. MaxBitWidth
    PROVE  2 ^ p \in Nat \ {0}
<1>1. p \in 0 .. MaxBitWidth + 1
  BY MaxBitWidthAssumption
<1> QED
  BY <1>1, Powers

\* Powers of two grow with the exponent.
LEMMA PowersGrow ==
    ASSUME NEW p \in Nat, NEW q \in Nat, p <= q, q <= MaxBitWidth
    PROVE  2 ^ p <= 2 ^ q
<1>1. p \in 0 .. MaxBitWidth /\ q - p \in 0 .. MaxBitWidth /\ q - p \in Nat /\ p + (q - p) = q
      /\ p + (q - p) <= MaxBitWidth
  BY MaxBitWidthAssumption
<1> DEFINE x == 2 ^ p
           y == 2 ^ (q - p)
<1>2. x \in Nat \ {0} /\ y \in Nat \ {0}
  BY <1>1, PowerIs
<1>3. 2 ^ q = x * y
  BY <1>1, PowerOfSum
<1> HIDE DEF x, y
<1>4. x <= x * y
  <2>1. y = 1 \/ 1 < y
    BY <1>2
  <2>2. 1 < y => 1 * x + x <= y * x
    BY <1>2, ProductGrows
  <2> QED
    BY <1>2, <2>1, <2>2
<1> QED
  BY <1>3, <1>4 DEF x

LEMMA QuotientBelow ==
    ASSUME NEW base \in Nat, base > 1, NEW m \in Nat
    PROVE  /\ m \div base \in Nat /\ m % base \in 0 .. base - 1 /\ m = (m \div base) * base + (m % base)
           /\ m \div base <= m /\ (m # 0 => m \div base < m)
<1> DEFINE q == m \div base
           r == m % base
<1>1. q \in 0 .. m /\ r \in 0 .. base - 1
  BY DivMod
<1>2. m = q * base + r
  <2>1. m \in Int /\ base \in Nat \ {0}
    OBVIOUS
  <2> QED
    BY <2>1, Division
<1> HIDE DEF q, r
<1>3. ASSUME m # 0 PROVE q < m
  <2>1. CASE q = m
    <3>1. q * base = q * (base - 1) + q /\ q * (base - 1) >= q
      <4>1. q \in Nat \ {0} /\ base - 1 \in Nat \ {0}
        BY <1>1, <1>3, <2>1
      <4> QED
        BY <4>1
    <3> QED
      BY <1>1, <1>2, <1>3, <2>1, <3>1
  <2> QED
    BY <1>1, <2>1
<1> QED
  BY <1>1, <1>2, <1>3 DEF q, r

LEMMA SmallPowers ==
    ASSUME 6 <= MaxBitWidth
    PROVE  /\ 2 ^ 0 = 1 /\ 2 ^ 1 = 2 /\ 2 ^ 2 = 4 /\ 2 ^ 3 = 8 /\ 2 ^ 4 = 16
           /\ Values(4) = 0 .. 15
           /\ 0 \in 0 .. MaxBitWidth /\ 1 \in 0 .. MaxBitWidth /\ 2 \in 0 .. MaxBitWidth
           /\ 3 \in 0 .. MaxBitWidth /\ 4 \in 0 .. MaxBitWidth
<1>1. /\ 0 \in 0 .. MaxBitWidth /\ 1 \in 0 .. MaxBitWidth /\ 2 \in 0 .. MaxBitWidth
      /\ 3 \in 0 .. MaxBitWidth /\ 4 \in 0 .. MaxBitWidth
  BY MaxBitWidthAssumption
<1>2. /\ 2 ^ 0 = 1 /\ 2 ^ (0 + 1) = 2 * 2 ^ 0 /\ 2 ^ (1 + 1) = 2 * 2 ^ 1
      /\ 2 ^ (2 + 1) = 2 * 2 ^ 2 /\ 2 ^ (3 + 1) = 2 * 2 ^ 3
  BY <1>1, PowersAssumption
<1>3. 2 ^ 1 = 2
  BY <1>2
<1>4. 2 ^ 2 = 4
  BY <1>2, <1>3
<1>5. 2 ^ 3 = 8
  BY <1>2, <1>4
<1>6. 2 ^ 4 = 16
  BY <1>2, <1>5
<1> QED
  BY <1>1, <1>2, <1>3, <1>4, <1>5, <1>6 DEF Values

\* A hexadecimal digit more takes four binary ones more.
LEMMA QuotientShorter ==
    ASSUME NEW l \in Nat, l <= MaxBitWidth, 6 <= MaxBitWidth, NEW m \in Values(l), m >= 16
    PROVE  /\ l - 4 \in Nat /\ l - 4 >= 1 /\ m \div 16 \in Values(l - 4)
           /\ m \div 16 \in Nat /\ m \div 16 < m /\ m % 16 \in 0 .. 15
<1>0. MaxBitWidth \in Nat /\ l \in 0 .. MaxBitWidth
  BY MaxBitWidthAssumption
<1>1. m \in Nat /\ m < 2 ^ l
  <2> DEFINE p == 2 ^ l
  <2>1. p \in Nat \ {0} /\ m \in 0 .. p - 1
    BY <1>0, PowerIs DEF Values
  <2> HIDE DEF p
  <2>2. m \in Nat /\ m < p
    BY <2>1
  <2> QED
    BY <2>2 DEF p
<1>2. 2 ^ 4 = 16
  BY SmallPowers
<1>3. l > 4
  <2> SUFFICES ASSUME l <= 4
               PROVE  FALSE
    BY <1>0
  <2> DEFINE p == 2 ^ l
  <2>1. p <= 16
    <3>1. l \in Nat /\ 4 \in Nat /\ l <= 4 /\ 4 <= MaxBitWidth
      BY <1>0
    <3>2. 2 ^ l <= 2 ^ 4
      BY <3>1, PowersGrow
    <3> QED
      BY <1>2, <3>2
  <2>2. p \in Nat /\ m < p
    BY <1>0, <1>1, PowerIs
  <2> HIDE DEF p
  <2> QED
    BY <1>1, <2>1, <2>2
<1> DEFINE j == l - 4
           q == m \div 16
           r == m % 16
           p == 2 ^ j
<1>4. j \in Nat /\ j >= 1 /\ j + 4 = l /\ j \in 0 .. MaxBitWidth /\ 4 \in Nat
  BY <1>0, <1>3
<1>5. q \in Nat /\ r \in 0 .. 15 /\ m = q * 16 + r /\ q <= m /\ (m # 0 => q < m)
  <2>1. 16 \in Nat /\ 16 > 1 /\ 16 - 1 = 15
    OBVIOUS
  <2> DEFINE base == 16
  <2>2. base \in Nat /\ base > 1 /\ m \in Nat
    BY <1>1
  <2> HIDE DEF base
  <2>3. /\ m \div base \in Nat /\ m % base \in 0 .. base - 1 /\ m = (m \div base) * base + (m % base)
        /\ m \div base <= m /\ (m # 0 => m \div base < m)
    BY <2>2, QuotientBelow
  <2> QED
    BY <2>1, <2>3 DEF base
<1> HIDE DEF j
<1>6. 2 ^ (j + 4) = 2 ^ j * 2 ^ 4 /\ p \in Nat \ {0}
  BY <1>0, <1>4, PowerOfSum, PowerIs
<1>7. m < p * 16
  BY <1>1, <1>2, <1>4, <1>6
<1> HIDE DEF p, q, r
<1>8. q \in 0 .. p - 1
  BY <1>5, <1>6, <1>7
<1>9. q \in Values(j) /\ q < m
  BY <1>1, <1>5, <1>8 DEF Values, p
<1> QED
  BY <1>4, <1>5, <1>9 DEF q, r, j

----------------------------------------------------------------------------
(* Bits of sums, products, quotients and rests.                            *)

\* A multiple of a power of two does not touch the bits below.
LEMMA BitBelow ==
    ASSUME NEW n \in 0 .. MaxBitWidth, NEW j \in 0 .. n - 1, NEW x \in Int, NEW y \in Int
    PROVE  Bit(x + y * 2 ^ n, j) = Bit(x, j)
<1>0. MaxBitWidth \in Nat /\ n \in Nat /\ j \in Nat
  BY MaxBitWidthAssumption
<1> DEFINE i == n - (j + 1)
           p == 2 ^ j
           m == 2 ^ i
           q == x \div p
           r == x % p
           h == q \div 2
           s == q % 2
<1>1. i \in Nat /\ n = (j + 1) + i /\ j + 1 \in Nat /\ i \in 0 .. MaxBitWidth
      /\ j \in 0 .. MaxBitWidth /\ (j + 1) + i <= MaxBitWidth
  BY <1>0
<1> HIDE DEF i
<1>2. p \in Nat \ {0} /\ m \in Nat \ {0} /\ 2 ^ (j + 1) = 2 * p
  <2>1. i \in 0 .. MaxBitWidth + 1 /\ j \in 0 .. MaxBitWidth + 1
    BY <1>0, <1>1
  <2>2. 2 ^ (j + 1) = 2 * 2 ^ j
    BY <1>1, PowersAssumption
  <2> QED
    BY <2>1, <2>2, Powers
<1>3. 2 ^ n = 2 ^ (j + 1) * m
  BY <1>1, PowerOfSum
<1> HIDE DEF p, m
<1>4. q \in Int /\ r \in 0 .. p - 1 /\ x = q * p + r
  BY <1>2, Division
<1> HIDE DEF q, r
<1>5. h \in Int /\ s \in 0 .. 2 - 1 /\ q = h * 2 + s
  BY <1>4, Division
<1> HIDE DEF h, s
<1> DEFINE z == y * m
<1>6. z \in Int /\ y * (2 * p * m) = 2 * z * p
  BY <1>2
<1> HIDE DEF z
<1>7. x + y * 2 ^ n = (q + 2 * z) * p + r
  <2>1. (q + 2 * z) * p = q * p + 2 * z * p
    BY <1>2, <1>4, <1>6
  <2> QED
    BY <1>2, <1>3, <1>4, <1>6, <2>1
<1>8. (x + y * 2 ^ n) \div p = q + 2 * z
  <2> DEFINE X == x + y * 2 ^ n
             Q == q + 2 * z
  <2>1. X = Q * p + r /\ Q \in Int
    BY <1>4, <1>6, <1>7
  <2>2. X \in Int
    <3> HIDE DEF X, Q
    <3> QED
      BY <1>2, <1>4, <2>1
  <2> HIDE DEF X, Q
  <2>3. X \div p = Q
    BY <1>2, <1>4, <2>1, <2>2, QuotientAndRest
  <2> QED
    BY <2>3 DEF X, Q
<1>9. (q + 2 * z) % 2 = s
  <2>1. q + 2 * z = (h + z) * 2 + s
    BY <1>5, <1>6
  <2> QED
    BY <1>4, <1>5, <1>6, <2>1, QuotientAndRest
<1>10. Bit(x, j) = s /\ Bit(x + y * 2 ^ n, j) = (q + 2 * z) % 2
  BY <1>8 DEF Bit, p, q, s
<1> QED
  BY <1>9, <1>10

\* Cutting a number to a width keeps the bits below.
LEMMA BitOfRest ==
    ASSUME NEW n \in 0 .. MaxBitWidth, NEW j \in 0 .. n - 1, NEW x \in Int
    PROVE  Bit(x % 2 ^ n, j) = Bit(x, j)
<1> DEFINE q == x \div 2 ^ n
           r == x % 2 ^ n
<1>1. 2 ^ n \in Nat \ {0}
  BY Powers, MaxBitWidthAssumption
<1>2. q \in Int /\ r \in Int /\ x = r + q * 2 ^ n
  <2> DEFINE d == 2 ^ n
  <2>1. d \in Nat \ {0}
    BY <1>1
  <2> HIDE DEF d
  <2>2. x \div d \in Int /\ x % d \in 0 .. d - 1 /\ x = (x \div d) * d + (x % d)
    BY <2>1, Division
  <2>3. x % d \in Int /\ (x \div d) * d \in Int
    BY <2>1, <2>2
  <2>4. x = (x % d) + (x \div d) * d
    BY <2>2, <2>3
  <2> QED
    BY <2>2, <2>3, <2>4 DEF d
<1> HIDE DEF q, r
<1>3. Bit(r + q * 2 ^ n, j) = Bit(r, j)
  BY <1>2, BitBelow
<1> QED
  BY <1>2, <1>3 DEF r

\* Dividing by a power of two moves the bits down.
LEMMA BitOfQuotient ==
    ASSUME NEW k \in Nat, NEW j \in Nat, j + k <= MaxBitWidth, NEW x \in Int
    PROVE  Bit(x \div 2 ^ k, j) = Bit(x, j + k)
<1>1. 2 ^ k \in Nat \ {0} /\ 2 ^ j \in Nat \ {0} /\ 2 ^ (j + k) = 2 ^ k * 2 ^ j
  <2>1. k \in 0 .. MaxBitWidth + 1 /\ j \in 0 .. MaxBitWidth + 1
        /\ k + j = j + k
    BY MaxBitWidthAssumption
  <2>2. 2 ^ (k + j) = 2 ^ k * 2 ^ j
    BY <2>1, PowerOfSum
  <2> QED
    BY <2>1, <2>2, Powers
<1>2. (x \div 2 ^ k) \div 2 ^ j = x \div (2 ^ k * 2 ^ j)
  BY <1>1, DivisionTwice, ZenonT(60)
<1> QED
  BY <1>1, <1>2 DEF Bit

\* Multiplying by a power of two moves the bits up, zeros fill the lowest ones.
LEMMA BitOfProduct ==
    ASSUME NEW k \in 0 .. MaxBitWidth, NEW j \in 0 .. MaxBitWidth, NEW x \in Int
    PROVE  Bit(x * 2 ^ k, j) = IF j >= k THEN Bit(x, j - k) ELSE 0
<1>0. MaxBitWidth \in Nat /\ k \in Nat /\ j \in Nat /\ 2 ^ k \in Nat \ {0}
  BY MaxBitWidthAssumption, Powers
<1>1. CASE j >= k
  <2> DEFINE i == j - k
             X == x * 2 ^ k
  <2>1. i \in Nat /\ i + k = j /\ i + k <= MaxBitWidth /\ X \in Int
    BY <1>0, <1>1
  <2>2. X \div 2 ^ k = x
    <3> DEFINE d == 2 ^ k
    <3>1. d \in Nat \ {0}
      BY <1>0
    <3> HIDE DEF d
    <3>2. x * d \in Int /\ x * d = x * d + 0 /\ 0 \in 0 .. d - 1
      BY <3>1
    <3>3. (x * d) \div d = x
      BY <3>1, <3>2, QuotientAndRest
    <3> QED
      BY <3>3 DEF d
  <2> HIDE DEF i, X
  <2>3. Bit(X \div 2 ^ k, i) = Bit(X, i + k)
    BY <1>0, <2>1, BitOfQuotient
  <2> QED
    BY <1>1, <2>1, <2>2, <2>3 DEF i, X
<1>2. CASE ~(j >= k)
  <2>1. Bit(0 + x * 2 ^ k, j) = Bit(0, j)
    BY <1>0, <1>2, BitBelow
  <2>2. 0 + x * 2 ^ k = x * 2 ^ k
    BY <1>0
  <2>3. Bit(0, j) = 0
    <3>1. 2 ^ j \in Nat \ {0}
      BY <1>0, Powers
    <3>2. \A d \in Nat \ {0} : (0 \div d) % 2 = 0
      OBVIOUS
    <3> QED
      BY <3>1, <3>2 DEF Bit
  <2> QED
    BY <1>2, <2>1, <2>2, <2>3
<1> QED
  BY <1>1, <1>2

\* The bits above the width are zero.
LEMMA BitAbove ==
    ASSUME NEW n \in Nat, NEW x \in Values(n), NEW i \in n .. MaxBitWidth
    PROVE  Bit(x, i) = 0
<1> DEFINE k == i - n
<1>1. /\ MaxBitWidth \in Nat /\ k \in Nat /\ n + k = i /\ n + k <= MaxBitWidth
      /\ n \in 0 .. MaxBitWidth + 1 /\ k \in 0 .. MaxBitWidth + 1
  BY MaxBitWidthAssumption
<1> HIDE DEF k
<1>2. 2 ^ i = 2 ^ n * 2 ^ k /\ 2 ^ n \in Nat \ {0} /\ 2 ^ k \in Nat \ {0}
  BY <1>1, PowerOfSum, Powers
<1>3. \A d, e \in Nat \ {0} : d * e >= d
  OBVIOUS
<1>4. x \in Nat /\ x < 2 ^ i /\ 2 ^ i \in Nat \ {0}
  <2>1. 2 ^ n * 2 ^ k >= 2 ^ n /\ 2 ^ n * 2 ^ k \in Nat
    BY <1>2, <1>3
  <2> QED
    BY <1>2, <2>1 DEF Values
<1>5. \A d \in Nat \ {0} : x < d => (x \div d) % 2 = 0
  BY <1>4
<1> QED
  BY <1>4, <1>5 DEF Bit

\* A sum of bits, each at its place, has these bits.
LEMMA BitOfSum ==
    ASSUME NEW n \in 0 .. MaxBitWidth, NEW h, \A i \in 0 .. n - 1 : h[i] \in {0, 1},
           NEW j \in 0 .. n - 1
    PROVE  Bit(SumBelow(n, [i \in 0 .. n - 1 |-> 2 ^ i * h[i]]), j) = h[j]
<1> DEFINE g == [i \in 0 .. n - 1 |-> 2 ^ i * h[i]]
<1>0. /\ MaxBitWidth \in Nat /\ n \in Nat /\ j \in Nat
      /\ \A i \in 0 .. n - 1 : i \in 0 .. MaxBitWidth /\ 2 ^ i \in Nat \ {0}
  BY MaxBitWidthAssumption, Powers
<1>1. \A i \in 0 .. n - 1 : g[i] \in Int /\ g[i] = h[i] * 2 ^ i /\ h[i] \in Int
  <2>1. \A p \in Nat, c \in {0, 1} : p * c \in Int /\ p * c = c * p
    OBVIOUS
  <2> QED
    BY <1>0, <2>1
<1>2. g \in [0 .. n - 1 -> Int]
  <2>1. g = [i \in 0 .. n - 1 |-> g[i]]
    OBVIOUS
  <2> HIDE DEF g
  <2> QED
    BY <1>1, <2>1
<1> HIDE DEF g
<1>3. PICK f : /\ SumBelow(n, g) = f[n]
               /\ f[0] = 0
               /\ \A m \in 1 .. n : f[m] = f[m - 1] + g[m - 1]
  BY <1>0, <1>2, PartialSums
<1>4. f[j] \in Values(j)
  <2> DEFINE bad == {m \in 0 .. n : f[m] \notin Values(m)}
  <2>1. ASSUME bad # {} PROVE FALSE
    <3>1. PICK m \in bad : \A i \in bad : m <= i
      <4>1. bad \in SUBSET Nat
        OBVIOUS
      <4> HIDE DEF bad
      <4> QED
        BY <2>1, <4>1, LeastNumber
    <3>2. m # 0
      <4>1. 0 \in 0 .. 1 - 1
        OBVIOUS
      <4> QED
        BY <1>3, <3>1, <4>1, PowersAssumption, Zenon DEF Values
    <3> DEFINE i == m - 1
    <3>3. i \in 0 .. n - 1 /\ i \in 0 .. n /\ i \in 0 .. MaxBitWidth /\ ~(m <= i)
          /\ m = i + 1 /\ m \in 1 .. n
      BY <1>0, <3>1, <3>2
    <3>4. f[m] = f[i] + g[i]
      BY <1>3, <3>3
    <3> HIDE DEF i
    <3>5. f[i] \in Values(i)
      BY <3>1, <3>3
    <3>6. 2 ^ m = 2 * 2 ^ i /\ 2 ^ i \in Nat /\ g[i] \in {0, 2 ^ i}
      <4>1. \A p \in Nat, c \in {0, 1} : c * p \in {0, p}
        OBVIOUS
      <4> QED
        BY <1>0, <1>1, <3>3, <4>1, PowersAssumption
    <3>7. \A p \in Nat : \A x \in 0 .. p - 1, y \in {0, p} : x + y \in 0 .. 2 * p - 1
      OBVIOUS
    <3>8. f[m] \in Values(m)
      BY <3>4, <3>5, <3>6, <3>7, Zenon DEF Values
    <3> QED
      BY <3>1, <3>8
  <2> QED
    BY <1>0, <2>1
<1>5. f[j] \in Int /\ f[j + 1] = f[j] + h[j] * 2 ^ j
  <2>1. j + 1 \in 1 .. n /\ (j + 1) - 1 = j
    BY <1>0
  <2> QED
    BY <1>1, <1>3, <1>4, <2>1 DEF Values
<1>6. Bit(f[j + 1], j) = h[j] /\ f[j + 1] \in Int
  <2> DEFINE d == 2 ^ j
             r == f[j]
             c == h[j]
             X == f[j + 1]
  <2>1. d \in Nat \ {0} /\ r \in 0 .. d - 1 /\ c \in {0, 1} /\ X = r + c * d
    BY <1>0, <1>4, <1>5 DEF Values
  <2> HIDE DEF d, r, c, X
  <2>2. X \in Int /\ c \in Int /\ X = c * d + r
    BY <2>1
  <2>3. X \div d = c
    BY <2>1, <2>2, QuotientAndRest
  <2>4. c % 2 = c
    BY <2>1
  <2> QED
    BY <2>2, <2>3, <2>4 DEF Bit, d, c, X
<1> DEFINE bad == {m \in j + 1 .. n : ~(Bit(f[m], j) = h[j] /\ f[m] \in Int)}
<1>7. ASSUME bad # {} PROVE FALSE
  <2>1. PICK m \in bad : \A i \in bad : m <= i
    <3>1. bad \in SUBSET Nat
      BY <1>0
    <3> HIDE DEF bad
    <3> QED
      BY <1>7, <3>1, LeastNumber
  <2>2. m # j + 1
    BY <1>6, <2>1
  <2> DEFINE i == m - 1
  <2>3. i \in j + 1 .. n /\ i \in 0 .. n - 1 /\ ~(m <= i) /\ m \in 1 .. n
        /\ i \in 0 .. MaxBitWidth /\ j \in 0 .. i - 1
    BY <1>0, <2>1, <2>2
  <2>4. f[m] = f[i] + h[i] * 2 ^ i /\ h[i] \in Int /\ 2 ^ i \in Nat
    BY <1>0, <1>1, <1>3, <2>3
  <2> HIDE DEF i
  <2>5. f[i] \in Int /\ Bit(f[i], j) = h[j]
    BY <2>1, <2>3
  <2>6. Bit(f[i] + h[i] * 2 ^ i, j) = Bit(f[i], j)
    BY <2>3, <2>4, <2>5, BitBelow
  <2>7. f[i] + h[i] * 2 ^ i \in Int
    BY <2>4, <2>5
  <2> QED
    BY <2>1, <2>4, <2>5, <2>6, <2>7
<1>8. Bit(f[n], j) = h[j]
  <2>1. n \in j + 1 .. n
    BY <1>0
  <2> QED
    BY <1>7, <2>1
<1> QED
  BY <1>3, <1>8 DEF g

\* The bits of a disjunction and of a conjunction.
LEMMA BitOfOr ==
    ASSUME NEW n \in 1 .. MaxBitWidth, NEW x \in Values(n), NEW y \in Values(n),
           NEW j \in 0 .. n - 1
    PROVE  /\ Bit(bv_or(n, x, y), j) = Bit(x, j) + Bit(y, j) - Bit(x, j) * Bit(y, j)
           /\ Bit(bv_and(n, x, y), j) = Bit(x, j) * Bit(y, j)
<1>1. n \in 0 .. MaxBitWidth /\ \A i \in 0 .. n - 1 : Bit(x, i) \in {0, 1} /\ Bit(y, i) \in {0, 1}
  <2>1. x \in Nat /\ y \in Nat /\ MaxBitWidth \in Nat
    BY ValuesOf, MaxBitWidthAssumption
  <2> QED
    BY <2>1, Bits
<1> DEFINE h == [i \in 0 .. n - 1 |-> Bit(x, i) + Bit(y, i) - Bit(x, i) * Bit(y, i)]
           g == [i \in 0 .. n - 1 |-> Bit(x, i) * Bit(y, i)]
<1>2. \A p, q \in {0, 1} : p * q \in {0, 1} /\ p + q - p * q \in {0, 1}
  OBVIOUS
<1>3. \A i \in 0 .. n - 1 : h[i] \in {0, 1} /\ g[i] \in {0, 1}
  BY <1>1, <1>2
<1>4. /\ bv_or(n, x, y) = SumBelow(n, [i \in 0 .. n - 1 |-> 2 ^ i * h[i]])
      /\ bv_and(n, x, y) = SumBelow(n, [i \in 0 .. n - 1 |-> 2 ^ i * g[i]])
  BY DEF bv_or, bv_and, Bitwise
<1>5. h[j] = Bit(x, j) + Bit(y, j) - Bit(x, j) * Bit(y, j) /\ g[j] = Bit(x, j) * Bit(y, j)
  OBVIOUS
<1> HIDE DEF h, g
<1>6. /\ Bit(SumBelow(n, [i \in 0 .. n - 1 |-> 2 ^ i * h[i]]), j) = h[j]
      /\ Bit(SumBelow(n, [i \in 0 .. n - 1 |-> 2 ^ i * g[i]]), j) = g[j]
  BY <1>1, <1>3, BitOfSum
<1> QED
  BY <1>4, <1>5, <1>6

----------------------------------------------------------------------------
(* Subtraction and rotation.                                               *)

\* A number is below the power of two with this exponent: a width fits itself.
LEMMA WidthFits == \A n \in 0 .. MaxBitWidth : n < 2 ^ n
<1> DEFINE bad == {n \in 0 .. MaxBitWidth : ~(n < 2 ^ n)}
<1>0. MaxBitWidth \in Nat
  BY MaxBitWidthAssumption
<1>1. ASSUME bad # {} PROVE FALSE
  <2>1. PICK n \in bad : \A i \in bad : n <= i
    <3>1. bad \in SUBSET Nat
      OBVIOUS
    <3> HIDE DEF bad
    <3> QED
      BY <1>1, <3>1, LeastNumber
  <2>2. n # 0
    <3>1. 0 < 1
      OBVIOUS
    <3> QED
      BY <2>1, <3>1, PowersAssumption, Zenon
  <2> DEFINE i == n - 1
  <2>3. i \in 0 .. MaxBitWidth /\ ~(n <= i) /\ n = i + 1
    BY <1>0, <2>1, <2>2
  <2> HIDE DEF i
  <2>4. i < 2 ^ i
    BY <2>1, <2>3
  <2>5. 2 ^ i \in Nat /\ 2 ^ (i + 1) = 2 * 2 ^ i
    BY <2>3, PowersAssumption
  <2>6. n < 2 ^ n
    <3>1. \A p \in Nat : i < p => i + 1 < 2 * p
      BY <2>3
    <3> QED
      BY <2>3, <2>4, <2>5, <3>1
  <2> QED
    BY <2>1, <2>6
<1> QED
  BY <1>1

\* Negation, addition and subtraction, by cases instead of remainders.
LEMMA Differences ==
    ASSUME NEW n \in 1 .. MaxBitWidth, NEW x \in Values(n), NEW y \in Values(n)
    PROVE  /\ bv_neg(n, y) = IF y = 0 THEN 0 ELSE 2 ^ n - y
           /\ bv_add(n, x, y) = IF x + y < 2 ^ n THEN x + y ELSE x + y - 2 ^ n
           /\ bv_sub(n, x, y) = IF y <= x THEN x - y ELSE x - y + 2 ^ n
<1> DEFINE p == 2 ^ n
<1>1. p \in Nat \ {0} /\ Values(n) = 0 .. p - 1
  BY ValuesOf DEF Values
<1> HIDE DEF p
<1>2. \A r \in 0 .. p - 1 : r % p = r /\ (r + p) % p = r
  BY <1>1, RestNearby
<1>3. ASSUME NEW u \in 0 .. p - 1 PROVE bv_neg(n, u) = IF u = 0 THEN 0 ELSE p - u
  <2>1. bv_neg(n, u) = (p - 1 - u + 1) % p
    BY DEF bv_neg, bv_not, Fit, p
  <2>2. CASE u = 0
    <3>1. p - 1 - u + 1 = 0 + p /\ 0 \in 0 .. p - 1
      BY <1>1, <2>2
    <3> QED
      BY <1>2, <2>1, <2>2, <3>1
  <2>3. CASE u # 0
    <3>1. p - 1 - u + 1 = p - u /\ p - u \in 0 .. p - 1
      BY <1>1, <2>3
    <3> QED
      BY <1>2, <2>1, <2>3, <3>1
  <2> QED
    BY <2>2, <2>3
<1>4. ASSUME NEW u \in 0 .. p - 1, NEW v \in 0 .. p - 1
      PROVE  bv_add(n, u, v) = IF u + v < p THEN u + v ELSE u + v - p
  <2>1. bv_add(n, u, v) = (u + v) % p
    BY DEF bv_add, Fit, p
  <2>2. CASE u + v < p
    <3>1. u + v \in 0 .. p - 1
      BY <1>1, <2>2
    <3> QED
      BY <1>2, <2>1, <2>2, <3>1
  <2>3. CASE ~(u + v < p)
    <3>1. u + v - p \in 0 .. p - 1 /\ (u + v - p) + p = u + v
      BY <1>1, <2>3
    <3> QED
      BY <1>2, <2>1, <2>3, <3>1
  <2> QED
    BY <2>2, <2>3
<1>5. bv_sub(n, x, y) = IF y <= x THEN x - y ELSE x - y + p
  <2> DEFINE z == bv_neg(n, y)
  <2>1. z \in 0 .. p - 1 /\ z = IF y = 0 THEN 0 ELSE p - y
    BY <1>1, <1>3
  <2>2. bv_sub(n, x, y) = bv_add(n, x, z)
    BY DEF bv_sub
  <2> HIDE DEF z
  <2>3. bv_add(n, x, z) = IF x + z < p THEN x + z ELSE x + z - p
    BY <1>1, <1>4, <2>1
  <2> QED
    BY <1>1, <2>1, <2>2, <2>3
<1> QED
  BY <1>1, <1>3, <1>4, <1>5 DEF p

\* The bits of zero.
LEMMA BitOfZero == \A j \in 0 .. MaxBitWidth : Bit(0, j) = 0
<1> TAKE j \in 0 .. MaxBitWidth
<1>1. 2 ^ j \in Nat \ {0}
  BY Powers, MaxBitWidthAssumption
<1>2. \A d \in Nat \ {0} : (0 \div d) % 2 = 0
  OBVIOUS
<1> QED
  BY <1>1, <1>2 DEF Bit

\* Shifts by at most the width move the bits up or down.
LEMMA BitsOfShifts ==
    ASSUME NEW n \in 1 .. MaxBitWidth, 2 * n <= MaxBitWidth, n < 2 ^ WordBits,
           NEW x \in Values(n), NEW s \in 0 .. n, NEW j \in 0 .. n - 1
    PROVE  /\ Bit(bv_sll(n, x, s), j) = IF j >= s THEN Bit(x, j - s) ELSE 0
           /\ Bit(bv_srl(n, x, s), j) = IF j + s < n THEN Bit(x, j + s) ELSE 0
<1>0. /\ MaxBitWidth \in Nat /\ n \in Nat /\ s \in Nat /\ j \in Nat /\ x \in Nat
      /\ n \in 0 .. MaxBitWidth /\ s \in 0 .. MaxBitWidth /\ j \in 0 .. MaxBitWidth
      /\ WordBits \in Nat \ {0} /\ 2 ^ WordBits \in Nat \ {0}
      /\ 2 ^ s \in Nat \ {0} /\ 2 ^ n \in Nat \ {0}
  BY MaxBitWidthAssumption, WordBitsAssumption, ValuesOf, Powers
<1>1. s % 2 ^ WordBits = s
  <2>1. s \in 0 .. 2 ^ WordBits - 1
    BY <1>0
  <2> QED
    BY <1>0, <2>1, RestNearby
<1>2. ~(n > 2 * WordBits /\ s >= 2 ^ (2 * WordBits))
  <2> SUFFICES ASSUME n > 2 * WordBits PROVE s < 2 ^ (2 * WordBits)
    <3>1. n > 2 * WordBits => 2 * WordBits \in 0 .. MaxBitWidth + 1
      BY <1>0
    <3> QED
      BY <1>0, <3>1, Powers
  <2>1. 2 * WordBits = WordBits + WordBits /\ WordBits + WordBits <= MaxBitWidth
    BY <1>0
  <2>2. 2 ^ (2 * WordBits) = 2 ^ WordBits * 2 ^ WordBits
    BY <1>0, <2>1, PowerOfSum
  <2>3. \A d \in Nat \ {0} : d * d >= d
    OBVIOUS
  <2> QED
    BY <1>0, <2>2, <2>3
<1>3. Bit(bv_sll(n, x, s), j) = IF j >= s THEN Bit(x, j - s) ELSE 0
  <2>1. bv_sll(n, x, s) = IF s >= n THEN 0 ELSE (x * 2 ^ s) % 2 ^ n
    BY <1>1, <1>2 DEF bv_sll, Fit
  <2>2. CASE s >= n
    <3>1. ~(j >= s)
      BY <1>0, <2>2
    <3> QED
      BY <1>0, <2>1, <2>2, <3>1, BitOfZero
  <2>3. CASE ~(s >= n)
    <3>1. x * 2 ^ s \in Int
      BY <1>0
    <3>2. Bit((x * 2 ^ s) % 2 ^ n, j) = Bit(x * 2 ^ s, j)
      BY <1>0, <3>1, BitOfRest
    <3>3. Bit(x * 2 ^ s, j) = IF j >= s THEN Bit(x, j - s) ELSE 0
      BY <1>0, BitOfProduct
    <3> QED
      BY <2>1, <2>3, <3>2, <3>3
  <2> QED
    BY <2>2, <2>3
<1>4. Bit(bv_srl(n, x, s), j) = IF j + s < n THEN Bit(x, j + s) ELSE 0
  <2>1. bv_srl(n, x, s) = IF s >= n THEN 0 ELSE x \div 2 ^ s
    BY DEF bv_srl
  <2>2. CASE s >= n
    <3>1. ~(j + s < n)
      BY <1>0, <2>2
    <3> QED
      BY <1>0, <2>1, <2>2, <3>1, BitOfZero
  <2>3. CASE ~(s >= n)
    <3>1. j + s <= MaxBitWidth
      BY <1>0, <2>3
    <3>2. Bit(x \div 2 ^ s, j) = Bit(x, j + s)
      BY <1>0, <3>1, BitOfQuotient
    <3>3. ~(j + s < n) => Bit(x, j + s) = 0
      <4>1. ~(j + s < n) => j + s \in n .. MaxBitWidth
        BY <1>0, <3>1
      <4> QED
        BY <1>0, <4>1, BitAbove
    <3> QED
      BY <2>1, <2>3, <3>2, <3>3
  <2> QED
    BY <2>2, <2>3
<1> QED
  BY <1>3, <1>4

\* A rotation by at most the width moves bit i to bit i + b modulo the width; the
\* number the second of its two shifts is by is computed in the width itself and
\* is not cut off there.
LEMMA BitsOfRotations ==
    ASSUME NEW n \in 1 .. MaxBitWidth, 2 * n <= MaxBitWidth, n < 2 ^ WordBits,
           NEW x \in Values(n), NEW y \in Values(n), y <= n, NEW i \in 0 .. n - 1
    PROVE  /\ Bit(bv_rol(n, x, y), (i + y) % n) = Bit(x, i)
           /\ Bit(bv_ror(n, x, y), i) = Bit(x, (i + y) % n)
<1>0. /\ MaxBitWidth \in Nat /\ n \in Nat \ {0} /\ x \in Nat /\ y \in Nat /\ i \in Nat
      /\ n \in 0 .. MaxBitWidth /\ 2 ^ n \in Nat /\ y \in 0 .. n
      /\ \A k \in 0 .. n - 1 : Bit(x, k) \in {0, 1}
  BY MaxBitWidthAssumption, ValuesOf, Bits
<1> DEFINE rev == bv_sub(n, Fit(n, n), y)
           j == (i + y) % n
           L == bv_sll(n, x, y)
           R == bv_srl(n, x, rev)
           L2 == bv_sll(n, x, rev)
           R2 == bv_srl(n, x, y)
<1>1. rev = n - y /\ rev \in 0 .. n /\ rev \in Values(n)
  <2>1. n \in 0 .. 2 ^ n - 1 /\ n \in Values(n)
    BY <1>0, WidthFits DEF Values
  <2>2. Fit(n, n) = n
    BY <1>0, <2>1, RestNearby DEF Fit
  <2>3. bv_sub(n, n, y) = n - y
    BY <1>0, <2>1, Differences
  <2>4. n - y \in 0 .. n /\ n - y \in 0 .. 2 ^ n - 1
    BY <1>0, <2>1
  <2> QED
    BY <2>2, <2>3, <2>4 DEF Values
<1>2. /\ bv_rol(n, x, y) = bv_or(n, L, R)
      /\ bv_ror(n, x, y) = bv_or(n, R2, L2)
  BY DEF bv_rol, bv_ror
<1> HIDE DEF rev
<1>3. L \in Values(n) /\ R \in Values(n) /\ L2 \in Values(n) /\ R2 \in Values(n)
  BY <1>1, ShiftsFit
<1>4. /\ j \in 0 .. n - 1
      /\ i + y < n => j = i + y
      /\ ~(i + y < n) => j = i + y - n
  <2>1. CASE i + y < n
    <3>1. i + y \in 0 .. n - 1
      BY <1>0, <2>1
    <3>2. (i + y) % n = i + y
      BY <1>0, <3>1, RestNearby
    <3> QED
      BY <2>1, <3>1, <3>2
  <2>2. CASE ~(i + y < n)
    <3>1. i + y - n \in 0 .. n - 1 /\ (i + y - n) + n = i + y
      BY <1>0, <2>2
    <3>2. ((i + y - n) + n) % n = i + y - n
      BY <1>0, <3>1, RestNearby
    <3> QED
      BY <2>2, <3>1, <3>2
  <2> QED
    BY <2>1, <2>2
<1> HIDE DEF j
<1>5. \A k \in 0 .. n - 1 :
        /\ Bit(L, k) = IF k >= y THEN Bit(x, k - y) ELSE 0
        /\ Bit(R2, k) = IF k + y < n THEN Bit(x, k + y) ELSE 0
        /\ Bit(R, k) = IF k + rev < n THEN Bit(x, k + rev) ELSE 0
        /\ Bit(L2, k) = IF k >= rev THEN Bit(x, k - rev) ELSE 0
  BY <1>0, <1>1, BitsOfShifts
<1> HIDE DEF L, R, L2, R2
<1>6. /\ Bit(bv_or(n, L, R), j) = Bit(L, j) + Bit(R, j) - Bit(L, j) * Bit(R, j)
      /\ Bit(bv_or(n, R2, L2), i) = Bit(R2, i) + Bit(L2, i) - Bit(R2, i) * Bit(L2, i)
  BY <1>3, <1>4, BitOfOr
<1>7. \A p \in {0, 1} : p + 0 - p * 0 = p /\ 0 + p - 0 * p = p
  OBVIOUS
<1>8. Bit(bv_or(n, L, R), j) = Bit(x, i)
  <2>1. CASE i + y < n
    <3>1. j >= y /\ j - y = i /\ ~(j + rev < n)
      BY <1>0, <1>1, <1>4, <2>1
    <3>2. Bit(L, j) = Bit(x, i) /\ Bit(R, j) = 0
      BY <1>4, <1>5, <3>1
    <3> QED
      BY <1>0, <1>6, <1>7, <3>2
  <2>2. CASE ~(i + y < n)
    <3>1. ~(j >= y) /\ j + rev = i /\ j + rev < n
      BY <1>0, <1>1, <1>4, <2>2
    <3>2. Bit(L, j) = 0 /\ Bit(R, j) = Bit(x, i)
      BY <1>4, <1>5, <3>1
    <3> QED
      BY <1>0, <1>6, <1>7, <3>2
  <2> QED
    BY <2>1, <2>2
<1>9. Bit(bv_or(n, R2, L2), i) = Bit(x, j)
  <2>1. CASE i + y < n
    <3>1. ~(i >= rev) /\ j = i + y
      BY <1>0, <1>1, <1>4, <2>1
    <3>2. Bit(R2, i) = Bit(x, j) /\ Bit(L2, i) = 0
      BY <1>5, <2>1, <3>1
    <3> QED
      BY <1>0, <1>4, <1>6, <1>7, <3>2
  <2>2. CASE ~(i + y < n)
    <3>1. i >= rev /\ i - rev = j
      BY <1>0, <1>1, <1>4, <2>2
    <3>2. Bit(R2, i) = 0 /\ Bit(L2, i) = Bit(x, j)
      BY <1>5, <2>2, <3>1
    <3> QED
      BY <1>0, <1>4, <1>6, <1>7, <3>2
  <2> QED
    BY <2>1, <2>2
<1> QED
  BY <1>2, <1>8, <1>9 DEF j

----------------------------------------------------------------------------
(* The bits of connectives and of single bits.                             *)

\* The bit operations in width one.
LEMMA OneBitOperations ==
    \A x, y \in {0, 1} : /\ bv_and(1, x, y) = x * y
                         /\ bv_not(1, x) = 1 - x
                         /\ x \in Values(1)
<1>0. 1 \in 1 .. MaxBitWidth /\ Values(1) = {0, 1} /\ 0 \in 0 .. 1 - 1
  BY MaxBitWidthAssumption, Bits
<1> TAKE x \in {0, 1}, y \in {0, 1}
<1>1. bv_and(1, x, y) \in {0, 1}
  BY <1>0, BitwiseFits
<1>2. Bit(bv_and(1, x, y), 0) = Bit(x, 0) * Bit(y, 0)
  BY <1>0, BitOfOr
<1>3. bv_and(1, x, y) = x * y
  BY <1>1, <1>2, BitOfTruth
<1>4. 2 ^ 1 = 2
  <2>1. 0 \in 0 .. MaxBitWidth /\ 0 + 1 = 1 /\ 2 * 1 = 2
    BY MaxBitWidthAssumption
  <2> QED
    BY <2>1, PowersAssumption, Zenon
<1> QED
  BY <1>0, <1>3, <1>4 DEF bv_not

LEMMA BitOfXor ==
    ASSUME NEW n \in 1 .. MaxBitWidth, NEW x \in Values(n), NEW y \in Values(n),
           NEW j \in 0 .. n - 1
    PROVE  Bit(bv_xor(n, x, y), j) = (Bit(x, j) + Bit(y, j)) % 2
<1>1. n \in 0 .. MaxBitWidth /\ \A i \in 0 .. n - 1 : Bit(x, i) \in {0, 1} /\ Bit(y, i) \in {0, 1}
  <2>1. x \in Nat /\ y \in Nat /\ MaxBitWidth \in Nat
    BY ValuesOf, MaxBitWidthAssumption
  <2> QED
    BY <2>1, Bits
<1> DEFINE h == [i \in 0 .. n - 1 |-> (Bit(x, i) + Bit(y, i)) % 2]
<1>2. \A p, q \in {0, 1} : (p + q) % 2 \in {0, 1}
  OBVIOUS
<1>3. \A i \in 0 .. n - 1 : h[i] \in {0, 1}
  BY <1>1, <1>2
<1>4. bv_xor(n, x, y) = SumBelow(n, [i \in 0 .. n - 1 |-> 2 ^ i * h[i]])
  BY DEF bv_xor, Bitwise
<1>5. h[j] = (Bit(x, j) + Bit(y, j)) % 2
  OBVIOUS
<1> HIDE DEF h
<1>6. Bit(SumBelow(n, [i \in 0 .. n - 1 |-> 2 ^ i * h[i]]), j) = h[j]
  BY <1>1, <1>3, BitOfSum
<1> QED
  BY <1>4, <1>5, <1>6

\* A complement is -1 - x with one more power of two.
LEMMA BitOfNot ==
    ASSUME NEW n \in 0 .. MaxBitWidth, NEW x \in Values(n), NEW j \in 0 .. n - 1
    PROVE  Bit(bv_not(n, x), j) = 1 - Bit(x, j)
<1> DEFINE d == 2 ^ j
           q == x \div d
           z == -1 - x
           p == 2 ^ n
<1>1. MaxBitWidth \in Nat /\ n \in Nat /\ j \in Nat /\ d \in Nat \ {0} /\ p \in Nat \ {0}
  BY MaxBitWidthAssumption, Powers
<1>2. x \in Nat /\ z \in Int /\ 1 \in Int
  BY <1>1 DEF Values
<1>3. bv_not(n, x) = z + 1 * p
  BY <1>1, <1>2 DEF bv_not
<1>4. z \div d = -1 - q
  <2> HIDE DEF d
  <2> QED
    BY <1>1, <1>2, FloorOfNegative
<1>5. q \in Int
  <2> HIDE DEF d
  <2> QED
    BY <1>1, <1>2
<1> HIDE DEF z, q
<1>6. Bit(z + 1 * p, j) = Bit(z, j)
  BY <1>2, BitBelow
<1>7. \A k \in Int : (-1 - k) % 2 = 1 - (k % 2)
  OBVIOUS
<1> QED
  BY <1>3, <1>4, <1>5, <1>6, <1>7 DEF Bit, q

\* 2^n - 1 has ones below n.
LEMMA BitOfOnes ==
    ASSUME NEW n \in 0 .. MaxBitWidth, NEW j \in 0 .. MaxBitWidth
    PROVE  Bit(2 ^ n - 1, j) = IF j < n THEN 1 ELSE 0
<1>1. MaxBitWidth \in Nat /\ n \in Nat /\ j \in Nat /\ 2 ^ n \in Nat \ {0}
  BY MaxBitWidthAssumption, Powers
<1>2. 0 \in Values(n) /\ 2 ^ n - 1 \in Values(n) /\ bv_not(n, 0) = 2 ^ n - 1
  BY <1>1 DEF Values, bv_not
<1>3. CASE j < n
  <2>1. j \in 0 .. n - 1
    BY <1>1, <1>3
  <2>2. Bit(bv_not(n, 0), j) = 1 - Bit(0, j) /\ Bit(0, j) = 0
    BY <1>2, <2>1, BitOfNot, BitOfZero
  <2> QED
    BY <1>2, <1>3, <2>2
<1>4. CASE ~(j < n)
  <2>1. j \in n .. MaxBitWidth
    BY <1>1, <1>4
  <2> QED
    BY <1>1, <1>2, <1>4, <2>1, BitAbove
<1> QED
  BY <1>3, <1>4

LEMMA OnesShifted ==
    ASSUME NEW m \in 0 .. MaxBitWidth, NEW k \in 0 .. m
    PROVE  (2 ^ m - 1) \div 2 ^ (m - k) = 2 ^ k - 1
<1> DEFINE e == 2 ^ (m - k)
           c == 2 ^ k
<1>1. /\ m - k \in Nat /\ k \in Nat /\ k + (m - k) = m /\ k + (m - k) <= MaxBitWidth
      /\ m - k \in 0 .. MaxBitWidth + 1 /\ k \in 0 .. MaxBitWidth + 1
  BY MaxBitWidthAssumption
<1>2. 2 ^ (k + (m - k)) = c * e /\ c \in Nat \ {0} /\ e \in Nat \ {0}
  BY <1>1, PowerOfSum, Powers
<1>3. 2 ^ m = c * e
  BY <1>1, <1>2
<1> HIDE DEF c, e
<1>4. c * e - 1 = (c - 1) * e + (e - 1) /\ c * e - 1 \in Int /\ c - 1 \in Int /\ e - 1 \in 0 .. e - 1
  BY <1>2
<1>5. (c * e - 1) \div e = c - 1
  BY <1>2, <1>4, QuotientAndRest
<1> QED
  BY <1>3, <1>5 DEF c, e

LEMMA ConnectiveBits ==
    ASSUME NEW n \in 1 .. MaxBitWidth, NEW x \in Values(n), NEW y \in Values(n),
           NEW j \in 0 .. n - 1
    PROVE  LET p == Bit(x, j)
               q == Bit(y, j)
           IN  /\ p \in {0, 1} /\ q \in {0, 1}
               /\ Bit(bv_not(n, x), j) = 1 - p
               /\ Bit(bv_and(n, x, y), j) = p * q
               /\ Bit(bv_or(n, x, y), j) = p + q - p * q
               /\ Bit(bv_xor(n, x, y), j) = (p + q) % 2
               /\ Bit(bv_nand(n, x, y), j) = 1 - p * q
               /\ Bit(bv_nor(n, x, y), j) = 1 - (p + q - p * q)
               /\ Bit(bv_xnor(n, x, y), j) = 1 - ((p + q) % 2)
               /\ Bit(bv_implies(n, x, y), j) = (1 - p) + q - (1 - p) * q
<1>1. n \in 0 .. MaxBitWidth /\ x \in Nat /\ y \in Nat /\ j \in 0 .. MaxBitWidth
  BY ValuesOf, MaxBitWidthAssumption
<1>2. Bit(x, j) \in {0, 1} /\ Bit(y, j) \in {0, 1}
  BY <1>1, Bits
<1>3. /\ bv_not(n, x) \in Values(n) /\ bv_and(n, x, y) \in Values(n)
      /\ bv_or(n, x, y) \in Values(n) /\ bv_xor(n, x, y) \in Values(n)
  BY ArithmeticFits, BitwiseFits
<1>4. Bit(bv_xor(n, x, y), j) = (Bit(x, j) + Bit(y, j)) % 2
  BY BitOfXor
<1>5. /\ Bit(bv_or(n, x, y), j) = Bit(x, j) + Bit(y, j) - Bit(x, j) * Bit(y, j)
      /\ Bit(bv_and(n, x, y), j) = Bit(x, j) * Bit(y, j)
  BY BitOfOr
<1>6. /\ Bit(bv_nand(n, x, y), j) = 1 - Bit(bv_and(n, x, y), j)
      /\ Bit(bv_nor(n, x, y), j) = 1 - Bit(bv_or(n, x, y), j)
      /\ Bit(bv_xnor(n, x, y), j) = 1 - Bit(bv_xor(n, x, y), j)
      /\ Bit(bv_not(n, x), j) = 1 - Bit(x, j)
  BY <1>1, <1>3, BitOfNot DEF bv_nand, bv_nor, bv_xnor
<1>7. Bit(bv_implies(n, x, y), j) =
        Bit(bv_not(n, x), j) + Bit(y, j) - Bit(bv_not(n, x), j) * Bit(y, j)
  BY <1>3, BitOfOr DEF bv_implies
<1> QED
  BY <1>2, <1>4, <1>5, <1>6, <1>7

\* x with c for its bit p.
SetTo(x, p, c) == x + (c - Bit(x, p)) * 2 ^ p

LEMMA SetToBits ==
    ASSUME NEW n \in 1 .. MaxBitWidth, NEW x \in Values(n), NEW p \in 0 .. n - 1,
           NEW c \in {0, 1}
    PROVE  /\ SetTo(x, p, c) \in Values(n)
           /\ \A k \in 0 .. n - 1 : Bit(SetTo(x, p, c), k) = IF k = p THEN c ELSE Bit(x, k)
<1> DEFINE d == 2 ^ p
           q == x \div d
           l == x % d
           t == Bit(x, p)
           m == p + 1
           D == 2 ^ m
           h == x \div D
           y == SetTo(x, p, c)
<1>1. /\ n \in Nat /\ MaxBitWidth \in Nat /\ n <= MaxBitWidth /\ p \in Nat /\ x \in Nat
      /\ p \in 0 .. MaxBitWidth /\ m \in 0 .. MaxBitWidth /\ m \in Nat /\ m <= n
      /\ d \in Nat \ {0} /\ D \in Nat \ {0} /\ D = 2 * d /\ t \in {0, 1}
  <2>1. n \in Nat /\ MaxBitWidth \in Nat /\ p \in 0 .. MaxBitWidth /\ x \in Nat
        /\ p \in 0 .. MaxBitWidth + 1 /\ m \in 0 .. MaxBitWidth + 1 /\ m \in 0 .. MaxBitWidth
        /\ n <= MaxBitWidth /\ p \in Nat /\ m <= n
    BY ValuesOf, MaxBitWidthAssumption
  <2>2. d \in Nat \ {0} /\ D \in Nat \ {0} /\ D = 2 * d /\ t \in {0, 1}
    BY <2>1, Powers, PowersAssumption, Bits
  <2> QED
    BY <2>1, <2>2
<1>2. q \in Nat /\ l \in 0 .. d - 1 /\ x = q * d + l /\ t = q % 2 /\ h \in Nat /\ q = 2 * h + t
  <2>1. x \div d = 2 * (x \div (2 * d)) + ((x \div d) % 2) /\ x \div d \in Nat
        /\ x \div (2 * d) \in Nat
    <3> HIDE DEF d
    <3> QED
      BY <1>1, HalfOfQuotient
  <2>2. q \in Int /\ l \in 0 .. d - 1 /\ x = q * d + l
    <3>1. x \in Int
      BY <1>1
    <3> HIDE DEF d
    <3> QED
      BY <1>1, <3>1, Division
  <2>3. t = q % 2
    BY DEF Bit
  <2> QED
    BY <1>1, <2>1, <2>2, <2>3
<1>3. y = x + (c - t) * d
  BY DEF SetTo
<1> HIDE DEF d, D, q, l, t, h, y, m
<1>4. y = (2 * h + c) * d + l /\ 2 * h + c \in Nat
  <2> DEFINE g == 2 * h + c
             e == c - t
             qd == q * d
             gd == g * d
             bd == e * d
  <2>1. g \in Nat /\ e \in Int /\ g = q + e /\ q \in Int /\ d \in Int
    BY <1>1, <1>2
  <2>2. gd = qd + bd /\ qd \in Int /\ bd \in Int
    <3> HIDE DEF g, e
    <3>1. (q + e) * d = q * d + e * d
      BY <2>1
    <3> QED
      BY <2>1, <3>1
  <2>3. x = qd + l /\ y = x + bd /\ l \in Int
    <3>1. x = qd + l
      BY <1>2
    <3>2. y = x + bd
      BY <1>3
    <3>3. l \in Int
      <4>1. d \in Nat
        BY <1>1
      <4> QED
        BY <1>2, <4>1
    <3> QED
      BY <3>1, <3>2, <3>3
  <2> HIDE DEF qd, bd, gd
  <2>4. y = gd + l
    BY <2>2, <2>3
  <2> QED
    BY <2>1, <2>4 DEF gd
<1>5. y \in Nat /\ y \in Int
  BY <1>1, <1>2, <1>4
<1>6. y \div d = 2 * h + c
  <2> DEFINE g == 2 * h + c
  <2>1. g \in Int /\ y = g * d + l
    BY <1>4
  <2> HIDE DEF g
  <2>2. y \div d = g
    BY <1>1, <1>2, <1>5, <2>1, QuotientAndRest
  <2> QED
    BY <2>2 DEF g
<1>7. y \div D = h /\ c * d + l \in 0 .. D - 1 /\ y = h * D + (c * d + l)
  <2>1. c * d + l \in 0 .. D - 1
    <3>1. CASE c = 0
      BY <1>1, <1>2, <3>1
    <3>2. CASE c = 1
      BY <1>1, <1>2, <3>2
    <3> QED
      BY <3>1, <3>2
  <2>2. (2 * h + c) * d = h * D + c * d /\ h * D \in Int /\ c * d \in Int
    BY <1>1, <1>2
  <2>3. y = h * D + (c * d + l)
    BY <1>2, <1>4, <2>2
  <2> QED
    BY <1>1, <1>2, <1>5, <2>1, <2>3, QuotientAndRest
<1>8. y \in Values(n)
  <2> DEFINE k == n - m
             e == 2 ^ k
             P == 2 ^ n
  <2>1. k \in Nat /\ m + k = n /\ m + k <= MaxBitWidth /\ k \in 0 .. MaxBitWidth + 1
    BY <1>1
  <2>2. P = D * e /\ e \in Nat \ {0}
    BY <1>1, <2>1, PowerOfSum, Powers DEF D
  <2>3. x < P
    BY DEF Values
  <2> HIDE DEF k, e, P
  <2>4. h < e
    <3>1. h * D <= x
      <4>1. h = x \div D /\ x \in Int
        BY <1>1 DEF h
      <4>2. x % D \in 0 .. D - 1 /\ x = (x \div D) * D + (x % D)
        BY <1>1, <4>1, Division
      <4>3. h * D \in Int
        BY <1>1, <1>2
      <4> QED
        BY <4>1, <4>2, <4>3
    <3>2. e <= h => e * D <= h * D
      BY <1>1, <1>2, <2>2
    <3>3. e * D = D * e /\ e * D \in Int /\ h * D \in Int
      BY <1>1, <1>2, <2>2
    <3> QED
      BY <1>1, <1>2, <2>2, <2>3, <3>1, <3>2, <3>3
  <2>5. h * D + D <= e * D
    BY <1>1, <1>2, <2>2, <2>4, ProductGrows
  <2>6. h * D \in Int /\ e * D = P /\ P \in Int
    BY <1>1, <1>2, <2>2
  <2>7. y < P
    BY <1>1, <1>7, <2>5, <2>6
  <2> QED
    BY <1>5, <2>7, <2>6 DEF Values, P
<1>9. ASSUME NEW k \in 0 .. n - 1 PROVE Bit(y, k) = IF k = p THEN c ELSE Bit(x, k)
  <2>1. CASE k = p
    <3>1. (2 * h + c) % 2 = c
      BY <1>2
    <3> QED
      BY <1>6, <2>1, <3>1 DEF Bit, d
  <2>2. CASE k < p
    <3>1. k \in 0 .. p - 1 /\ x \in Int /\ c - t \in Int
      BY <1>1, <2>2
    <3>2. Bit(x + (c - t) * 2 ^ p, k) = Bit(x, k)
      BY <1>1, <3>1, BitBelow
    <3> QED
      BY <1>1, <1>3, <2>2, <3>2 DEF d
  <2>3. CASE ~(k = p) /\ ~(k < p)
    <3> DEFINE s == k - m
    <3>1. s \in Nat /\ s + m = k /\ s + m <= MaxBitWidth /\ x \in Int /\ k # p
      BY <1>1, <2>3 DEF m
    <3> HIDE DEF s
    <3>2. \A z \in Int : Bit(z \div D, s) = Bit(z, k)
      BY <1>1, <3>1, BitOfQuotient DEF D
    <3>3. Bit(y \div D, s) = Bit(y, k) /\ Bit(x \div D, s) = Bit(x, k)
      BY <1>5, <3>1, <3>2
    <3> QED
      BY <1>7, <3>1, <3>3 DEF h
  <2> QED
    BY <2>1, <2>2, <2>3
<1> QED
  BY <1>8, <1>9 DEF y

LEMMA HighPartFits ==
    ASSUME NEW n \in 0 .. MaxBitWidth, NEW m \in Nat, m <= MaxBitWidth, NEW x \in Values(n)
    PROVE  /\ x \div 2 ^ m \in Nat
           /\ m <= n => n - m \in 0 .. MaxBitWidth /\ x \div 2 ^ m \in Values(n - m)
           /\ n <= m => x \div 2 ^ m = 0
<1> DEFINE d == 2 ^ m
           p == 2 ^ n
           q == x \div d
<1>1. /\ MaxBitWidth \in Nat /\ n \in Nat /\ n <= MaxBitWidth
      /\ m \in 0 .. MaxBitWidth + 1 /\ n \in 0 .. MaxBitWidth + 1
  BY MaxBitWidthAssumption
<1>2. x \in Nat /\ x < p /\ d \in Nat \ {0} /\ p \in Nat \ {0}
  BY <1>1, ValuesOf, Powers DEF Values
<1>3. q \in Nat /\ q * d <= x /\ q * d \in Nat
  <2>1. x \in Int /\ x \div d \in Nat
    <3>1. x \in Nat /\ d \in Nat \ {0}
      BY <1>2
    <3> HIDE DEF d
    <3>2. x \div d \in Nat
      BY <3>1, HalfOfQuotient
    <3> QED
      BY <3>1, <3>2
  <2>2. x % d \in 0 .. d - 1 /\ x = (x \div d) * d + (x % d)
    <3> HIDE DEF d
    <3> QED
      BY <1>2, <2>1, Division
  <2>3. q * d \in Nat
    BY <1>2, <2>1
  <2> QED
    BY <1>2, <2>1, <2>2, <2>3
<1>4. ASSUME m <= n PROVE n - m \in 0 .. MaxBitWidth /\ q \in Values(n - m)
  <2> DEFINE k == n - m
             e == 2 ^ k
  <2>1. k \in Nat /\ k + m = n /\ k + m <= MaxBitWidth /\ k \in 0 .. MaxBitWidth + 1
        /\ k \in 0 .. MaxBitWidth
    BY <1>1, <1>4
  <2>2. p = e * d /\ e \in Nat \ {0}
    <3> HIDE DEF k
    <3> QED
      BY <2>1, PowerOfSum, Powers
  <2> HIDE DEF d, e, q, p, k
  <2>3. q < e
    <3>1. e * d \in Nat /\ (e < q => e * d + d <= q * d) /\ (e = q => e * d = q * d)
      BY <1>2, <1>3, <2>2, ProductGrows
    <3> QED
      BY <1>2, <1>3, <2>2, <3>1
  <2>4. q \in Values(k)
    BY <1>3, <2>2, <2>3 DEF Values, e
  <2> QED
    BY <2>1, <2>4 DEF k
<1>5. ASSUME n <= m PROVE q = 0
  <2> DEFINE k == m - n
             e == 2 ^ k
  <2>1. k \in Nat /\ n + k = m /\ n + k <= MaxBitWidth /\ k \in 0 .. MaxBitWidth + 1
    BY <1>1, <1>5
  <2>2. d = p * e /\ e \in Nat \ {0}
    <3> HIDE DEF k
    <3>1. 2 ^ (n + k) = 2 ^ n * 2 ^ k
      BY <1>1, <2>1, PowerOfSum
    <3>2. e \in Nat \ {0}
      BY <2>1, Powers
    <3> QED
      BY <2>1, <3>1, <3>2
  <2> HIDE DEF e, p
  <2>3. p <= p * e
    BY <1>2, <2>2
  <2> HIDE DEF d
  <2>4. x \in 0 .. d - 1 /\ x = 0 * d + x /\ x \in Int
    BY <1>2, <2>2, <2>3
  <2> QED
    BY <1>2, <2>4, QuotientAndRest
<1> QED
  BY <1>3, <1>4, <1>5

LEMMA ZerosAbove ==
    ASSUME NEW n \in 1 .. MaxBitWidth, NEW x \in Values(n), NEW m \in 0 .. n
    PROVE  (\A j \in m .. n - 1 : Bit(x, j) = 0) <=> x < 2 ^ m
<1> DEFINE d == 2 ^ m
           q == x \div d
<1>1. /\ MaxBitWidth \in Nat /\ n \in Nat /\ n <= MaxBitWidth /\ m \in Nat /\ m <= MaxBitWidth
      /\ m \in 0 .. MaxBitWidth /\ m \in 0 .. MaxBitWidth + 1 /\ m <= n /\ n \in 0 .. MaxBitWidth
  BY MaxBitWidthAssumption
<1>2. x \in Nat /\ x \in Int /\ d \in Nat \ {0}
  BY <1>1, ValuesOf, Powers
<1>3. ASSUME x < d PROVE \A j \in m .. n - 1 : Bit(x, j) = 0
  <2>1. x \in Values(m)
    BY <1>2, <1>3 DEF Values
  <2>2. \A j \in m .. n - 1 : j \in m .. MaxBitWidth
    BY <1>1
  <2> QED
    BY <1>1, <2>1, <2>2, BitAbove
<1>4. ASSUME \A j \in m .. n - 1 : Bit(x, j) = 0 PROVE x < d
  <2> DEFINE k == n - m
  <2>1. k \in 0 .. MaxBitWidth /\ q \in Values(k)
    BY <1>1, HighPartFits
  <2>2. 0 \in Values(k)
    <3>1. k \in 0 .. MaxBitWidth + 1
      BY <1>1
    <3> HIDE DEF k
    <3>2. 2 ^ k \in Nat \ {0}
      BY <3>1, Powers
    <3> QED
      BY <3>2 DEF Values
  <2>3. ASSUME NEW j \in 0 .. k - 1 PROVE Bit(q, j) = Bit(0, j)
    <3>1. j \in Nat /\ j + m <= MaxBitWidth /\ j + m \in m .. n - 1 /\ j \in 0 .. MaxBitWidth
      BY <1>1
    <3>2. Bit(q, j) = Bit(x, j + m)
      BY <1>1, <1>2, <3>1, BitOfQuotient
    <3> QED
      BY <1>4, <3>1, <3>2, BitOfZero
  <2> HIDE DEF k, q
  <2>4. q = 0
    BY <2>1, <2>2, <2>3, BitsDetermine
  <2>5. x % d \in 0 .. d - 1 /\ x = q * d + (x % d)
    <3> HIDE DEF d
    <3> QED
      BY <1>2, Division DEF q
  <2> HIDE DEF d
  <2> QED
    BY <1>2, <2>4, <2>5
<1> QED
  BY <1>3, <1>4

LEMMA ZerosBelow ==
    ASSUME NEW n \in 1 .. MaxBitWidth, NEW x \in Values(n), NEW m \in 0 .. n
    PROVE  (\A j \in 0 .. m - 1 : Bit(x, j) = 0) <=> x % 2 ^ m = 0
<1> DEFINE d == 2 ^ m
           r == x % d
<1>1. /\ MaxBitWidth \in Nat /\ m \in 0 .. MaxBitWidth /\ m \in 0 .. MaxBitWidth + 1
      /\ m \in Nat
  BY MaxBitWidthAssumption
<1>2. x \in Int /\ d \in Nat \ {0}
  BY <1>1, ValuesOf, Powers
<1>3. r \in 0 .. d - 1
  <2> HIDE DEF d
  <2> QED
    BY <1>2, Division
<1>4. r \in Values(m) /\ 0 \in Values(m)
  BY <1>2, <1>3 DEF Values
<1>5. \A j \in 0 .. m - 1 : Bit(r, j) = Bit(x, j) /\ Bit(0, j) = 0
  <2> TAKE j \in 0 .. m - 1
  <2>1. j \in 0 .. MaxBitWidth
    BY <1>1
  <2> QED
    BY <1>1, <1>2, <2>1, BitOfRest, BitOfZero
<1> HIDE DEF r
<1>6. ASSUME \A j \in 0 .. m - 1 : Bit(x, j) = 0 PROVE r = 0
  BY <1>1, <1>4, <1>5, <1>6, BitsDetermine
<1>7. r = 0 => \A j \in 0 .. m - 1 : Bit(x, j) = 0
  BY <1>5
<1> QED
  BY <1>6, <1>7 DEF r

\* A power of two has one bit.
LEMMA BitOfPower ==
    ASSUME NEW n \in 1 .. MaxBitWidth, NEW i \in 0 .. n - 1
    PROVE  /\ 2 ^ i \in Values(n)
           /\ \A j \in 0 .. n - 1 : Bit(2 ^ i, j) = IF j = i THEN 1 ELSE 0
<1>1. 0 \in Values(n) /\ MaxBitWidth \in Nat /\ n \in Nat
  BY ValuesOf, MaxBitWidthAssumption
<1>2. i \in 0 .. MaxBitWidth /\ i \in 0 .. MaxBitWidth + 1 /\ \A j \in 0 .. n - 1 : j \in 0 .. MaxBitWidth
  BY <1>1
<1>3. 2 ^ i \in Nat /\ Bit(0, i) = 0
  BY <1>2, Powers, BitOfZero
<1>4. SetTo(0, i, 1) = 2 ^ i
  BY <1>3 DEF SetTo
<1>5. /\ SetTo(0, i, 1) \in Values(n)
      /\ \A j \in 0 .. n - 1 : Bit(SetTo(0, i, 1), j) = IF j = i THEN 1 ELSE Bit(0, j)
  BY <1>1, SetToBits
<1> QED
  BY <1>2, <1>4, <1>5, BitOfZero

\* A negative number of DoubleBits bits has ones in all places above.
LEMMA OnesAbove ==
    ASSUME NEW n \in 0 .. MaxBitWidth, NEW m \in 0 .. n, NEW x \in Values(n),
           x >= 2 ^ n - 2 ^ m, NEW j \in m .. n - 1
    PROVE  Bit(x, j) = 1
<1> DEFINE z == bv_not(n, x)
           d == 2 ^ n
           e == 2 ^ m
<1>1. MaxBitWidth \in Nat /\ n \in Nat /\ m \in Nat /\ m \in 0 .. MaxBitWidth
      /\ j \in 0 .. n - 1 /\ j \in m .. MaxBitWidth
  BY MaxBitWidthAssumption
<1>2. d \in Nat \ {0} /\ e \in Nat \ {0} /\ x \in 0 .. d - 1
  BY <1>1, PowerIs DEF Values
<1>3. z = d - 1 - x
  BY DEF bv_not
<1>4. z \in 0 .. e - 1
  <2>1. x >= d - e
    OBVIOUS
  <2> HIDE DEF z, d, e
  <2> QED
    BY <1>2, <1>3, <2>1
<1>5. Bit(z, j) = 0
  <2>1. z \in Values(m)
    BY <1>4 DEF Values
  <2> HIDE DEF z
  <2> QED
    BY <1>1, <2>1, BitAbove
<1>6. Bit(z, j) = 1 - Bit(x, j)
  BY <1>1, BitOfNot
<1>7. Bit(x, j) \in {0, 1}
  <2>1. x \in Nat /\ j \in 0 .. MaxBitWidth
    BY <1>1, <1>2
  <2> QED
    BY <2>1, Bits
<1> HIDE DEF z
<1> QED
  BY <1>5, <1>6, <1>7

----------------------------------------------------------------------------
(* Numbers cut to a width, and one bit more of a product or a quotient.    *)

LEMMA RestOfRest ==
    ASSUME NEW n \in Nat, NEW m \in Nat, n <= m, m <= MaxBitWidth, NEW z \in Int
    PROVE  (z % 2 ^ m) % 2 ^ n = z % 2 ^ n
<1> DEFINE k == m - n
           c == 2 ^ n
           e == 2 ^ k
           d == 2 ^ m
           q == z \div d
           r == z % d
           q2 == r \div c
           r2 == r % c
<1>1. /\ MaxBitWidth \in Nat /\ k \in Nat /\ n + k = m /\ n + k <= MaxBitWidth
      /\ k \in 0 .. MaxBitWidth + 1 /\ n \in 0 .. MaxBitWidth + 1 /\ m \in 0 .. MaxBitWidth + 1
  BY MaxBitWidthAssumption
<1>2. c \in Nat \ {0} /\ e \in Nat \ {0} /\ d \in Nat \ {0}
  <2> HIDE DEF k
  <2> QED
    BY <1>1, Powers
<1>3. d = c * e
  <2> HIDE DEF k
  <2>1. 2 ^ (n + k) = 2 ^ n * 2 ^ k
    BY <1>1, PowerOfSum
  <2> QED
    BY <1>1, <2>1
<1> HIDE DEF c, d, e
<1>4. q \in Int /\ r \in Int /\ z = q * d + r
  BY <1>2, Division
<1> HIDE DEF q, r
<1>5. q2 \in Int /\ r2 \in 0 .. c - 1 /\ r = q2 * c + r2
  BY <1>2, <1>4, Division
<1> HIDE DEF q2, r2
<1>6. q * (c * e) = (q * e) * c /\ q * e \in Int /\ (q * e) * c \in Int
  BY <1>2, <1>4
<1> DEFINE p == q * e
<1>7. p \in Int /\ q * d = p * c
  BY <1>3, <1>6
<1> HIDE DEF p
<1>8. p * c + q2 * c = (p + q2) * c /\ p + q2 \in Int
  BY <1>2, <1>5, <1>7
<1>9. z = (p + q2) * c + r2
  <2>1. p * c \in Int /\ q2 * c \in Int /\ r2 \in Int
    BY <1>2, <1>5, <1>7
  <2> QED
    BY <1>4, <1>5, <1>7, <1>8, <2>1
<1>10. z % c = r2
  BY <1>2, <1>5, <1>8, <1>9, QuotientAndRest
<1> QED
  BY <1>10 DEF r2, r, c, d

LEMMA RestFits ==
    ASSUME NEW n \in 0 .. MaxBitWidth, NEW z \in Int
    PROVE  z % 2 ^ n \in Values(n) /\ z % 2 ^ n \in Nat
<1> DEFINE d == 2 ^ n
<1>1. d \in Nat \ {0}
  <2>1. n \in 0 .. MaxBitWidth + 1
    BY MaxBitWidthAssumption
  <2> QED
    BY <2>1, Powers
<1>2. z % d \in 0 .. d - 1
  <2> HIDE DEF d
  <2> QED
    BY <1>1, Division
<1> QED
  BY <1>1, <1>2 DEF Values

LEMMA RestOfValue ==
    ASSUME NEW n \in 0 .. MaxBitWidth, NEW x \in Values(n)
    PROVE  x % 2 ^ n = x
<1> DEFINE d == 2 ^ n
<1>1. d \in Nat \ {0}
  <2>1. n \in 0 .. MaxBitWidth + 1
    BY MaxBitWidthAssumption
  <2> QED
    BY <2>1, Powers
<1>2. x \in 0 .. d - 1
  BY DEF Values
<1> HIDE DEF d
<1>3. x % d = x
  BY <1>1, <1>2, RestNearby
<1> QED
  BY <1>3 DEF d

LEMMA QuotientInPowers ==
    ASSUME NEW z \in Int, NEW p \in 0 .. MaxBitWidth
    PROVE  /\ 2 ^ p \in Nat \ {0} /\ z \div 2 ^ p \in Int
           /\ z % 2 ^ p \in 0 .. 2 ^ p - 1 /\ z = (z \div 2 ^ p) * 2 ^ p + (z % 2 ^ p)
<1> DEFINE d == 2 ^ p
<1>1. d \in Nat \ {0}
  <2>1. p \in 0 .. MaxBitWidth + 1
    BY MaxBitWidthAssumption
  <2> QED
    BY <2>1, Powers
<1> HIDE DEF d
<1>2. z \div d \in Int /\ z % d \in 0 .. d - 1 /\ z = (z \div d) * d + (z % d)
  BY <1>1, Division
<1> QED
  BY <1>1, <1>2 DEF d

LEMMA RestOfSum ==
    ASSUME NEW d \in Nat \ {0}, NEW y \in Int, NEW z \in Int
    PROVE  ((y % d) + (z % d)) % d = (y + z) % d
<1> DEFINE q == y \div d
           r == y % d
           s == z \div d
           t == z % d
           u == (r + t) \div d
           v == (r + t) % d
<1>1. q \in Int /\ r \in 0 .. d - 1 /\ y = q * d + r /\ s \in Int /\ t \in 0 .. d - 1 /\ z = s * d + t
  BY Division
<1> HIDE DEF q, r, s, t
<1>2. r + t \in Int
  BY <1>1
<1>3. u \in Int /\ v \in 0 .. d - 1 /\ r + t = u * d + v
  BY <1>2, Division
<1> HIDE DEF u, v
<1>4. (q + s + u) * d = q * d + s * d + u * d /\ q + s + u \in Int
  BY <1>1, <1>3
<1> DEFINE qd == q * d
           sd == s * d
           ud == u * d
           all == (q + s + u) * d
<1>5. qd \in Int /\ sd \in Int /\ ud \in Int /\ all = qd + sd + ud
  BY <1>1, <1>3, <1>4
<1>6. y = qd + r /\ z = sd + t /\ r + t = ud + v /\ r \in Int /\ t \in Int /\ v \in Int
  BY <1>1, <1>3
<1> HIDE DEF qd, sd, ud, all
<1>7. y + z = all + v /\ y + z \in Int
  BY <1>5, <1>6
<1>8. (y + z) % d = v
  BY <1>3, <1>4, <1>7, QuotientAndRest DEF all
<1> QED
  BY <1>8 DEF v, r, t

\* One more bit of a number.
LEMMA OneMoreBit ==
    ASSUME NEW y \in Nat, NEW i \in Nat, i + 1 <= MaxBitWidth
    PROVE  /\ y % 2 ^ (i + 1) = (y % 2 ^ i) + Bit(y, i) * 2 ^ i
           /\ y \div 2 ^ i = 2 * (y \div 2 ^ (i + 1)) + Bit(y, i)
           /\ y \div 2 ^ (i + 1) \in Nat /\ y % 2 ^ i \in Nat /\ Bit(y, i) \in {0, 1}
<1> DEFINE d == 2 ^ i
           e == 2 ^ (i + 1)
           h == y \div (2 * d)
           q == y \div d
           c == q % 2
           r == y % d
<1>1. i \in 0 .. MaxBitWidth /\ d \in Nat \ {0} /\ e = 2 * d
  <2>1. i \in 0 .. MaxBitWidth
    BY MaxBitWidthAssumption
  <2> QED
    BY <2>1, PowerIs, PowersAssumption
<1> HIDE DEF d, e
<1>2. q \in Nat /\ h \in Nat /\ q = 2 * h + c
  BY <1>1, HalfOfQuotient
<1>3. r \in 0 .. d - 1 /\ y = q * d + r
  <2>1. y \in Int
    OBVIOUS
  <2> QED
    BY <1>1, <2>1, Division
<1>4. c \in {0, 1} /\ 2 * d \in Nat \ {0}
  <2> HIDE DEF q
  <2> QED
    BY <1>1, <1>2
<1> HIDE DEF q, h, c, r
<1>5. c * d + r \in 0 .. 2 * d - 1 /\ c * d \in Nat /\ r \in Nat
  <2>1. CASE c = 0
    BY <1>1, <1>3, <2>1
  <2>2. CASE c = 1
    BY <1>1, <1>3, <2>2
  <2> QED
    BY <1>4, <2>1, <2>2
<1>6. y = h * (2 * d) + (c * d + r)
  <2>1. (2 * h + c) * d = h * (2 * d) + c * d /\ h * (2 * d) \in Int
    BY <1>1, <1>2, <1>4
  <2>2. q * d = (2 * h + c) * d
    BY <1>2
  <2> DEFINE qd == q * d
             cd == c * d
             hd == h * (2 * d)
  <2>3. y = qd + r /\ qd = hd + cd /\ hd \in Int /\ cd \in Int /\ r \in Int
    BY <1>3, <1>5, <2>1, <2>2
  <2> HIDE DEF qd, cd, hd
  <2>4. y = hd + (cd + r)
    BY <2>3
  <2> QED
    BY <2>4 DEF hd, cd
<1>7. y % (2 * d) = c * d + r
  <2> DEFINE D == 2 * d
             R == c * d + r
  <2>1. y = h * D + R /\ D \in Nat \ {0} /\ R \in 0 .. D - 1 /\ y \in Int /\ h \in Int
    BY <1>2, <1>4, <1>5, <1>6
  <2> HIDE DEF D, R
  <2>2. y % D = R
    BY <2>1, QuotientAndRest
  <2> QED
    BY <2>2 DEF D, R
<1>8. Bit(y, i) = c
  BY DEF Bit, c, q, d
<1>9. y % e = r + c * d
  BY <1>1, <1>5, <1>7
<1>10. y \div e = h
  BY <1>1 DEF h
<1> QED
  BY <1>2, <1>4, <1>5, <1>8, <1>9, <1>10 DEF d, e, q, r

\* A round on numbers: with the next lower bit the divisor is contained once more
\* or it is not.  By the code's convention zero is always contained once more.
LEMMA DivisionRound ==
    ASSUME NEW k \in Nat, k + 1 <= MaxBitWidth, NEW h \in Values(k), NEW c \in {0, 1},
           NEW y \in Nat
    PROVE  LET r == 2 * bv_urem(k, h, y) + c
               q == 2 * bv_udiv(k, h, y)
           IN  /\ bv_urem(k, h, y) \in Nat /\ bv_udiv(k, h, y) \in Nat
               /\ r <= 2 * h + c /\ bv_udiv(k, h, y) \in Values(k)
               /\ y <= r => /\ bv_udiv(k + 1, 2 * h + c, y) = q + 1
                            /\ bv_urem(k + 1, 2 * h + c, y) = r - y
               /\ ~(y <= r) => /\ bv_udiv(k + 1, 2 * h + c, y) = q
                               /\ bv_urem(k + 1, 2 * h + c, y) = r
<1> DEFINE s == bv_urem(k, h, y)
           p == bv_udiv(k, h, y)
           r == 2 * s + c
           x == 2 * h + c
           d == 2 ^ k
<1>1. k \in 0 .. MaxBitWidth /\ d \in Nat \ {0} /\ 2 ^ (k + 1) = 2 * d
  <2>1. k \in 0 .. MaxBitWidth
    BY MaxBitWidthAssumption
  <2> QED
    BY <2>1, PowerIs, PowersAssumption
<1>2. h \in Nat /\ h \in 0 .. d - 1 /\ x \in Nat /\ x \in Int
  BY <1>1 DEF Values
<1>3. CASE y = 0
  <2>1. p = d - 1 /\ s = h
    BY <1>3 DEF bv_udiv, bv_urem
  <2>2. bv_udiv(k + 1, x, y) = 2 * d - 1 /\ bv_urem(k + 1, x, y) = x
    BY <1>1, <1>3 DEF bv_udiv, bv_urem
  <2>3. d - 1 \in Values(k)
    BY <1>1 DEF Values
  <2>4. r = x /\ y <= r /\ 2 * d - 1 = 2 * (d - 1) + 1 /\ r - y = x /\ d - 1 \in Nat
    <3> HIDE DEF d
    <3> QED
      BY <1>1, <1>2, <1>3, <2>1
  <2> HIDE DEF d, s, p, x
  <2> QED
    BY <1>2, <2>1, <2>2, <2>3, <2>4 DEF s, p, x
<1>4. CASE y # 0
  <2>1. y \in Nat \ {0} /\ h \in Int
    BY <1>2, <1>4
  <2>2. p = h \div y /\ s = h % y
    BY <1>4 DEF bv_udiv, bv_urem
  <2>3. p \in Nat /\ s \in 0 .. y - 1 /\ h = p * y + s /\ p <= h /\ s <= h
    <3>1. h \div y \in 0 .. h /\ h % y \in 0 .. h
      BY <1>2, <2>1, DivMod
    <3>2. h % y \in 0 .. y - 1 /\ h = (h \div y) * y + (h % y)
      BY <2>1, Division
    <3> HIDE DEF p, s
    <3> QED
      BY <1>2, <2>2, <3>1, <3>2
  <2>4. p \in Values(k)
    <3> HIDE DEF p, d
    <3> QED
      BY <1>1, <1>2, <2>3 DEF Values, d
  <2>5. bv_udiv(k + 1, x, y) = x \div y /\ bv_urem(k + 1, x, y) = x % y
    BY <1>4 DEF bv_udiv, bv_urem
  <2> HIDE DEF p, s
  <2>6. s \in Nat /\ r \in Nat /\ r <= x /\ r <= 2 * y - 1
    BY <1>2, <2>1, <2>3
  <2>7. x = (2 * p) * y + r
    <3> DEFINE e == p * y
    <3>1. (2 * p) * y = 2 * e /\ e \in Int
      BY <2>1, <2>3
    <3>2. h = e + s
      BY <2>3
    <3> HIDE DEF e
    <3>3. x = 2 * e + r
      BY <1>2, <2>6, <3>1, <3>2
    <3> QED
      BY <3>1, <3>3
  <2> HIDE DEF r, x
  <2>8. CASE y <= r
    <3> DEFINE q == 2 * p + 1
               t == r - y
    <3>1. q \in Int /\ t \in 0 .. y - 1
      BY <2>1, <2>3, <2>6, <2>8
    <3>2. x = q * y + t
      <4> DEFINE e == (2 * p) * y
      <4>1. q * y = e + y /\ e \in Int
        BY <2>1, <2>3
      <4>2. x = e + r
        BY <2>7
      <4> HIDE DEF e, q
      <4> QED
        BY <2>1, <2>6, <4>1, <4>2
    <3> HIDE DEF q, t
    <3>3. x \div y = q /\ x % y = t
      BY <1>2, <2>1, <3>1, <3>2, QuotientAndRest
    <3> QED
      BY <2>3, <2>4, <2>5, <2>6, <2>8, <3>3 DEF q, t, r, x, p, s
  <2>9. CASE ~(y <= r)
    <3> DEFINE q == 2 * p
    <3>1. q \in Int /\ r \in 0 .. y - 1 /\ x = q * y + r
      BY <2>1, <2>3, <2>6, <2>7, <2>9
    <3> HIDE DEF q
    <3>2. x \div y = q /\ x % y = r
      BY <1>2, <2>1, <3>1, QuotientAndRest
    <3> QED
      BY <2>3, <2>4, <2>5, <2>6, <2>9, <3>2 DEF q, r, x, p, s
  <2> QED
    BY <2>8, <2>9
<1> QED
  BY <1>3, <1>4

\* The bits of a concatenation.
LEMMA BitOfConcat ==
    ASSUME NEW n \in Nat, NEW m \in Nat, n + m <= MaxBitWidth, NEW x \in Values(n), NEW y \in Values(m),
           NEW u \in 0 .. MaxBitWidth
    PROVE  Bit(bv_concat(m, x, y), u) = IF u < m THEN Bit(y, u) ELSE Bit(x, u - m)
<1> DEFINE c == bv_concat(m, x, y)
           e == 2 ^ m
           d == 2 ^ n
<1>1. /\ MaxBitWidth \in Nat /\ n \in 0 .. MaxBitWidth /\ m \in 0 .. MaxBitWidth
  BY MaxBitWidthAssumption
<1>2. e \in Nat \ {0} /\ d \in Nat \ {0} /\ x \in 0 .. d - 1 /\ y \in 0 .. e - 1
  BY <1>1, PowerIs DEF Values
<1>3. c = x * e + y
  BY DEF bv_concat
<1> HIDE DEF c, d, e
<1>4. x \in Int /\ y \in Int /\ x \in Nat /\ c \in Int
  BY <1>2, <1>3
<1>5. CASE u < m
  <2>1. c = y + x * e
    BY <1>2, <1>3, <1>4
  <2>2. u \in 0 .. m - 1
    BY <1>1, <1>5
  <2>3. Bit(y + x * 2 ^ m, u) = Bit(y, u)
    BY <1>1, <1>4, <2>2, BitBelow
  <2> QED
    BY <1>5, <2>1, <2>3 DEF c, e
<1>6. CASE ~(u < m)
  <2>1. c \div e = x
    BY <1>2, <1>3, <1>4, QuotientAndRest
  <2>2. u - m \in Nat /\ (u - m) + m = u /\ u <= MaxBitWidth
    BY <1>1, <1>6
  <2>3. Bit(c \div 2 ^ m, u - m) = Bit(c, (u - m) + m)
    <3> DEFINE v == u - m
    <3>1. v \in Nat /\ v + m <= MaxBitWidth
      BY <1>1, <2>2
    <3> HIDE DEF v
    <3> QED
      BY <1>4, <3>1, BitOfQuotient DEF v
  <2> QED
    BY <1>6, <2>1, <2>2, <2>3 DEF c, e
<1> QED
  BY <1>5, <1>6

----------------------------------------------------------------------------
(* Loops, and the sequences they fill.                                     *)

Built(n, f) == [width |-> n, bits |-> f]

LEMMA AsTuple ==
    ASSUME NEW m \in Nat, NEW S, NEW f \in [1 .. m -> S]
    PROVE  <<>> \o f = f /\ f \in Seq(S) /\ Len(f) = m /\ DOMAIN f = 1 .. m
<1>1. f \in Seq(S) /\ Len(f) = m
  OBVIOUS
<1>2. <<>> \o f = f
  BY <1>1, ConcatEmptySeq
<1> QED
  BY <1>1, <1>2

\* What the rounds of a loop compute, if each does from what the last one has.
LEMMA LoopComputes ==
    ASSUME NEW m \in Nat, NEW f, NEW g, f[0] = g[0],
           \A k \in 1 .. m : f[k - 1] = g[k - 1] => f[k] = g[k]
    PROVE  \A k \in 0 .. m : f[k] = g[k]
<1> DEFINE bad == {k \in 0 .. m : f[k] # g[k]}
<1>1. ASSUME bad # {} PROVE FALSE
  <2>1. PICK k \in bad : \A j \in bad : k <= j
    <3>1. bad \in SUBSET Nat
      OBVIOUS
    <3> HIDE DEF bad
    <3> QED
      BY <1>1, <3>1, LeastNumber
  <2>2. k \in 1 .. m /\ k - 1 \in 0 .. m /\ ~(k <= k - 1)
    BY <2>1
  <2>3. f[k - 1] = g[k - 1]
    BY <2>1, <2>2
  <2> QED
    BY <2>1, <2>2, <2>3
<1> QED
  BY <1>1

\* Two loops that start alike, and whose rounds do.
SameRounds(f, g, m) == m \in Nat /\ f[0] = g[0] /\ \A k \in 1 .. m : f[k - 1] = g[k - 1] => f[k] = g[k]

LEMMA RoundsAgree ==
    ASSUME NEW m, NEW f, NEW g, SameRounds(f, g, m)
    PROVE  \A k \in 0 .. m : f[k] = g[k]
<1>1. m \in Nat /\ f[0] = g[0] /\ \A k \in 1 .. m : f[k - 1] = g[k - 1] => f[k] = g[k]
  BY DEF SameRounds
<1> QED
  BY <1>1, LoopComputes

\* A property that holds first and is kept by every round holds after all.
LEMMA LoopKeeps ==
    ASSUME NEW m \in Nat, NEW P, P[0] = TRUE,
           \A k \in 1 .. m : P[k - 1] = TRUE => P[k] = TRUE
    PROVE  \A k \in 0 .. m : P[k] = TRUE
<1> DEFINE v == [k \in 0 .. m |-> TRUE]
<1>1. P[0] = v[0]
  <2>1. 0 \in 0 .. m
    OBVIOUS
  <2>2. v[0] = TRUE
    BY <2>1
  <2> QED
    BY <2>2
<1>2. \A k \in 1 .. m : P[k - 1] = v[k - 1] => P[k] = v[k]
  <2> TAKE k \in 1 .. m
  <2>1. k - 1 \in 0 .. m /\ k \in 0 .. m
    OBVIOUS
  <2> QED
    BY <2>1
<1>3. \A k \in 0 .. m : P[k] = v[k]
  <2> HIDE DEF v
  <2> QED
    BY <1>1, <1>2, LoopComputes
<1> QED
  BY <1>3

\* There is the sequence f of what a loop has after each of m rounds: G[s] after one
\* that starts with s.
Loop(S, G, s0)        == s0 \in S /\ \A s \in S : G[s] \in S

LoopRun(S, G, s0, m, f) ==
    /\ f \in [0 .. m -> S] /\ f[0] = s0
    /\ \A k \in 1 .. m : f[k] = G[f[k - 1]]

LEMMA LoopRuns ==
    ASSUME NEW m \in Nat, NEW S, NEW G, NEW s0, Loop(S, G, s0)
    PROVE  \E f : LoopRun(S, G, s0, m, f)
<1> DEFINE Runs(f, j) == /\ f \in [0 .. j -> S] /\ f[0] = s0
                         /\ \A k \in 1 .. j : f[k] = G[f[k - 1]]
           bad == {j \in Nat : ~\E f : Runs(f, j)}
<1>0. s0 \in S /\ \A s \in S : G[s] \in S
  BY DEF Loop
<1>1. ASSUME bad # {} PROVE FALSE
  <2>1. PICK j \in bad : \A i \in bad : j <= i
    <3>1. bad \in SUBSET Nat
      OBVIOUS
    <3> HIDE DEF bad
    <3> QED
      BY <1>1, <3>1, LeastNumber
  <2>2. j \in Nat /\ ~\E f : Runs(f, j)
    OBVIOUS
  <2>3. CASE j = 0
    <3> DEFINE f == [i \in 0 .. 0 |-> s0]
    <3>1. Runs(f, 0)
      <4>1. f \in [0 .. 0 -> S] /\ f[0] = s0 /\ 1 .. 0 = {}
        BY <1>0
      <4> HIDE DEF f
      <4> QED
        BY <4>1
    <3> HIDE DEF Runs, f
    <3> QED
      BY <2>2, <2>3, <3>1
  <2>4. CASE j # 0
    <3> DEFINE c == j - 1
    <3>1. c \in Nat /\ c + 1 = j /\ c < j /\ c \in 0 .. c
      BY <2>2, <2>4
    <3>2. c \notin bad
      <4> HIDE DEF bad, c
      <4> QED
        BY <2>1, <2>2, <3>1
    <3>3. PICK f : Runs(f, c)
      <4> HIDE DEF Runs, c
      <4> QED
        BY <3>1, <3>2
    <3> DEFINE g == [i \in 0 .. j |-> IF i = j THEN G[f[c]] ELSE f[i]]
    <3>4. /\ \A i \in 0 .. c : i \in 0 .. j /\ i # j
          /\ \A i \in 0 .. j : i = j \/ i \in 0 .. c
          /\ \A i \in 1 .. c : i \in 0 .. c /\ i - 1 \in 0 .. c
          /\ \A i \in 1 .. j : i = j \/ i \in 1 .. c
          /\ j \in 0 .. j /\ 0 \in 0 .. c /\ j - 1 \in 0 .. c
      BY <2>2, <3>1
    <3>5. f \in [0 .. c -> S] /\ f[0] = s0 /\ \A k \in 1 .. c : f[k] = G[f[k - 1]]
      BY <3>3
    <3>6. \A i \in 0 .. c : g[i] = f[i]
      <4> HIDE DEF c
      <4> QED
        BY <3>4
    <3>7. g[j] = G[f[c]]
      <4> HIDE DEF c
      <4> QED
        BY <3>4
    <3>8. g \in [0 .. j -> S]
      <4>1. G[f[c]] \in S
        <5> HIDE DEF c
        <5> QED
          BY <1>0, <3>1, <3>5
      <4>2. \A i \in 0 .. j : (IF i = j THEN G[f[c]] ELSE f[i]) \in S
        <5> HIDE DEF c
        <5> QED
          BY <3>4, <3>5, <4>1
      <4> HIDE DEF c
      <4> QED
        BY <4>2
    <3> HIDE DEF g
    <3>9. \A k \in 1 .. j : g[k] = G[g[k - 1]]
      <4> TAKE k \in 1 .. j
      <4>1. CASE k = j
        <5>1. k - 1 = c
          BY <4>1
        <5> HIDE DEF c
        <5> QED
          BY <3>1, <3>6, <3>7, <4>1, <5>1
      <4>2. CASE k # j
        <5> HIDE DEF c
        <5>1. k \in 1 .. c /\ k \in 0 .. c /\ k - 1 \in 0 .. c
          BY <3>4, <4>2
        <5> QED
          BY <3>5, <3>6, <5>1
      <4> QED
        BY <4>1, <4>2
    <3>10. g[0] = s0
      <4> HIDE DEF c
      <4> QED
        BY <3>4, <3>5, <3>6
    <3>11. Runs(g, j)
      BY <3>8, <3>9, <3>10
    <3> HIDE DEF Runs
    <3> QED
      BY <2>2, <3>11
  <2> QED
    BY <2>3, <2>4
<1>2. \E f : Runs(f, m)
  <2> HIDE DEF Runs
  <2> QED
    BY <1>1
<1> QED
  BY <1>2 DEF LoopRun

----------------------------------------------------------------------------
(* Strings of binary digits.                                               *)

\* The l lowest digits of z, and how many digits z has.
Str(l, z) == [i \in 1 .. l |-> Bit(z, l - i)]

IsLength(l, z) == z \in Values(l) /\ (l = 0 \/ 2 ^ (l - 1) <= z)

LengthOf(z) == CHOOSE l \in 0 .. MaxBitWidth : IsLength(l, z)

BinOf(z)    == Str(LengthOf(z), z)

LEMMA ValuesGrow ==
    ASSUME NEW l \in Nat, NEW m \in Nat, l <= m, m <= MaxBitWidth, NEW z \in Values(l)
    PROVE  z \in Values(m) /\ z \in Nat
<1>1. 2 ^ l <= 2 ^ m /\ l \in 0 .. MaxBitWidth /\ m \in 0 .. MaxBitWidth
  BY MaxBitWidthAssumption, PowersGrow
<1>2. 2 ^ l \in Nat \ {0} /\ 2 ^ m \in Nat \ {0} /\ z \in 0 .. 2 ^ l - 1
  BY <1>1, PowerIs DEF Values
<1> DEFINE p == 2 ^ l
           q == 2 ^ m
<1>3. z \in 0 .. q - 1 /\ z \in Nat
  <2>1. p \in Nat /\ q \in Nat /\ p <= q /\ z \in 0 .. p - 1
    BY <1>1, <1>2
  <2> HIDE DEF p, q
  <2> QED
    BY <2>1
<1> QED
  BY <1>3 DEF Values

\* A number has one length, which is at most the width it fits.
LEMMA Lengths ==
    ASSUME NEW m \in Nat, m <= MaxBitWidth, NEW z \in Values(m)
    PROVE  /\ LengthOf(z) \in 0 .. m /\ IsLength(LengthOf(z), z) /\ z \in Nat
           /\ LengthOf(z) \in 0 .. MaxBitWidth /\ LengthOf(z) \in Nat
           /\ \A l \in 0 .. MaxBitWidth : IsLength(l, z) => l = LengthOf(z)
<1> DEFINE S == {l \in 0 .. m : z \in Values(l)}
<1>0. MaxBitWidth \in Nat /\ m \in 0 .. m
  BY MaxBitWidthAssumption
<1>1. z \in Nat
  BY <1>0, ValuesGrow
<1>2. PICK k \in S : \A l \in S : k <= l
  <2>1. S \in SUBSET Nat /\ S # {}
    BY <1>0
  <2> HIDE DEF S
  <2> QED
    BY <2>1, LeastNumber
<1>3. k \in 0 .. m /\ z \in Values(k) /\ k \in 0 .. MaxBitWidth
  BY <1>0, <1>2
<1>4. k # 0 => 2 ^ (k - 1) <= z
  <2> SUFFICES ASSUME k # 0 PROVE 2 ^ (k - 1) <= z
    OBVIOUS
  <2>1. k - 1 \in 0 .. m /\ ~(k <= k - 1) /\ k - 1 \in 0 .. MaxBitWidth
    BY <1>0, <1>3
  <2>2. ~(z \in Values(k - 1))
    BY <1>2, <2>1
  <2> DEFINE p == 2 ^ (k - 1)
  <2>3. p \in Nat \ {0} /\ ~(z \in 0 .. p - 1)
    BY <2>1, <2>2, PowerIs DEF Values
  <2> HIDE DEF p
  <2>4. p <= z
    BY <1>1, <2>3
  <2> QED
    BY <2>4 DEF p
<1>5. IsLength(k, z)
  BY <1>3, <1>4 DEF IsLength
<1>6. ASSUME NEW l \in 0 .. MaxBitWidth, NEW j \in 0 .. MaxBitWidth, IsLength(l, z), IsLength(j, z), l < j
      PROVE  FALSE
  <2>1. j - 1 \in 0 .. MaxBitWidth /\ l <= j - 1 /\ j # 0 /\ l \in Nat /\ j - 1 \in Nat /\ j - 1 <= MaxBitWidth
    BY <1>0, <1>6
  <2>2. 2 ^ l <= 2 ^ (j - 1)
    BY <2>1, PowersGrow
  <2> DEFINE p == 2 ^ l
             q == 2 ^ (j - 1)
  <2>3. p \in Nat \ {0} /\ q \in Nat \ {0} /\ z \in 0 .. p - 1 /\ q <= z /\ p <= q
    BY <1>6, <2>1, <2>2, PowerIs DEF IsLength, Values
  <2> HIDE DEF p, q
  <2> QED
    BY <1>1, <2>3
<1>7. \A l \in 0 .. MaxBitWidth : IsLength(l, z) => l = k
  <2> TAKE l \in 0 .. MaxBitWidth
  <2> HAVE IsLength(l, z)
  <2>1. ~(l < k) /\ ~(k < l)
    BY <1>3, <1>5, <1>6
  <2> QED
    BY <1>0, <1>3, <2>1
<1>8. LengthOf(z) = k
  BY <1>3, <1>5, <1>7 DEF LengthOf
<1> QED
  BY <1>0, <1>1, <1>3, <1>5, <1>7, <1>8

\* It fits the widths that are no less.
LEMMA LengthFits ==
    ASSUME NEW m \in Nat, m <= MaxBitWidth, NEW z \in Values(m), NEW l \in Nat, l <= MaxBitWidth
    PROVE  LengthOf(z) <= l <=> z < 2 ^ l
<1>1. LengthOf(z) \in Nat /\ LengthOf(z) <= MaxBitWidth /\ z \in Values(LengthOf(z)) /\ z \in Nat
  <2>1. /\ LengthOf(z) \in Nat /\ LengthOf(z) \in 0 .. MaxBitWidth /\ IsLength(LengthOf(z), z)
        /\ z \in Nat
    BY Lengths
  <2> HIDE DEF LengthOf
  <2> QED
    BY <2>1, MaxBitWidthAssumption DEF IsLength
<1>2. l \in 0 .. MaxBitWidth /\ 2 ^ l \in Nat \ {0}
  <2>1. l \in 0 .. MaxBitWidth
    BY MaxBitWidthAssumption
  <2> QED
    BY <2>1, PowerIs
<1>3. z \in Values(l) <=> z < 2 ^ l
  <2> DEFINE p == 2 ^ l
  <2>1. p \in Nat
    BY <1>2
  <2> HIDE DEF p
  <2>2. z \in 0 .. p - 1 <=> z < p
    BY <1>1, <2>1
  <2> QED
    BY <2>2 DEF Values, p
<1>4. LengthOf(z) <= l => z \in Values(l)
  <2> HIDE DEF LengthOf
  <2> QED
    BY <1>1, ValuesGrow
<1>5. z \in Values(l) => LengthOf(z) <= l
  <2> HAVE z \in Values(l)
  <2>1. LengthOf(z) \in 0 .. l
    BY Lengths
  <2> HIDE DEF LengthOf
  <2> QED
    BY <2>1
<1> QED
  BY <1>3, <1>4, <1>5

LEMMA StrIs ==
    ASSUME NEW l \in Nat, l <= MaxBitWidth, NEW z \in Nat
    PROVE  /\ Str(l, z) \in Seq({0, 1}) /\ Len(Str(l, z)) = l /\ DOMAIN Str(l, z) = 1 .. l
           /\ \A i \in 1 .. l : /\ Str(l, z)[i] = Bit(z, l - i) /\ Str(l, z)[i] \in {0, 1}
                                /\ l - i \in 0 .. MaxBitWidth
           /\ <<>> \o Str(l, z) = Str(l, z)
<1>1. \A i \in 1 .. l : /\ Str(l, z)[i] = Bit(z, l - i) /\ Str(l, z)[i] \in {0, 1}
                        /\ l - i \in 0 .. MaxBitWidth
  <2> TAKE i \in 1 .. l
  <2>1. l - i \in 0 .. MaxBitWidth
    BY MaxBitWidthAssumption
  <2>2. Bit(z, l - i) \in {0, 1}
    BY <2>1, Bits
  <2> QED
    BY <2>1, <2>2 DEF Str
<1>2. Str(l, z) \in [1 .. l -> {0, 1}]
  <2>1. Str(l, z) = [i \in 1 .. l |-> Str(l, z)[i]]
    BY DEF Str
  <2> QED
    BY <1>1, <2>1
<1> QED
  BY <1>1, <1>2, AsTuple

\* The highest bit of a number is set.
LEMMA TopBit ==
    ASSUME NEW k \in Nat \ {0}, k <= MaxBitWidth, NEW z, IsLength(k, z)
    PROVE  Bit(z, k - 1) = 1
<1> DEFINE p == 2 ^ (k - 1)
<1>1. k - 1 \in 0 .. MaxBitWidth /\ (k - 1) + 1 = k /\ k \in 0 .. MaxBitWidth
  BY MaxBitWidthAssumption
<1>2. p \in Nat \ {0} /\ 2 ^ k = 2 * p
  <2>1. p \in Nat \ {0}
    BY <1>1, PowerIs
  <2>2. 2 ^ ((k - 1) + 1) = 2 * p
    <3> DEFINE j == k - 1
    <3> HIDE DEF j
    <3> QED
      BY <1>1, PowersAssumption DEF j
  <2> QED
    BY <1>1, <2>1, <2>2
<1>3. z \in 0 .. 2 * p - 1 /\ p <= z
  BY <1>2 DEF IsLength, Values
<1> HIDE DEF p
<1>4. z \in Int /\ 1 \in Int /\ z - p \in 0 .. p - 1 /\ z = 1 * p + (z - p)
  BY <1>2, <1>3
<1>5. z \div p = 1
  <2> DEFINE r == z - p
  <2>1. z \in Int /\ 1 \in Int /\ r \in 0 .. p - 1 /\ z = 1 * p + r
    BY <1>4
  <2> HIDE DEF r
  <2> QED
    BY <1>2, <2>1, QuotientAndRest
<1> QED
  BY <1>5 DEF Bit, p

\* One position of the full adder.
LEMMA CarryStep ==
    ASSUME NEW x \in Nat, NEW y \in Nat, NEW j \in Nat, j + 1 <= MaxBitWidth
    PROVE  LET c == ((x % 2 ^ j) + (y % 2 ^ j)) \div 2 ^ j
               t == Bit(x, j) + Bit(y, j) + c
           IN  /\ t % 2 = Bit(x + y, j)
               /\ t \div 2 = ((x % 2 ^ (j + 1)) + (y % 2 ^ (j + 1))) \div 2 ^ (j + 1)
<1> DEFINE d == 2 ^ j
           u == x % d
           v == y % d
           p == Bit(x, j)
           q == Bit(y, j)
           c == (u + v) \div d
           r == (u + v) % d
           t == p + q + c
           total == (x % 2 ^ (j + 1)) + (y % 2 ^ (j + 1))
<1>1. /\ j \in 0 .. MaxBitWidth /\ j + 1 \in 0 .. MaxBitWidth /\ j \in 0 .. (j + 1) - 1
      /\ d \in Nat \ {0} /\ 2 ^ (j + 1) = d * 2
  <2>1. j \in 0 .. MaxBitWidth /\ j + 1 \in 0 .. MaxBitWidth /\ j \in 0 .. (j + 1) - 1
    BY MaxBitWidthAssumption
  <2>2. d \in Nat \ {0}
    BY <2>1, PowerIs
  <2>3. 2 ^ (j + 1) = 2 * 2 ^ j
    BY <2>1, PowersAssumption
  <2> QED
    BY <2>1, <2>2, <2>3
<1>2. /\ x % 2 ^ (j + 1) = u + p * d /\ y % 2 ^ (j + 1) = v + q * d
      /\ u \in Nat /\ v \in Nat /\ p \in {0, 1} /\ q \in {0, 1}
  BY OneMoreBit
<1>3. c \in Int /\ r \in 0 .. d - 1 /\ u + v = c * d + r
  <2>1. u + v \in Int
    BY <1>2
  <2> DEFINE e == u + v
  <2>2. e \in Int /\ u + v = e
    BY <2>1
  <2> HIDE DEF u, v, d, e
  <2>3. e \div d \in Int /\ e % d \in 0 .. d - 1 /\ e = (e \div d) * d + (e % d)
    BY <1>1, <2>2, Division
  <2> QED
    BY <2>2, <2>3
<1>4. total = t * d + r /\ total \in Int /\ t \in Int
  <2>1. total = (u + p * d) + (v + q * d)
    BY <1>2
  <2> HIDE DEF u, v, d, p, q, c, r, total
  <2>2. p * d \in Int /\ q * d \in Int /\ c * d \in Int /\ (p + q + c) * d = p * d + q * d + c * d
    BY <1>1, <1>2, <1>3
  <2> DEFINE pd == p * d
             qd == q * d
             cd == c * d
             td == t * d
  <2>3. total = (u + pd) + (v + qd) /\ u + v = cd + r /\ td = pd + qd + cd
        /\ pd \in Int /\ qd \in Int /\ cd \in Int /\ r \in Int
    BY <1>1, <1>3, <2>1, <2>2
  <2>4. t \in Int
    BY <1>2, <1>3
  <2> HIDE DEF pd, qd, cd, td, t
  <2>5. total = td + r /\ total \in Int
    BY <1>2, <2>3
  <2> QED
    BY <2>4, <2>5 DEF td
<1>5. total \div d = t
  <2> HIDE DEF d, r, t, total
  <2> QED
    BY <1>1, <1>3, <1>4, QuotientAndRest
<1>6. t \div 2 = total \div 2 ^ (j + 1)
  <2>1. (total \div d) \div 2 = total \div (d * 2)
    <3> HIDE DEF d, total
    <3> QED
      BY <1>1, <1>4, DivisionTwice
  <2> HIDE DEF d, total, t
  <2> QED
    BY <1>1, <1>5, <2>1
<1>7. t % 2 = Bit(total, j)
  <2> HIDE DEF total, t
  <2> QED
    BY <1>5 DEF Bit, d
<1>8. Bit(x + y, j) = Bit(total, j)
  <2> DEFINE D == 2 ^ (j + 1)
             X == x \div D
             Y == y \div D
             Z == X + Y
  <2>1. D \in Nat \ {0}
    BY <1>1, PowerIs
  <2>2. X \in Int /\ Y \in Int /\ x = X * D + (x % D) /\ y = Y * D + (y % D)
        /\ x % D \in Int /\ y % D \in Int
    <3> HIDE DEF D
    <3>1. x \in Int /\ y \in Int
      OBVIOUS
    <3>2. X \in Int /\ x % D \in 0 .. D - 1 /\ x = X * D + (x % D)
      BY <2>1, <3>1, Division
    <3>3. Y \in Int /\ y % D \in 0 .. D - 1 /\ y = Y * D + (y % D)
      BY <2>1, <3>1, Division
    <3> QED
      BY <2>1, <3>2, <3>3
  <2>3. x + y = total + Z * D
    <3> DEFINE a1 == x % D
               b1 == y % D
    <3>1. total = a1 + b1 /\ x = X * D + a1 /\ y = Y * D + b1 /\ a1 \in Int /\ b1 \in Int
      BY <2>2
    <3> HIDE DEF D, X, Y, a1, b1, total
    <3>2. X * D \in Int /\ Y * D \in Int /\ (X + Y) * D = X * D + Y * D
      BY <2>1, <2>2
    <3> DEFINE XD == X * D
               YD == Y * D
    <3>3. x = XD + a1 /\ y = YD + b1 /\ Z * D = XD + YD /\ XD \in Int /\ YD \in Int
      BY <3>1, <3>2
    <3> DEFINE ZD == Z * D
    <3>4. ZD = XD + YD
      BY <3>3
    <3> HIDE DEF XD, YD, ZD
    <3>5. total = a1 + b1 /\ a1 \in Int /\ b1 \in Int
      BY <3>1
    <3>6. x + y = total + ZD
      BY <3>3, <3>4, <3>5
    <3> QED
      BY <3>6 DEF ZD
  <2>4. Z \in Int
    BY <2>2
  <2> HIDE DEF X, Y, Z, total
  <2>5. Bit(total + Z * 2 ^ (j + 1), j) = Bit(total, j)
    BY <1>1, <1>4, <2>4, BitBelow
  <2> QED
    BY <2>3, <2>5 DEF D
<1> QED
  BY <1>6, <1>7, <1>8

\* A string of bits is the one of a number by its digits.
LEMMA StrBy ==
    ASSUME NEW l \in Nat, l <= MaxBitWidth, NEW z \in Nat, NEW S, NEW s \in Seq(S), Len(s) = l,
           \A i \in 1 .. l : s[i] = Bit(z, l - i)
    PROVE  s = Str(l, z)
<1>1. s = [i \in 1 .. l |-> s[i]]
  OBVIOUS
<1> QED
  BY <1>1 DEF Str

\* Two strings, one behind the other.
LEMMA JoinedStrings ==
    ASSUME NEW l \in Nat, NEW m \in Nat, l + m <= MaxBitWidth, NEW x \in Values(l), NEW y \in Values(m)
    PROVE  /\ Str(l, x) \o Str(m, y) = Str(l + m, x * 2 ^ m + y)
           /\ x * 2 ^ m + y \in Values(l + m) /\ x * 2 ^ m + y \in Nat
<1> DEFINE c == bv_concat(m, x, y)
           X == Str(l, x)
           Y == Str(m, y)
           s == X \o Y
<1>1. /\ MaxBitWidth \in Nat /\ l \in 0 .. MaxBitWidth /\ m \in 0 .. MaxBitWidth
      /\ l <= MaxBitWidth /\ m <= MaxBitWidth /\ l + m \in Nat
  BY MaxBitWidthAssumption
<1>2. x \in Nat /\ y \in Nat
  BY <1>1, ValuesGrow
<1>3. c \in Values(l + m) /\ c \in Nat /\ c = x * 2 ^ m + y
  <2>1. c \in Values(l + m)
    BY <1>1, ConcatFits
  <2> HIDE DEF c
  <2>2. c \in Nat
    BY <1>1, <2>1, ValuesGrow
  <2> QED
    BY <2>1, <2>2 DEF c, bv_concat
<1>4. /\ X \in Seq({0, 1}) /\ Len(X) = l /\ \A i \in 1 .. l : X[i] = Bit(x, l - i)
      /\ Y \in Seq({0, 1}) /\ Len(Y) = m /\ \A i \in 1 .. m : Y[i] = Bit(y, m - i)
  BY <1>1, <1>2, StrIs
<1> HIDE DEF X, Y, c
<1>5. /\ s \in Seq({0, 1}) /\ Len(s) = l + m
      /\ \A i \in 1 .. l + m : s[i] = IF i <= l THEN X[i] ELSE Y[i - l]
  BY <1>4, ConcatProperties
<1>6. ASSUME NEW i \in 1 .. l + m PROVE s[i] = Bit(c, l + m - i)
  <2> DEFINE u == l + m - i
  <2>1. u \in 0 .. MaxBitWidth /\ (u < m <=> ~(i <= l)) /\ u - m = l - i /\ m - (i - l) = u
        /\ (~(i <= l) => i - l \in 1 .. m) /\ (i <= l => i \in 1 .. l)
    BY <1>1
  <2>2. Bit(c, u) = IF u < m THEN Bit(y, u) ELSE Bit(x, u - m)
    <3> HIDE DEF u
    <3> QED
      BY <2>1, BitOfConcat DEF c
  <2> HIDE DEF u, s
  <2>3. CASE i <= l
    BY <1>4, <1>5, <2>1, <2>2, <2>3 DEF u
  <2>4. CASE ~(i <= l)
    <3>1. s[i] = Y[i - l] /\ i - l \in 1 .. m
      BY <1>5, <2>1, <2>4
    <3>2. Y[i - l] = Bit(y, m - (i - l))
      BY <1>4, <3>1
    <3> QED
      BY <2>1, <2>2, <2>4, <3>1, <3>2 DEF u
  <2> QED
    BY <2>3, <2>4
<1>7. s = Str(l + m, c)
  <2> HIDE DEF s
  <2> QED
    BY <1>1, <1>3, <1>5, <1>6, StrBy
<1> QED
  BY <1>3, <1>7 DEF X, Y

\* The shortest strings.
LEMMA ShortStrings ==
    ASSUME NEW m \in Nat, m <= MaxBitWidth, NEW z \in Values(m)
    PROVE  /\ BinOf(z) = <<>> <=> z = 0
           /\ BinOf(z) = <<1>> <=> z = 1
           /\ LengthOf(z) = 0 <=> z = 0
           /\ BinOf(0) = <<>>
<1> DEFINE k == LengthOf(z)
<1>0. 0 \in 0 .. MaxBitWidth /\ 1 \in 0 .. MaxBitWidth /\ 2 ^ 0 = 1 /\ 2 ^ 1 = 2
      /\ Values(0) = {0} /\ Values(1) = {0, 1} /\ 0 <= MaxBitWidth /\ 1 - 1 = 0
  <2>1. 0 \in 0 .. MaxBitWidth /\ 1 \in 0 .. MaxBitWidth /\ 2 ^ 0 = 1
    BY MaxBitWidthAssumption, PowersAssumption
  <2>2. Values(0) = 0 .. 1 - 1
    BY <2>1 DEF Values
  <2>3. 2 ^ (0 + 1) = 2 * 2 ^ 0
    BY <2>1, PowersAssumption
  <2>4. 0 <= MaxBitWidth
    BY <2>1
  <2> QED
    BY <2>1, <2>2, <2>3, <2>4, Bits
<1>1. /\ k \in Nat /\ k <= MaxBitWidth /\ IsLength(k, z) /\ z \in Nat /\ k \in 0 .. MaxBitWidth
      /\ \A l \in 0 .. MaxBitWidth : IsLength(l, z) => l = k
  <2>1. /\ k \in Nat /\ k \in 0 .. MaxBitWidth /\ IsLength(k, z) /\ z \in Nat
        /\ \A l \in 0 .. MaxBitWidth : IsLength(l, z) => l = k
    BY Lengths
  <2> HIDE DEF k
  <2> QED
    BY <2>1, MaxBitWidthAssumption
<1>2. Len(BinOf(z)) = k
  BY <1>1, StrIs DEF BinOf
<1> HIDE DEF k
<1>3. IsLength(0, 0) /\ IsLength(1, 1)
  <2>1. 2 ^ (1 - 1) = 1
    BY <1>0
  <2>2. 0 \in Values(0) /\ 1 \in Values(1) /\ 2 ^ (1 - 1) <= 1
    BY <1>0, <2>1
  <2> QED
    BY <2>2 DEF IsLength
<1>4. k = 0 <=> z = 0
  <2>1. k = 0 => z \in Values(0)
    BY <1>1 DEF IsLength
  <2> QED
    BY <1>0, <1>1, <1>3, <2>1
<1>5. BinOf(z) = <<>> <=> k = 0
  <2>1. k = 0 => BinOf(z) = <<>>
    <3>1. BinOf(z) \in Seq({0, 1})
      BY <1>1, StrIs DEF BinOf, k
    <3> QED
      BY <1>2, <3>1, EmptySeq
  <2>2. BinOf(z) = <<>> => Len(BinOf(z)) = 0
    OBVIOUS
  <2> QED
    BY <1>2, <2>1, <2>2
<1>6. BinOf(z) = <<1>> <=> z = 1
  <2>1. BinOf(z) = Str(k, z)
    BY DEF BinOf, k
  <2>2. ASSUME z = 1 PROVE BinOf(z) = <<1>>
    <3>1. k = 1
      BY <1>0, <1>1, <1>3, <2>2
    <3>2. Bit(1, 0) = 1
      BY BitOfTruth
    <3>3. Str(1, 1) = [i \in 1 .. 1 |-> Bit(1, 1 - i)]
      BY DEF Str
    <3>4. Str(1, 1) = [i \in 1 .. 1 |-> 1]
      <4>1. \A i \in 1 .. 1 : 1 - i = 0
        OBVIOUS
      <4> QED
        BY <3>2, <3>3, <4>1
    <3>5. Str(1, 1) = <<1>>
      <4>1. [i \in 1 .. 1 |-> 1] = <<1>>
        OBVIOUS
      <4> QED
        BY <3>4, <4>1
    <3> QED
      BY <2>1, <2>2, <3>1, <3>5
  <2>3. ASSUME BinOf(z) = << 1 >> PROVE z = 1
    <3>1. Len(BinOf(z)) = 1
      BY <2>3
    <3>2. k = 1
      BY <1>2, <3>1
    <3>3. z \in Values(1) /\ z # 0
      BY <1>1, <1>4, <3>2 DEF IsLength
    <3> QED
      BY <1>0, <3>3
  <2> QED
    BY <2>2, <2>3
<1>7. BinOf(0) = <<>>
  <2>1. \A l \in 0 .. MaxBitWidth : IsLength(l, 0) => l = LengthOf(0)
    BY <1>0, Lengths
  <2>2. LengthOf(0) = 0
    BY <1>0, <1>3, <2>1
  <2>3. Len(BinOf(0)) = 0 /\ BinOf(0) \in Seq({0, 1})
    BY <1>0, <2>2, StrIs DEF BinOf
  <2> QED
    BY <2>3, EmptySeq
<1> QED
  BY <1>4, <1>5, <1>6, <1>7 DEF k

\* The sum of two numbers needs a digit more than the longer one.
LEMMA SumFits ==
    ASSUME NEW k \in Nat, k + 1 <= MaxBitWidth, NEW x \in Values(k), NEW y \in Values(k)
    PROVE  x + y \in Values(k + 1)
<1> DEFINE p == 2 ^ k
<1>1. k \in 0 .. MaxBitWidth /\ p \in Nat \ {0} /\ 2 ^ (k + 1) = 2 * p
  <2>1. k \in 0 .. MaxBitWidth
    BY MaxBitWidthAssumption
  <2> QED
    BY <2>1, PowerIs, PowersAssumption
<1>2. x \in 0 .. p - 1 /\ y \in 0 .. p - 1
  BY DEF Values
<1> HIDE DEF p
<1>3. x + y \in 0 .. 2 * p - 1
  BY <1>1, <1>2
<1> QED
  BY <1>1, <1>3 DEF Values

\* A digit in front, the last digit, and parts of a string.
LEMMA PrependBit ==
    ASSUME NEW l \in Nat, l + 1 <= MaxBitWidth, NEW z \in Nat
    PROVE  <<Bit(z, l)>> \o Str(l, z) = Str(l + 1, z)
<1> DEFINE b1 == Bit(z, l)
           X == Str(l, z)
           s == <<b1>> \o X
<1>1. l <= MaxBitWidth /\ l \in 0 .. MaxBitWidth /\ l + 1 \in Nat
  BY MaxBitWidthAssumption
<1>2. b1 \in {0, 1}
  BY <1>1, Bits
<1>3. X \in Seq({0, 1}) /\ Len(X) = l /\ \A i \in 1 .. l : X[i] = Bit(z, l - i)
  BY <1>1, StrIs
<1> HIDE DEF b1, X
<1>4. <<b1>> \in Seq({0, 1}) /\ Len(<<b1>>) = 1 /\ <<b1>>[1] = b1
  BY <1>2
<1>5. /\ s \in Seq({0, 1}) /\ Len(s) = l + 1
      /\ \A i \in 1 .. l + 1 : s[i] = IF i <= 1 THEN <<b1>>[i] ELSE X[i - 1]
  <2>1. /\ s \in Seq({0, 1}) /\ Len(s) = 1 + l
        /\ \A i \in 1 .. 1 + l : s[i] = IF i <= 1 THEN <<b1>>[i] ELSE X[i - 1]
    BY <1>3, <1>4, ConcatProperties
  <2>2. 1 + l = l + 1
    OBVIOUS
  <2> QED
    BY <2>1, <2>2
<1> HIDE DEF s
<1>6. \A i \in 1 .. l + 1 : s[i] = Bit(z, l + 1 - i)
  <2> TAKE i \in 1 .. l + 1
  <2>1. CASE i = 1
    <3>1. s[i] = b1 /\ l + 1 - i = l
      BY <1>4, <1>5, <2>1
    <3> QED
      BY <3>1 DEF b1
  <2>2. CASE i # 1
    <3>1. s[i] = X[i - 1] /\ i - 1 \in 1 .. l /\ l - (i - 1) = l + 1 - i
      BY <1>5, <2>2
    <3>2. X[i - 1] = Bit(z, l - (i - 1))
      BY <1>3, <3>1
    <3> QED
      BY <3>1, <3>2
  <2> QED
    BY <2>1, <2>2
<1>7. s = Str(l + 1, z)
  <2> DEFINE n == l + 1
  <2>1. n \in Nat /\ n <= MaxBitWidth /\ s \in Seq({0, 1}) /\ Len(s) = n
        /\ \A i \in 1 .. n : s[i] = Bit(z, n - i)
    BY <1>1, <1>5, <1>6
  <2> HIDE DEF n
  <2>2. s = Str(n, z)
    BY <2>1, StrBy
  <2> QED
    BY <2>2 DEF n
<1> QED
  BY <1>7 DEF s, b1, X

LEMMA PartsOfString ==
    ASSUME NEW l \in Nat, NEW m \in Nat, m + l <= MaxBitWidth, NEW z \in Nat
    PROVE  /\ SubSeq(Str(m + l, z), 1, m) = Str(m, z \div 2 ^ l)
           /\ SubSeq(Str(m + l, z), m + 1, m + l) = Str(l, z)
           /\ z \div 2 ^ l \in Nat
<1> DEFINE n == m + l
           s == Str(n, z)
           u == SubSeq(s, 1, m)
           v == SubSeq(s, m + 1, n)
           y == z \div 2 ^ l
<1>1. /\ MaxBitWidth \in Nat /\ n \in Nat /\ n <= MaxBitWidth /\ m <= MaxBitWidth
      /\ l <= MaxBitWidth /\ l \in 0 .. MaxBitWidth
  BY MaxBitWidthAssumption
<1>2. y \in Nat
  <2> DEFINE p == 2 ^ l
  <2>1. p \in Nat \ {0}
    BY <1>1, PowerIs
  <2> HIDE DEF p
  <2>2. z \div p \in Nat
    BY <2>1, DivMod
  <2> QED
    BY <2>2 DEF p
<1> HIDE DEF n
<1>3. s \in Seq({0, 1}) /\ Len(s) = n /\ \A i \in 1 .. n : s[i] = Bit(z, n - i) /\ s[i] \in {0, 1}
  BY <1>1, StrIs
<1> HIDE DEF s
<1>4. u \in Seq({0, 1}) /\ Len(u) = m /\ \A i \in 1 .. m : u[i] = s[i]
  <2>1. \A i \in 1 .. m : s[i] \in {0, 1}
    BY <1>1, <1>3 DEF n
  <2>2. /\ u \in Seq({0, 1}) /\ Len(u) = (IF 1 <= m THEN m - 1 + 1 ELSE 0)
        /\ \A i \in 1 .. m - 1 + 1 : u[i] = s[1 + i - 1]
    BY <2>1, SubSeqProperties
  <2> HIDE DEF u
  <2>3. m - 1 + 1 = m /\ \A i \in 1 .. m : 1 + i - 1 = i
    OBVIOUS
  <2> QED
    BY <2>2, <2>3
<1>5. v \in Seq({0, 1}) /\ Len(v) = l /\ \A i \in 1 .. l : v[i] = s[m + i]
  <2>1. \A i \in m + 1 .. n : s[i] \in {0, 1}
    BY <1>1, <1>3
  <2>2. /\ v \in Seq({0, 1}) /\ Len(v) = (IF m + 1 <= n THEN n - (m + 1) + 1 ELSE 0)
        /\ \A i \in 1 .. n - (m + 1) + 1 : v[i] = s[(m + 1) + i - 1]
    BY <1>1, <2>1, SubSeqProperties
  <2> HIDE DEF v
  <2>3. n - (m + 1) + 1 = l /\ (m + 1 <= n <=> 1 <= l) /\ \A i \in 1 .. l : (m + 1) + i - 1 = m + i
    BY <1>1 DEF n
  <2> HIDE DEF u, y
  <2>4. Len(v) = IF m + 1 <= n THEN l ELSE 0
    BY <2>2, <2>3
  <2>5. Len(v) = l
    BY <2>3, <2>4
  <2>6. \A i \in 1 .. l : v[i] = s[m + i]
    <3> TAKE i \in 1 .. l
    <3>1. i \in 1 .. n - (m + 1) + 1 /\ (m + 1) + i - 1 = m + i
      BY <2>3
    <3> QED
      BY <2>2, <3>1
  <2> QED
    BY <2>2, <2>5, <2>6
<1> HIDE DEF u, v
<1>6. \A i \in 1 .. m : u[i] = Bit(y, m - i)
  <2> TAKE i \in 1 .. m
  <2> DEFINE j == m - i
  <2>1. i \in 1 .. n /\ n - i = j + l /\ j \in Nat /\ j + l <= MaxBitWidth
    BY <1>1 DEF n
  <2> HIDE DEF j
  <2>2. Bit(z \div 2 ^ l, j) = Bit(z, j + l)
    BY <2>1, BitOfQuotient
  <2> QED
    BY <1>3, <1>4, <2>1, <2>2 DEF j
<1>7. \A i \in 1 .. l : v[i] = Bit(z, l - i)
  <2> TAKE i \in 1 .. l
  <2>1. m + i \in 1 .. n /\ n - (m + i) = l - i
    BY <1>1 DEF n
  <2> QED
    BY <1>3, <1>5, <2>1
<1> HIDE DEF y
<1>8. u = Str(m, y)
  BY <1>1, <1>2, <1>4, <1>6, StrBy
<1>9. v = Str(l, z)
  BY <1>1, <1>5, <1>7, StrBy
<1> QED
  BY <1>2, <1>8, <1>9 DEF u, v, s, n, y

\* One more hexadecimal digit is four more binary ones.
LEMMA FourMore ==
    ASSUME NEW k \in Nat, k + 4 <= MaxBitWidth, 6 <= MaxBitWidth,
           NEW x \in Values(k), x # 0, NEW e \in 0 .. 15
    PROVE  LengthOf(x * 16 + e) = LengthOf(x) + 4
<1> DEFINE l == LengthOf(x)
           z == x * 16 + e
<1>0. MaxBitWidth \in Nat /\ k <= MaxBitWidth
  BY MaxBitWidthAssumption
<1>1. l \in 0 .. k /\ x \in Nat /\ l # 0 /\ x \in Values(l) /\ 2 ^ (l - 1) <= x
  <2>1. l \in 0 .. k /\ IsLength(l, x) /\ x \in Nat /\ l # 0
    BY <1>0, Lengths, ShortStrings
  <2> HIDE DEF l
  <2> QED
    BY <2>1 DEF IsLength
<1> HIDE DEF l
<1> DEFINE j == l - 1
           p == 2 ^ j
           q == 2 ^ l
<1>2. /\ j \in Nat /\ l \in Nat /\ l + 4 \in 0 .. MaxBitWidth /\ j + 4 \in 0 .. MaxBitWidth
      /\ j + 1 = l /\ (l + 4) - 1 = j + 4 /\ j \in 0 .. MaxBitWidth /\ l \in 0 .. MaxBitWidth
      /\ j + 4 <= MaxBitWidth /\ l + 4 <= MaxBitWidth /\ 4 \in Nat
  BY <1>0, <1>1
<1> HIDE DEF j
<1>3. 2 ^ 4 = 16 /\ 2 ^ (j + 4) = 2 ^ j * 2 ^ 4 /\ 2 ^ (l + 4) = 2 ^ l * 2 ^ 4
  BY <1>2, SmallPowers, PowerOfSum
<1>4. p \in Nat \ {0} /\ q \in Nat \ {0} /\ x \in 0 .. q - 1 /\ p <= x
  BY <1>1, <1>2, PowerIs DEF Values, j
<1>5. 2 ^ (j + 4) = p * 16 /\ 2 ^ (l + 4) = q * 16
  BY <1>3
<1> HIDE DEF p, q
<1>6. z \in 0 .. q * 16 - 1 /\ p * 16 <= z
  BY <1>4
<1>7. IsLength(l + 4, z)
  BY <1>2, <1>5, <1>6 DEF IsLength, Values
<1>8. \A i \in 0 .. MaxBitWidth : IsLength(i, z) => i = LengthOf(z)
  <2>1. z \in Values(l + 4) /\ l + 4 \in Nat
    BY <1>2, <1>7 DEF IsLength
  <2> DEFINE n == l + 4
  <2>2. n \in Nat /\ n <= MaxBitWidth /\ z \in Values(n)
    BY <1>2, <2>1
  <2> HIDE DEF n, z
  <2> QED
    BY <2>2, Lengths
<1> HIDE DEF z
<1>9. l + 4 = LengthOf(z)
  BY <1>2, <1>7, <1>8
<1> QED
  BY <1>9 DEF z, l

\* btorsim_bv_to_hex_char: a digit is made of four bits.
LEMMA FourBits ==
    ASSUME NEW x \in Nat, NEW p \in Nat, p + 4 <= MaxBitWidth
    PROVE  LET e == Bit(x, p) + 2 * Bit(x, p + 1) + 4 * Bit(x, p + 2) + 8 * Bit(x, p + 3)
           IN  /\ x \div 2 ^ p = (x \div 2 ^ (p + 4)) * 16 + e
               /\ e \in 0 .. 15 /\ x \div 2 ^ (p + 4) \in Nat
<1> DEFINE p1 == p + 1
           p2 == p + 2
           p3 == p + 3
           p4 == p + 4
           q0 == x \div 2 ^ p
           q1 == x \div 2 ^ p1
           q2 == x \div 2 ^ p2
           q3 == x \div 2 ^ p3
           q4 == x \div 2 ^ p4
           b0 == Bit(x, p)
           b1 == Bit(x, p1)
           b2 == Bit(x, p2)
           b3 == Bit(x, p3)
<1>1. /\ p1 \in Nat /\ p2 \in Nat /\ p3 \in Nat /\ p4 \in Nat
      /\ p + 1 = p1 /\ p1 + 1 = p2 /\ p2 + 1 = p3 /\ p3 + 1 = p4
      /\ p + 1 <= MaxBitWidth /\ p1 + 1 <= MaxBitWidth /\ p2 + 1 <= MaxBitWidth
      /\ p3 + 1 <= MaxBitWidth
  BY MaxBitWidthAssumption
<1> HIDE DEF p1, p2, p3, p4
<1>2. q0 = 2 * q1 + b0 /\ b0 \in {0, 1}
  <2>1. x \div 2 ^ p = 2 * (x \div 2 ^ (p + 1)) + Bit(x, p) /\ Bit(x, p) \in {0, 1}
    BY <1>1, OneMoreBit
  <2> QED
    BY <1>1, <2>1
<1>3. q1 = 2 * q2 + b1 /\ b1 \in {0, 1}
  <2>1. x \div 2 ^ p1 = 2 * (x \div 2 ^ (p1 + 1)) + Bit(x, p1) /\ Bit(x, p1) \in {0, 1}
    BY <1>1, OneMoreBit
  <2> QED
    BY <1>1, <2>1
<1>4. q2 = 2 * q3 + b2 /\ b2 \in {0, 1}
  <2>1. x \div 2 ^ p2 = 2 * (x \div 2 ^ (p2 + 1)) + Bit(x, p2) /\ Bit(x, p2) \in {0, 1}
    BY <1>1, OneMoreBit
  <2> QED
    BY <1>1, <2>1
<1>5. q3 = 2 * q4 + b3 /\ b3 \in {0, 1} /\ q4 \in Nat
  <2>1. x \div 2 ^ p3 = 2 * (x \div 2 ^ (p3 + 1)) + Bit(x, p3) /\ Bit(x, p3) \in {0, 1}
        /\ x \div 2 ^ (p3 + 1) \in Nat
    BY <1>1, OneMoreBit
  <2> QED
    BY <1>1, <2>1
<1> HIDE DEF q0, q1, q2, q3, q4, b0, b1, b2, b3
<1>6. q0 = q4 * 16 + (b0 + 2 * b1 + 4 * b2 + 8 * b3) /\ b0 + 2 * b1 + 4 * b2 + 8 * b3 \in 0 .. 15
  BY <1>2, <1>3, <1>4, <1>5
<1> QED
  BY <1>5, <1>6 DEF q0, q4, b0, b1, b2, b3, p1, p2, p3, p4

----------------------------------------------------------------------------
(* The digits of a number in any base.                                     *)

\* The digits of m from those of smaller numbers, and of all numbers up to n.
DigitsFrom(f, base, m) == IF m < base THEN <<m>> ELSE f[m \div base] \o <<m % base>>

DigitsTo(f, base, n) == \A m \in 0 .. n : f[m] = DigitsFrom(f, base, m)

LEMMA DigitsUnique ==
    ASSUME NEW base \in Nat, base > 1, NEW n \in Nat, NEW f, NEW g,
           DigitsTo(f, base, n), DigitsTo(g, base, n)
    PROVE  \A m \in 0 .. n : f[m] = g[m]
<1> DEFINE bad == {m \in 0 .. n : f[m] # g[m]}
<1>1. ASSUME bad # {} PROVE FALSE
  <2>1. bad \in SUBSET Nat
    OBVIOUS
  <2>2. PICK m \in bad : \A j \in bad : m <= j
    <3> HIDE DEF bad
    <3> QED
      BY <1>1, <2>1, LeastNumber
  <2>3. m \in 0 .. n /\ m \in Nat /\ f[m] # g[m]
    OBVIOUS
  <2>4. CASE m < base
    BY <2>3, <2>4 DEF DigitsTo, DigitsFrom
  <2>5. CASE ~(m < base)
    <3> DEFINE q == m \div base
    <3>1. q \in Nat /\ q < m
      BY <2>3, <2>5, QuotientBelow
    <3>2. q \in 0 .. n /\ ~(m <= q)
      <4> HIDE DEF q
      <4> QED
        BY <2>3, <3>1
    <3>3. f[q] = g[q]
      <4>1. q \notin bad
        <5> HIDE DEF bad, q
        <5> QED
          BY <2>2, <3>2
      <4> HIDE DEF q
      <4> QED
        BY <3>2, <4>1
    <3>4. f[m] = f[q] \o <<m % base>> /\ g[m] = g[q] \o <<m % base>>
      BY <2>3, <2>5 DEF DigitsTo, DigitsFrom
    <3> HIDE DEF q
    <3> QED
      BY <2>3, <3>3, <3>4
  <2> QED
    BY <2>4, <2>5
<1> QED
  BY <1>1

LEMMA DigitsExist ==
    ASSUME NEW base \in Nat, base > 1
    PROVE  \A n \in Nat : \E f : DigitsTo(f, base, n)
<1> DEFINE bad == {n \in Nat : ~\E f : DigitsTo(f, base, n)}
<1>1. ASSUME bad # {} PROVE FALSE
  <2>1. PICK n \in bad : \A j \in bad : n <= j
    <3>1. bad \in SUBSET Nat
      OBVIOUS
    <3> HIDE DEF bad
    <3> QED
      BY <1>1, <3>1, LeastNumber
  <2>2. n \in Nat /\ ~\E f : DigitsTo(f, base, n)
    OBVIOUS
  <2>3. CASE n = 0
    <3> DEFINE f == [m \in 0 .. 0 |-> <<0>>]
    <3>1. \A m \in 0 .. 0 : m = 0 /\ f[m] = <<m>> /\ m < base
      OBVIOUS
    <3>2. DigitsTo(f, base, 0)
      <4> HIDE DEF f
      <4> QED
        BY <3>1 DEF DigitsTo, DigitsFrom
    <3> QED
      BY <2>2, <2>3, <3>2
  <2>4. CASE n # 0
    <3>1. n - 1 \in Nat /\ ~(n <= n - 1)
      BY <2>2, <2>4
    <3>2. PICK f : DigitsTo(f, base, n - 1)
      <4>1. n - 1 \notin bad
        <5> HIDE DEF bad
        <5> QED
          BY <2>1, <3>1
      <4> QED
        BY <3>1, <4>1
    <3> DEFINE h == [m \in 0 .. n |-> IF m < n THEN f[m] ELSE DigitsFrom(f, base, n)]
    <3>3. \A m \in 0 .. n : m < n => h[m] = f[m]
      OBVIOUS
    <3>4. ASSUME NEW m \in 0 .. n PROVE h[m] = DigitsFrom(f, base, m)
      <4>1. CASE m < n
        <5>1. m \in 0 .. n - 1
          BY <2>2, <4>1
        <5> QED
          BY <3>2, <4>1, <5>1 DEF DigitsTo
      <4>2. CASE ~(m < n)
        <5>1. m = n
          BY <2>2, <4>2
        <5> QED
          BY <4>2, <5>1
      <4> QED
        BY <4>1, <4>2
    <3> HIDE DEF h
    <3>5. ASSUME NEW m \in 0 .. n PROVE DigitsFrom(f, base, m) = DigitsFrom(h, base, m)
      <4>1. CASE m < base
        BY <4>1 DEF DigitsFrom
      <4>2. CASE ~(m < base)
        <5> DEFINE q == m \div base
        <5>1. q \in Nat /\ q < m
          <6>1. m \in Nat /\ m # 0
            BY <4>2
          <6> QED
            BY <6>1, QuotientBelow
        <5>2. q \in 0 .. n /\ q < n
          <6> HIDE DEF q
          <6> QED
            BY <2>2, <5>1
        <5>3. h[q] = f[q]
          <6> HIDE DEF q
          <6> QED
            BY <3>3, <5>2
        <5> QED
          BY <4>2, <5>3 DEF DigitsFrom
      <4> QED
        BY <4>1, <4>2
    <3>6. DigitsTo(h, base, n)
      BY <3>4, <3>5 DEF DigitsTo
    <3> QED
      BY <2>2, <3>6
  <2> QED
    BY <2>3, <2>4
<1> QED
  BY <1>1

\* The digits in d are those of m, maybe with zeros in front: h has the numbers that
\* are read with each further digit.
Reads(d, base, m, h) ==
    /\ d \in Seq(0 .. base - 1)
    /\ h \in [0 .. Len(d) -> Nat] /\ h[0] = 0 /\ h[Len(d)] = m
    /\ \A n \in 1 .. Len(d) : h[n] = h[n - 1] * base + d[n]
    /\ \A n \in 0 .. Len(d) : h[n] <= m

StandsFor(d, base, m) == \E h : Reads(d, base, m, h)

LEMMA ReadingMore ==
    ASSUME NEW base \in Nat, base > 1, NEW m \in Nat, NEW d, StandsFor(d, base, m),
           NEW e \in 0 .. base - 1
    PROVE  StandsFor(d \o <<e>>, base, m * base + e)
<1> DEFINE N == Len(d)
           k == m * base + e
           D == d \o <<e>>
<1>1. PICK h : Reads(d, base, m, h)
  BY DEF StandsFor
<1>2. /\ d \in Seq(0 .. base - 1) /\ N \in Nat /\ <<e>> \in Seq(0 .. base - 1) /\ Len(<<e>>) = 1
      /\ <<e>>[1] = e
  BY <1>1 DEF Reads
<1>3. /\ h \in [0 .. N -> Nat] /\ h[0] = 0 /\ h[N] = m
      /\ \A n \in 1 .. N : h[n] = h[n - 1] * base + d[n]
      /\ \A n \in 0 .. N : h[n] <= m /\ h[n] \in Nat
  BY <1>1 DEF Reads
<1>4. k \in Nat /\ m <= k
  <2>1. m * base \in Nat /\ m <= m * base
    OBVIOUS
  <2> DEFINE t == m * base
  <2>2. t \in Nat /\ m <= t /\ k = t + e
    BY <2>1
  <2> HIDE DEF t, k
  <2> QED
    BY <2>2
<1>5. /\ D \in Seq(0 .. base - 1) /\ Len(D) = N + 1
      /\ \A n \in 1 .. N + 1 : D[n] = IF n <= N THEN d[n] ELSE <<e>>[n - N]
  <2> HIDE DEF D, N
  <2> QED
    BY <1>2, ConcatProperties DEF D, N
<1> DEFINE g == [n \in 0 .. N + 1 |-> IF n <= N THEN h[n] ELSE k]
<1> HIDE DEF k, D, N
<1>6. /\ \A n \in 0 .. N : g[n] = h[n]
      /\ g[N + 1] = k
  BY <1>2
<1>7. g \in [0 .. N + 1 -> Nat]
  BY <1>2, <1>3, <1>4
<1> HIDE DEF g
<1>8. g[0] = 0 /\ g[N + 1] = k /\ \A n \in 0 .. N + 1 : g[n] <= k
  <2>1. 0 \in 0 .. N /\ \A n \in 0 .. N + 1 : n \in 0 .. N \/ n = N + 1
    BY <1>2
  <2>2. g[0] = 0
    BY <1>3, <1>6, <2>1
  <2>3. ASSUME NEW n \in 0 .. N + 1 PROVE g[n] <= k
    <3>1. CASE n \in 0 .. N
      <4>1. g[n] = h[n] /\ h[n] <= m /\ h[n] \in Nat
        BY <1>3, <1>6, <3>1
      <4> QED
        BY <1>4, <4>1
    <3>2. CASE n = N + 1
      BY <1>4, <1>6, <3>2
    <3> QED
      BY <2>1, <3>1, <3>2
  <2> QED
    BY <1>6, <2>2, <2>3
<1>9. ASSUME NEW n \in 1 .. N + 1 PROVE g[n] = g[n - 1] * base + D[n]
  <2>1. n - 1 \in 0 .. N /\ g[n - 1] = h[n - 1]
    BY <1>2, <1>6
  <2>2. CASE n <= N
    <3>1. n \in 1 .. N /\ n \in 0 .. N /\ D[n] = d[n]
      BY <1>2, <1>5, <2>2
    <3> QED
      BY <1>3, <1>6, <2>1, <3>1
  <2>3. CASE ~(n <= N)
    <3>1. n = N + 1 /\ n - 1 = N /\ n - N = 1
      BY <1>2, <2>3
    <3>2. D[n] = e
      BY <1>2, <1>5, <2>3, <3>1
    <3>3. g[n] = k /\ g[n - 1] = m
      BY <1>3, <1>6, <2>1, <3>1
    <3> QED
      BY <3>2, <3>3 DEF k
  <2> QED
    BY <2>2, <2>3
<1>10. Reads(D, base, k, g)
  BY <1>5, <1>7, <1>8, <1>9 DEF Reads
<1> QED
  BY <1>10 DEF StandsFor, D, k

LEMMA ReadingZeroFirst ==
    ASSUME NEW base \in Nat, base > 1, NEW m \in Nat, NEW d, StandsFor(d, base, m)
    PROVE  StandsFor(<<0>> \o d, base, m)
<1> DEFINE N == Len(d)
           D == <<0>> \o d
<1>1. PICK h : Reads(d, base, m, h)
  BY DEF StandsFor
<1>2. /\ d \in Seq(0 .. base - 1) /\ N \in Nat /\ <<0>> \in Seq(0 .. base - 1) /\ Len(<<0>>) = 1
      /\ <<0>>[1] = 0
  BY <1>1 DEF Reads
<1>3. /\ h \in [0 .. N -> Nat] /\ h[0] = 0 /\ h[N] = m
      /\ \A n \in 1 .. N : h[n] = h[n - 1] * base + d[n]
      /\ \A n \in 0 .. N : h[n] <= m /\ h[n] \in Nat
  BY <1>1 DEF Reads
<1>4. /\ D \in Seq(0 .. base - 1) /\ Len(D) = 1 + N
      /\ \A n \in 1 .. 1 + N : D[n] = IF n <= 1 THEN <<0>>[n] ELSE d[n - 1]
  <2> HIDE DEF D, N
  <2> QED
    BY <1>2, ConcatProperties DEF D, N
<1> DEFINE g == [n \in 0 .. 1 + N |-> IF n = 0 THEN 0 ELSE h[n - 1]]
<1> HIDE DEF D, N
<1>5. g[0] = 0 /\ \A n \in 1 .. 1 + N : g[n] = h[n - 1] /\ n - 1 \in 0 .. N
  BY <1>2
<1>6. g \in [0 .. 1 + N -> Nat]
  <2>1. \A n \in 0 .. 1 + N : n # 0 => n - 1 \in 0 .. N
    BY <1>2
  <2> QED
    BY <1>3, <2>1
<1> HIDE DEF g
<1>7. g[1 + N] = m /\ \A n \in 0 .. 1 + N : g[n] <= m
  <2>1. 1 + N \in 1 .. 1 + N /\ (1 + N) - 1 = N /\ \A n \in 0 .. 1 + N : n = 0 \/ n \in 1 .. 1 + N
    BY <1>2
  <2> QED
    BY <1>3, <1>5, <2>1
<1>8. ASSUME NEW n \in 1 .. 1 + N PROVE g[n] = g[n - 1] * base + D[n]
  <2>1. CASE n = 1
    <3>1. D[n] = 0 /\ g[n] = h[0] /\ n - 1 = 0
      BY <1>2, <1>4, <1>5, <2>1
    <3> QED
      BY <1>3, <1>5, <3>1
  <2>2. CASE n # 1
    <3> DEFINE j == n - 1
    <3>1. j \in 1 .. N /\ j \in 1 .. 1 + N /\ ~(n <= 1) /\ n - 1 = j
      BY <1>2, <2>2
    <3> HIDE DEF j
    <3>2. D[n] = d[j] /\ g[n] = h[j] /\ g[j] = h[j - 1]
      BY <1>4, <1>5, <3>1
    <3> QED
      BY <1>3, <3>1, <3>2
  <2> QED
    BY <2>1, <2>2
<1>9. Reads(D, base, m, g)
  BY <1>4, <1>5, <1>6, <1>7, <1>8 DEF Reads
<1> QED
  BY <1>9 DEF StandsFor, D

LEMMA DigitLengths ==
    ASSUME 6 <= MaxBitWidth, NEW d \in 1 .. 15
    PROVE  LengthOf(d) = 4 - (IF d < 2 THEN 3 ELSE IF d < 4 THEN 2 ELSE IF d < 8 THEN 1 ELSE 0)
<1> DEFINE l == 4 - (IF d < 2 THEN 3 ELSE IF d < 4 THEN 2 ELSE IF d < 8 THEN 1 ELSE 0)
<1>0. /\ 2 ^ 0 = 1 /\ 2 ^ 1 = 2 /\ 2 ^ 2 = 4 /\ 2 ^ 3 = 8 /\ 2 ^ 4 = 16 /\ Values(4) = 0 .. 15
      /\ 1 \in 0 .. MaxBitWidth /\ 2 \in 0 .. MaxBitWidth
      /\ 3 \in 0 .. MaxBitWidth /\ 4 \in 0 .. MaxBitWidth
  BY SmallPowers
<1>1. /\ IsLength(1, d) <=> d \in 0 .. 1 /\ 1 <= d
      /\ IsLength(2, d) <=> d \in 0 .. 3 /\ 2 <= d
      /\ IsLength(3, d) <=> d \in 0 .. 7 /\ 4 <= d
      /\ IsLength(4, d) <=> d \in 0 .. 15 /\ 8 <= d
  <2>1. 1 - 1 = 0 /\ 2 - 1 = 1 /\ 3 - 1 = 2 /\ 4 - 1 = 3
    OBVIOUS
  <2>2. Values(1) = 0 .. 1 /\ Values(2) = 0 .. 3 /\ Values(3) = 0 .. 7
    BY <1>0 DEF Values
  <2>3. /\ 2 ^ (1 - 1) = 1 /\ 2 ^ (2 - 1) = 2 /\ 2 ^ (3 - 1) = 4 /\ 2 ^ (4 - 1) = 8
    BY <1>0, <2>1
  <2> QED
    BY <1>0, <2>2, <2>3 DEF IsLength
<1>2. \A i \in 0 .. MaxBitWidth : IsLength(i, d) => i = LengthOf(d)
  <2>1. d \in Values(4) /\ 4 \in Nat /\ 4 <= MaxBitWidth
    BY <1>0
  <2> QED
    BY <2>1, Lengths
<1>3. l \in 0 .. MaxBitWidth /\ IsLength(l, d)
  <2>1. CASE d < 2
    BY <1>0, <1>1, <2>1
  <2>2. CASE ~(d < 2) /\ d < 4
    BY <1>0, <1>1, <2>2
  <2>3. CASE ~(d < 4) /\ d < 8
    BY <1>0, <1>1, <2>3
  <2>4. CASE ~(d < 8)
    BY <1>0, <1>1, <2>4
  <2> QED
    BY <2>1, <2>2, <2>3, <2>4
<1> HIDE DEF l
<1>4. l = LengthOf(d)
  BY <1>2, <1>3
<1> QED
  BY <1>4 DEF l

\* What the numbers read are.
LEMMA ReadsIs ==
    ASSUME NEW k \in Nat, k <= MaxBitWidth, NEW m \in Values(k), NEW d, NEW h, Reads(d, 16, m, h)
    PROVE  LET N == Len(d)
           IN  /\ N \in Nat /\ d \in Seq(0 .. 15) /\ DOMAIN d = 1 .. N /\ h[0] = 0 /\ h[N] = m
               /\ \A n \in 1 .. N : h[n] = h[n - 1] * 16 + d[n] /\ d[n] \in 0 .. 15
               /\ \A n \in 0 .. N : h[n] \in Values(k) /\ h[n] \in Nat
<1> DEFINE N == Len(d)
<1>1. 16 - 1 = 15
  OBVIOUS
<1>2. d \in Seq(0 .. 15) /\ h \in [0 .. N -> Nat]
  BY <1>1 DEF Reads
<1>3. N \in Nat /\ DOMAIN d = 1 .. N /\ \A n \in 1 .. N : d[n] \in 0 .. 15
  BY <1>2
<1>4. \A n \in 0 .. N : h[n] \in Nat
  BY <1>2
<1>5. \A n \in 0 .. N : h[n] \in Values(k)
  <2> DEFINE p == 2 ^ k
  <2>1. p \in Nat \ {0} /\ m \in 0 .. p - 1
    <3>1. k \in 0 .. MaxBitWidth
      BY MaxBitWidthAssumption
    <3> QED
      BY <3>1, PowerIs DEF Values
  <2>2. \A n \in 0 .. N : h[n] <= m
    BY DEF Reads
  <2> HIDE DEF p, N
  <2>3. \A n \in 0 .. N : h[n] \in 0 .. p - 1
    BY <1>4, <2>1, <2>2
  <2> QED
    BY <2>3 DEF Values, p
<1> HIDE DEF N
<1> QED
  BY <1>2, <1>3, <1>4, <1>5 DEF Reads, N

=============================================================================
