-------------------------- MODULE ArrayStoreProofs --------------------------
(***************************************************************************)
(* Theorems on ArrayStore, for arrays of all widths and all seeds.         *)
(***************************************************************************)
EXTENDS ArrayStore, FiniteSetTheorems, TLAPS

\* The array models there are.
Model == [data : UNION {[D -> Elements] : D \in SUBSET Indices},
          const_init : Elements \cup {None},
          random_seed : Nat]

ModelInv == /\ am \in [Slots -> Model]
            /\ \A s \in Slots : am[s].random_seed \in Seeds \cup {0}
            /\ mem \in [Slots -> [Indices -> Elements]]
            /\ fixed \in [Slots -> SUBSET Indices]

\* Zero is an element, and a pseudo-random element is truncated to one.
LEMMA Truncated ==
    /\ 0 \in Elements /\ Indices \subseteq Nat
    /\ \A n \in Nat : n % 2 ^ ElementWidth \in Elements
<1> DEFINE p == 2 ^ ElementWidth
           q == 2 ^ IndexWidth
<1>1. p \in Nat \ {0} /\ q \in Nat \ {0}
  BY StoreAssumption
<1>2. Elements = 0 .. p - 1 /\ Indices = 0 .. q - 1
  BY DEF Elements, Indices
<1> HIDE DEF p, q
<1>3. 0 \in Elements /\ Indices \subseteq Nat /\ \A n \in Nat : n % p \in Elements
  BY <1>1, <1>2
<1> QED
  BY <1>3 DEF p

\* What an array holds at an index is an element.
LEMMA ElementType ==
    ASSUME NEW m \in Model, NEW i \in Indices
    PROVE  Element(m, i, ElementWidth) \in Elements
<1>1. get_random_init(m, i, ElementWidth) \in Elements
  <2> DEFINE n == m.random_seed + i
             r == (n * (n + 1)) \div 2 + i
  <2>1. i \in Nat /\ n \in Nat
    BY Truncated DEF Model
  <2>2. n * (n + 1) \in Nat
    BY <2>1
  <2>3. r \in Nat
    <3> HIDE DEF n
    <3>1. \A x \in Nat : x \div 2 \in Nat
      OBVIOUS
    <3> QED
      BY <2>1, <2>2, <3>1
  <2> HIDE DEF r
  <2>4. r % 2 ^ ElementWidth \in Elements
    BY <2>3, Truncated
  <2> QED
    BY <2>4 DEF get_random_init, r
<1>2. Default(m, i, ElementWidth) \in Elements
  <2> HIDE DEF Elements
  <2> QED
    BY <1>1, Truncated DEF Default, Model
<1>3. i \in DOMAIN m.data => m.data[i] \in Elements
  BY DEF Model
<1> QED
  BY <1>2, <1>3 DEF Element

\* Adding an entry to the stored elements.
LEMMA WithType ==
    ASSUME NEW m \in Model, NEW i \in Indices, NEW x \in Elements
    PROVE  With(m.data, i, x) \in UNION {[D -> Elements] : D \in SUBSET Indices}
<1>1. PICK D \in SUBSET Indices : m.data \in [D -> Elements]
  BY DEF Model
<1>2. With(m.data, i, x) \in [D \cup {i} -> Elements]
  BY <1>1 DEF With
<1> QED
  BY <1>2

\* read changes no element of the array, and stores the one that was read.
LEMMA ReadKeeps ==
    ASSUME NEW m \in Model, NEW i \in Indices
    PROVE  LET r == ReadEntry(m, i, ElementWidth)
           IN  /\ r \in Model /\ r.random_seed = m.random_seed
               /\ DOMAIN r.data = DOMAIN m.data \cup {i}
               /\ \A j \in Indices : Element(r, j, ElementWidth) = Element(m, j, ElementWidth)
<1> DEFINE r == ReadEntry(m, i, ElementWidth)
           x == Element(m, i, ElementWidth)
<1>1. /\ x \in Elements
      /\ With(m.data, i, x) \in UNION {[D -> Elements] : D \in SUBSET Indices}
  BY ElementType, WithType
<1>2. /\ r \in Model
      /\ r.data = With(m.data, i, x)
      /\ r.const_init = m.const_init /\ r.random_seed = m.random_seed
  BY <1>1 DEF ReadEntry, Model
<1>3. ASSUME NEW j \in Indices
      PROVE  Element(r, j, ElementWidth) = Element(m, j, ElementWidth)
  <2> HIDE DEF r
  <2>1. Default(r, j, ElementWidth) = Default(m, j, ElementWidth)
    BY <1>2 DEF Default, get_random_init
  <2> QED
    BY <1>2, <2>1 DEF Element, With
<1>4. DOMAIN r.data = DOMAIN m.data \cup {i}
  BY <1>2 DEF With
<1> QED
  BY <1>2, <1>3, <1>4

\* copy forgets the seed only, so that the copy of an array without one, and what is
\* stored of any array, reads as before.
LEMMA CopyKeeps ==
    ASSUME NEW m \in Model
    PROVE  /\ Copy(m) \in Model
           /\ Copy(m).random_seed = 0
           /\ \A j \in Indices : m.random_seed = 0 \/ j \in DOMAIN m.data =>
                Element(Copy(m), j, ElementWidth) = Element(m, j, ElementWidth)
<1>1. /\ Copy(m) \in Model /\ Copy(m).random_seed = 0
      /\ Copy(m).data = m.data
      /\ m.random_seed = 0 => Copy(m) = m
  BY DEF Copy, Model
<1> QED
  BY <1>1 DEF Element

\* A write sets one element of a copy.
LEMMA WriteSets ==
    ASSUME NEW m \in Model, NEW i \in Indices, NEW e \in Elements
    PROVE  LET r == Write(m, i, e)
           IN  /\ r \in Model /\ r.random_seed = 0
               /\ \A j \in Indices :
                    Element(r, j, ElementWidth) =
                      IF j = i THEN e ELSE Element(Copy(m), j, ElementWidth)
<1> DEFINE c == Copy(m)
           r == Write(m, i, e)
<1>1. c \in Model /\ c.random_seed = 0
  BY CopyKeeps
<1>2. /\ r \in Model
      /\ r.data = With(c.data, i, e)
      /\ r.const_init = c.const_init /\ r.random_seed = 0
  <2> HIDE DEF c
  <2>1. With(c.data, i, e) \in UNION {[D -> Elements] : D \in SUBSET Indices}
    BY <1>1, WithType
  <2> QED
    BY <1>1, <2>1 DEF Write, Model, c
<1>3. ASSUME NEW j \in Indices
      PROVE  Element(r, j, ElementWidth) =
               IF j = i THEN e ELSE Element(c, j, ElementWidth)
  <2> HIDE DEF r, c
  <2>1. Default(r, j, ElementWidth) = Default(c, j, ElementWidth)
    BY <1>1, <1>2 DEF Default, get_random_init
  <2> QED
    BY <1>2, <2>1 DEF Element, With
<1> QED
  BY <1>2, <1>3

\* A new array: it denotes what its seed makes up, or what it is filled with.
LEMMA NewModel ==
    /\ \A seed \in Seeds : [NewArray EXCEPT !.random_seed = seed] \in Model
    /\ NewArray \in Model /\ Denotes(NewArray) = [i \in Indices |-> 0]
    /\ \A e \in Elements : /\ SetConstInit(NewArray, e) \in Model
                           /\ Denotes(SetConstInit(NewArray, e)) = [i \in Indices |-> e]
<1>1. NoData \in UNION {[D -> Elements] : D \in SUBSET Indices} /\ DOMAIN NoData = {}
  <2>1. NoData \in [{} -> Elements]
    BY DEF NoData
  <2> QED
    BY <2>1
<1>2. /\ NewArray \in Model
      /\ \A seed \in Seeds : [NewArray EXCEPT !.random_seed = seed] \in Model
  BY <1>1, StoreAssumption DEF NewArray, Model
<1>3. ASSUME NEW e \in Elements
      PROVE  /\ SetConstInit(NewArray, e) \in Model
             /\ Denotes(SetConstInit(NewArray, e)) = [i \in Indices |-> e]
  <2> DEFINE m == SetConstInit(NewArray, e)
  <2>1. m = [data |-> NoData, const_init |-> e, random_seed |-> 0]
    <3>1. Copy(NewArray) = [data |-> NoData, const_init |-> None, random_seed |-> 0]
      BY DEF Copy, NewArray
    <3> QED
      BY <3>1 DEF SetConstInit
  <2>2. m \in Model
    BY <1>1, <2>1 DEF Model
  <2>3. e # None
    BY Truncated, StoreAssumption DEF None, Elements
  <2> HIDE DEF m
  <2>4. \A i \in Indices : Element(m, i, ElementWidth) = e
    BY <1>1, <2>1, <2>3 DEF Element, Default
  <2> QED
    BY <2>2, <2>4 DEF Denotes, m
<1>4. Denotes(NewArray) = [i \in Indices |-> 0]
  BY <1>1 DEF Denotes, Element, Default, NewArray
<1> QED
  BY <1>2, <1>3, <1>4

----------------------------------------------------------------------------
(* Invariants.                                                             *)

\* What an array that is put into a slot must satisfy, together with the memory put
\* beside it and the elements that are fixed: those it reads as the memory, and since a
\* copy drops the seed, it stores them if it has one.
Fits(m, f, F) == /\ m \in Model
                 /\ m.random_seed \in Seeds \cup {0}
                 /\ f \in [Indices -> Elements]
                 /\ F \in SUBSET Indices
                 /\ \A i \in F : Element(m, i, ElementWidth) = f[i]
                 /\ m.random_seed # 0 => F \subseteq DOMAIN m.data

Stored == \A s \in Slots : am[s].random_seed # 0 => fixed[s] \subseteq DOMAIN am[s].data

IInv == ModelInv /\ FixedReadsAsMemory /\ Stored

LEMMA DenotesType ==
    ASSUME NEW m \in Model
    PROVE  /\ Denotes(m) \in [Indices -> Elements]
           /\ \A i \in Indices : Denotes(m)[i] = Element(m, i, ElementWidth)
BY ElementType DEF Denotes

LEMMA NewFits ==
    ASSUME NEW seed \in Seeds
    PROVE  LET m == [NewArray EXCEPT !.random_seed = seed]
           IN  Fits(m, Denotes(m), IF seed = 0 THEN Indices ELSE {})
<1> DEFINE m == [NewArray EXCEPT !.random_seed = seed]
<1>1. m \in Model /\ m.random_seed = seed
  BY NewModel DEF NewArray
<1> HIDE DEF m
<1>2. Fits(m, Denotes(m), IF seed = 0 THEN Indices ELSE {})
  BY <1>1, DenotesType DEF Fits
<1> QED
  BY <1>2 DEF m

LEMMA NewConstFits ==
    ASSUME NEW e \in Elements
    PROVE  Fits(SetConstInit(NewArray, e), [i \in Indices |-> e], Indices)
<1> DEFINE m == SetConstInit(NewArray, e)
<1>1. m.random_seed = 0
  BY DEF SetConstInit, Copy, NewArray
<1>2. m \in Model /\ Denotes(m) = [i \in Indices |-> e]
  BY NewModel
<1> HIDE DEF m
<1>3. Fits(m, [i \in Indices |-> e], Indices)
  BY <1>1, <1>2, DenotesType DEF Fits
<1> QED
  BY <1>3 DEF m

LEMMA CopyFits ==
    ASSUME NEW m, NEW f, NEW F, Fits(m, f, F)
    PROVE  Fits(Copy(m), f, F)
BY CopyKeeps DEF Fits

LEMMA WriteFits ==
    ASSUME NEW m, NEW f, NEW F, Fits(m, f, F), NEW i \in Indices, NEW e \in Elements
    PROVE  Fits(Write(m, i, e), [f EXCEPT ![i] = e], F \cup {i})
<1> DEFINE r == Write(m, i, e)
           g == [f EXCEPT ![i] = e]
<1>1. /\ r \in Model /\ r.random_seed = 0
      /\ \A j \in Indices : Element(r, j, ElementWidth) =
                              IF j = i THEN e ELSE Element(Copy(m), j, ElementWidth)
  BY WriteSets DEF Fits
<1>2. /\ g \in [Indices -> Elements]
      /\ \A j \in Indices : g[j] = IF j = i THEN e ELSE f[j]
  BY DEF Fits
<1>3. F \in SUBSET Indices /\ \A j \in F : Element(Copy(m), j, ElementWidth) = f[j]
  BY CopyFits DEF Fits
<1> HIDE DEF r, g
<1>4. Fits(r, g, F \cup {i})
  BY <1>1, <1>2, <1>3 DEF Fits
<1> QED
  BY <1>4 DEF r, g

LEMMA ReadFits ==
    ASSUME NEW s \in Slots, Fits(am[s], mem[s], fixed[s]), NEW i \in Indices
    PROVE  Fits(ReadEntry(am[s], i, ElementWidth), Settled(s, i), fixed[s] \cup {i})
<1> DEFINE r == ReadEntry(am[s], i, ElementWidth)
           g == Settled(s, i)
           x == Element(am[s], i, ElementWidth)
<1>1. /\ r \in Model /\ r.random_seed = am[s].random_seed
      /\ DOMAIN r.data = DOMAIN am[s].data \cup {i}
      /\ \A j \in Indices : Element(r, j, ElementWidth) = Element(am[s], j, ElementWidth)
  BY ReadKeeps DEF Fits
<1>2. x \in Elements
  BY ElementType DEF Fits
<1>3. /\ g \in [Indices -> Elements] /\ g[i] = x
      /\ \A j \in fixed[s] : g[j] = mem[s][j]
  <2> HIDE DEF x
  <2>1. CASE i \in fixed[s]
    BY <2>1 DEF Settled, Fits, x
  <2>2. CASE i \notin fixed[s]
    <3>1. g = [mem[s] EXCEPT ![i] = x]
      BY <2>2 DEF Settled, x
    <3> HIDE DEF g
    <3> QED
      BY <1>2, <2>2, <3>1 DEF Fits
  <2> QED
    BY <2>1, <2>2
<1> HIDE DEF r, g
<1>4. Fits(r, g, fixed[s] \cup {i})
  BY <1>1, <1>3 DEF Fits
<1> QED
  BY <1>4 DEF r, g

\* Every call puts an array into a slot that fits what is put beside it.
LEMMA CallSets ==
    ASSUME IInv, Next
    PROVE  \E s \in Slots : \E m, f, F : Set(s, m, f, F) /\ Fits(m, f, F)
<1>1. PICK s \in Slots : \/ New(s) \/ NewConst(s) \/ Read(s)
                         \/ WriteTo(s) \/ CopyTo(s) \/ ChooseTo(s)
  BY DEF Next
<1>2. \A q \in Slots : Fits(am[q], mem[q], fixed[q])
  BY DEF Fits, IInv, ModelInv, FixedReadsAsMemory, Stored
<1>3. CASE New(s)
  BY <1>3, NewFits DEF New
<1>4. CASE NewConst(s)
  BY <1>4, NewConstFits DEF NewConst
<1>5. CASE Read(s)
  BY <1>2, <1>5, ReadFits DEF Read
<1>6. CASE WriteTo(s)
  BY <1>2, <1>6, WriteFits DEF WriteTo
<1>7. CASE CopyTo(s)
  BY <1>2, <1>7, CopyFits DEF CopyTo
<1>8. CASE ChooseTo(s)
  BY <1>2, <1>8, CopyFits DEF ChooseTo, Choose, Slots
<1> QED
  BY <1>1, <1>3, <1>4, <1>5, <1>6, <1>7, <1>8

\* Every array in a slot is an array model that fits the memory beside it.
THEOREM StoreInvariant == Spec => []IInv
<1>1. Init => IInv
  <2> SUFFICES ASSUME Init PROVE IInv
    OBVIOUS
  <2>1. /\ NewArray \in Model /\ NewArray.random_seed = 0
        /\ Denotes(NewArray) = [i \in Indices |-> 0]
    BY NewModel DEF NewArray
  <2>2. /\ am = [s \in Slots |-> NewArray]
        /\ mem = [s \in Slots |-> [i \in Indices |-> 0]]
        /\ fixed = [s \in Slots |-> Indices]
    BY DEF Init
  <2> HIDE DEF NewArray
  <2>3. \A i \in Indices : Element(NewArray, i, ElementWidth) = 0
    BY <2>1, DenotesType
  <2> QED
    BY <2>1, <2>2, <2>3, Truncated DEF IInv, ModelInv, FixedReadsAsMemory, Stored
<1>2. IInv /\ [Next]_vars => IInv'
  <2> SUFFICES ASSUME IInv, [Next]_vars PROVE IInv'
    OBVIOUS
  <2>1. CASE Next
    <3>1. PICK s \in Slots : \E m, f, F : Set(s, m, f, F) /\ Fits(m, f, F)
      BY <2>1, CallSets
    <3>2. PICK m, f, F : Set(s, m, f, F) /\ Fits(m, f, F)
      BY <3>1
    <3>3. /\ am' \in [Slots -> Model] /\ mem' \in [Slots -> [Indices -> Elements]]
          /\ fixed' \in [Slots -> SUBSET Indices]
          /\ \A q \in Slots : /\ am'[q] = IF q = s THEN m ELSE am[q]
                              /\ mem'[q] = IF q = s THEN f ELSE mem[q]
                              /\ fixed'[q] = IF q = s THEN F ELSE fixed[q]
      BY <3>2 DEF Set, Fits, IInv, ModelInv
    <3> QED
      BY <3>2, <3>3 DEF Fits, IInv, ModelInv, FixedReadsAsMemory, Stored
  <2>2. CASE UNCHANGED vars
    BY <2>2 DEF vars, IInv, ModelInv, FixedReadsAsMemory, Stored
  <2> QED
    BY <2>1, <2>2
<1> QED
  BY <1>1, <1>2, PTL DEF Spec

\* Spec => []TypeOK: arrays hold elements of their width at indices of theirs.
THEOREM Typing == Spec => []TypeOK
<1>1. IInv => TypeOK
  BY DEF IInv, ModelInv, Model, TypeOK, ArrayType
<1> QED
  BY <1>1, StoreInvariant, PTL

\* Spec => []FixedReadsAsMemory: an element that was read or written keeps its value
\* in every copy, although the copies lose the seed, for arrays of any width.
THEOREM Reads == Spec => []FixedReadsAsMemory
BY StoreInvariant, PTL DEF IInv

\* Arrays that operator== calls equal denote the same memory: either not all
\* elements are stored, and those that are not stored have the same default, or
\* all are, and then they are compared one by one.
LEMMA EqualDenotes ==
    ASSUME NEW m \in Model, NEW n \in Model,
           Equal(m, n, IndexWidth, ElementWidth)
    PROVE  Denotes(m) = Denotes(n)
<1>1. ASSUME NEW i \in Indices
      PROVE  Element(m, i, ElementWidth) = Element(n, i, ElementWidth)
  <2>1. /\ i \in DOMAIN m.data => m.data[i] = Element(n, i, ElementWidth)
        /\ i \in DOMAIN n.data => n.data[i] = Element(m, i, ElementWidth)
    BY DEF Equal, DataIsSubset
  <2>2. CASE Cardinality(DOMAIN m.data) # 2 ^ IndexWidth
    <3>1. Default(m, i, ElementWidth) = Default(n, i, ElementWidth)
      BY <2>2 DEF Equal, Default, get_random_init
    <3> QED
      BY <2>1, <3>1 DEF Element
  <2>3. CASE Cardinality(DOMAIN m.data) = 2 ^ IndexWidth
    <3>1. IsFiniteSet(Indices) /\ Cardinality(Indices) = 2 ^ IndexWidth
      <4> DEFINE q == 2 ^ IndexWidth
      <4>1. q \in Nat \ {0} /\ Indices = 0 .. q - 1
        BY StoreAssumption DEF Indices
      <4> HIDE DEF q
      <4>2. IsFiniteSet(0 .. q - 1) /\ Cardinality(0 .. q - 1) = q
        BY <4>1, FS_Interval
      <4> QED
        BY <4>1, <4>2 DEF q
    <3>2. DOMAIN m.data \in SUBSET Indices
      BY DEF Model
    <3>3. DOMAIN m.data = Indices
      BY <2>3, <3>1, <3>2, FS_Subset
    <3> QED
      BY <2>1, <3>3 DEF Element
  <2> QED
    BY <2>2, <2>3
<1> QED
  BY <1>1 DEF Denotes

\* Spec => []EqualIsSound: if btorsim takes two arrays for equal, they read the same
\* at every index, and what was fixed of both is the same, whatever was read from and
\* written to them before.
THEOREM Equality == Spec => []EqualIsSound
<1>1. IInv => EqualIsSound
  <2> SUFFICES ASSUME IInv, Equal(am["a"], am["b"], IndexWidth, ElementWidth)
               PROVE  /\ Denotes(am["a"]) = Denotes(am["b"])
                      /\ \A i \in fixed["a"] \cap fixed["b"] : mem["a"][i] = mem["b"][i]
    BY DEF EqualIsSound
  <2>1. am["a"] \in Model /\ am["b"] \in Model
    BY DEF IInv, ModelInv, Slots
  <2>2. Denotes(am["a"]) = Denotes(am["b"])
    BY <2>1, EqualDenotes
  <2>3. \A i \in Indices :
          Element(am["a"], i, ElementWidth) = Element(am["b"], i, ElementWidth)
    BY <2>1, <2>2, DenotesType
  <2>4. /\ fixed["a"] \subseteq Indices
        /\ \A i \in fixed["a"] : Element(am["a"], i, ElementWidth) = mem["a"][i]
        /\ \A i \in fixed["b"] : Element(am["b"], i, ElementWidth) = mem["b"][i]
    BY DEF IInv, ModelInv, FixedReadsAsMemory, Slots
  <2> QED
    BY <2>2, <2>3, <2>4
<1> QED
  BY <1>1, StoreInvariant, PTL

\* Spec => []EqualAfterRead: an array equals what a read makes of it, either way.
THEOREM EqualityAfterRead == Spec => []EqualAfterRead
<1>1. ASSUME NEW m \in Model, NEW i \in Indices
      PROVE  LET r == ReadEntry(m, i, ElementWidth)
             IN  /\ Equal(m, r, IndexWidth, ElementWidth)
                 /\ Equal(r, m, IndexWidth, ElementWidth)
  <2> DEFINE r == ReadEntry(m, i, ElementWidth)
  <2>1. /\ r.data = With(m.data, i, Element(m, i, ElementWidth))
        /\ r.const_init = m.const_init /\ r.random_seed = m.random_seed
    BY DEF ReadEntry, Model
  <2> HIDE DEF r
  <2>2. \A j \in DOMAIN m.data : m.data[j] = Element(r, j, ElementWidth)
    BY <2>1 DEF With, Element
  <2>3. \A j \in DOMAIN r.data : r.data[j] = Element(m, j, ElementWidth)
    BY <2>1 DEF With, Element
  <2> QED
    BY <2>1, <2>2, <2>3 DEF Equal, DataIsSubset, r
<1>2. IInv => EqualAfterRead
  BY <1>1 DEF IInv, ModelInv, EqualAfterRead
<1> QED
  BY <1>2, StoreInvariant, PTL

=============================================================================
