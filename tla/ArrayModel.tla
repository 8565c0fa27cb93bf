----------------------------- MODULE ArrayModel -----------------------------
(***************************************************************************)
(* btorsimam.cpp: a BtorSimArrayModel stores the elements accessed so far  *)
(* and how to make up the others.                                          *)
(***************************************************************************)
EXTENDS Integers, FiniteSets

None == -1   \* a null pointer: no constant initialisation, no element

NoData == [i \in {} |-> 0]

\* data: the accessed elements; const_init: the value of all others, or None;
\* random_seed: if not 0, the others are pseudo-random
NewArray == [data |-> NoData, const_init |-> None, random_seed |-> 0]

With(f, i, x) == [j \in DOMAIN f \cup {i} |-> IF j = i THEN x ELSE f[j]]

\* get_random_init, truncated to the element width w
get_random_init_untruncated(m, i, w) ==
    LET n == m.random_seed + i
    IN  (n * (n + 1)) \div 2 + i
get_random_init(m, i, w) ==
    LET n == m.random_seed + i
    IN  ((n * (n + 1)) \div 2 + i) % 2 ^ w

\* What an element that was not accessed yet holds.
Default(m, i, w) ==
    CASE m.const_init # None -> m.const_init
      [] m.const_init = None /\ m.random_seed # 0 -> get_random_init(m, i, w)
      [] OTHER -> 0

Element(m, i, w) == IF i \in DOMAIN m.data THEN m.data[i] ELSE Default(m, i, w)

\* read returns the element and leaves it in the array it is called on.
ReadEntry_not_kept(m, i, w) == m
ReadEntry(m, i, w) == [m EXCEPT !.data = With(@, i, Element(m, i, w))]

\* copy, and so everything that copies, starts with a random_seed of 0.
Copy(m) == [m EXCEPT !.random_seed = 0]

Write(m, i, e) == [Copy(m) EXCEPT !.data = With(@, i, e)]

SetConstInit(m, e) == [Copy(m) EXCEPT !.const_init = e]

Check(m, i) == IF i \in DOMAIN m.data THEN m.data[i] ELSE None

\* data_is_subset
DataIsSubset_stored(m, n, w) ==
    \A i \in DOMAIN m.data : i \in DOMAIN n.data /\ m.data[i] = n.data[i]
DataIsSubset(m, n, w) == \A i \in DOMAIN m.data : m.data[i] = Element(n, i, w)

\* operator==, for 2^v elements
Equal_one_way(m, n, v, w) ==
    /\ Cardinality(DOMAIN m.data) # 2 ^ v =>
         /\ m.const_init = n.const_init
         /\ m.const_init = None => m.random_seed = n.random_seed
    /\ DataIsSubset(m, n, w)
Equal(m, n, v, w) ==
    /\ Cardinality(DOMAIN m.data) # 2 ^ v =>
         /\ m.const_init = n.const_init
         /\ m.const_init = None => m.random_seed = n.random_seed
    /\ DataIsSubset(m, n, w)
    /\ DataIsSubset(n, m, w)

\* btorsim_am_ite
Choose(c, t, e) == Copy(IF c = 1 THEN t ELSE e)

=============================================================================
