----------------------------- MODULE ArrayStore -----------------------------
(***************************************************************************)
(* Array models under the calls btorsim makes of them, beside the memories *)
(* they stand for: "mem" holds each array as a total function from indices *)
(* to elements, on which a copy is a copy and a write sets one element.    *)
(***************************************************************************)
EXTENDS ArrayModel

CONSTANTS
    IndexWidth, ElementWidth,   \* of all arrays
    Seeds                       \* what btorsim_rng_rand may return

\* The powers are positive numbers, a fact of arithmetic the provers do not know.
ASSUME StoreAssumption ==
    /\ IndexWidth \in Nat \ {0} /\ 2 ^ IndexWidth \in Nat \ {0}
    /\ ElementWidth \in Nat \ {0} /\ 2 ^ ElementWidth \in Nat \ {0}
    /\ Seeds \subseteq Nat

Slots    == {"a", "b"}
Indices  == 0 .. 2 ^ IndexWidth - 1
Elements == 0 .. 2 ^ ElementWidth - 1

VARIABLES
    am,      \* slot -> array model
    mem,     \* slot -> memory
    fixed    \* slot -> the indices whose element a call has shown or set, for this
             \* array or the one it was copied from

vars == <<am, mem, fixed>>

ArrayType(m) ==
    /\ DOMAIN m.data \subseteq Indices
    /\ \A i \in DOMAIN m.data : m.data[i] \in Elements
    /\ m.const_init \in Elements \cup {None}
    /\ m.random_seed \in Seeds \cup {0}

TypeOK == /\ DOMAIN am = Slots /\ \A s \in Slots : ArrayType(am[s])
          /\ mem \in [Slots -> [Indices -> Elements]]
          /\ fixed \in [Slots -> SUBSET Indices]

Denotes(m) == [i \in Indices |-> Element(m, i, ElementWidth)]

Set(s, m, f, F) == /\ am' = [am EXCEPT ![s] = m]
                   /\ mem' = [mem EXCEPT ![s] = f]
                   /\ fixed' = [fixed EXCEPT ![s] = F]

Init == /\ am = [s \in Slots |-> NewArray]
        /\ mem = [s \in Slots |-> [i \in Indices |-> 0]]
        /\ fixed = [s \in Slots |-> Indices]

\* A new array for a state or an input without a value: zeroes, or a random memory
\* if a seed is set, of which nobody knows an element yet.
New(s) == \E seed \in Seeds :
             LET m == [NewArray EXCEPT !.random_seed = seed]
             IN  Set(s, m, Denotes(m), IF seed = 0 THEN Indices ELSE {})

NewConst(s) == \E e \in Elements :
                  Set(s, SetConstInit(NewArray, e), [i \in Indices |-> e], Indices)

\* A read shows an element, and settles it if no call has before.
Settled(s, i) == IF i \in fixed[s] THEN mem[s]
                 ELSE [mem[s] EXCEPT ![i] = Element(am[s], i, ElementWidth)]

Read(s) == \E i \in Indices : Set(s, ReadEntry(am[s], i, ElementWidth), Settled(s, i),
                                  fixed[s] \cup {i})

WriteTo(s) == \E q \in Slots, i \in Indices, e \in Elements :
                 Set(s, Write(am[q], i, e), [mem[q] EXCEPT ![i] = e], fixed[q] \cup {i})

CopyTo(s) == \E q \in Slots : Set(s, Copy(am[q]), mem[q], fixed[q])

ChooseTo(s) == \E c \in 0 .. 1 :
                  LET q == IF c = 1 THEN "a" ELSE "b" IN
                  Set(s, Choose(c, am["a"], am["b"]), mem[q], fixed[q])

Next == \E s \in Slots :
           New(s) \/ NewConst(s) \/ Read(s) \/ WriteTo(s) \/ CopyTo(s) \/ ChooseTo(s)

Spec == Init /\ [][Next]_vars

----------------------------------------------------------------------------
\* btorsimam.cpp:30, "Otherwise reading the same element twice might not give the
\* same value": an element that was read or written once keeps its value, in the array
\* and in all that is copied from it, until it is written again.  Of an array without
\* a seed this is said of every element, of a random one not of those that nobody has
\* asked for yet.
FixedReadsAsMemory ==
    \A s \in Slots : \A i \in fixed[s] : Element(am[s], i, ElementWidth) = mem[s][i]

\* Arrays that compare equal read the same at every index from then on, whatever of
\* them was accessed, and so did what is known of the memories they stand for.
EqualIsSound ==
    Equal(am["a"], am["b"], IndexWidth, ElementWidth) =>
        /\ Denotes(am["a"]) = Denotes(am["b"])
        /\ \A i \in fixed["a"] \cap fixed["b"] : mem["a"][i] = mem["b"][i]

\* An array equals itself, and equals what one more read makes of it.
EqualAfterRead ==
    \A s \in Slots, i \in Indices :
       LET m == ReadEntry(am[s], i, ElementWidth)
       IN  /\ Equal(am[s], m, IndexWidth, ElementWidth)
           /\ Equal(m, am[s], IndexWidth, ElementWidth)

----------------------------------------------------------------------------
\* btorsimam.h:92, "return a copy of the array", and :83, "return a copy of the array
\* with the element written at index": a copy reads as the array it was made of, also
\* where nobody has read yet, so that storing elements on access only is invisible.
ReadsAsMemory == \A s \in Slots : Denotes(am[s]) = mem[s]

=============================================================================
