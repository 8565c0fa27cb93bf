-------------------------- MODULE TransitionSystem --------------------------
(***************************************************************************)
(* What a BTOR2 model means, independent of how btorsim evaluates it: a    *)
(* run is a sequence of complete valuations, one per time frame, each of   *)
(* which satisfies the equations of all operator lines.  States follow     *)
(* their init and next lines, inputs and states without them are free.     *)
(* Along the run it is recorded when a constraint was violated first, and  *)
(* when each bad state property was reached first, up to that violation.   *)
(***************************************************************************)
EXTENDS Btor2Semantics

CONSTANT
    Models   \* the tables of lines that may be simulated

VARIABLES
    model,    \* the table
    time,     \* the last time frame, -1 before the first
    val,      \* its valuation
    reached,  \* bad line -> frame in which it was reached first, or -1
    violated  \* frame in which a constraint was violated first, or -1

vars == <<model, time, val, reached, violated>>

NoValues == [i \in {} |-> 0]

\* Every operator has the value its arguments determine.
Consistent(T, v) ==
    /\ DOMAIN v = ValueLines(T)
    /\ \A i \in Operators(T) : v[i] = Compute(T, v, i)

\* A bit-vector leaf has a value of its width.
WithinSorts(T, v) ==
    \A i \in Leaves(T) : IsBitvec(T[i]) => v[i] \in Values(Width(T[i]))

Initial(T, v) == \A s \in StateIds(T) : T[s].init # 0 => v[s] = InitValue(T, v, s)

Successor(T, v, w) ==
    \A s \in StateIds(T) : T[s].next # 0 => w[s] = ArgValue(T, v, T[s].next)

\* The arguments of a bad and of a constraint line may be negated.
Holds(T, v, l) == ArgValue(T, v, T[l].args[1]) # 0

Violates(T, v) == \E c \in LinesOf(T, "constraint") : ~Holds(T, v, c)

Init == /\ model \in Models
        /\ time = -1
        /\ val = NoValues
        /\ reached = [b \in LinesOf(model, "bad") |-> -1]
        /\ violated = -1

Frame == /\ time' = time + 1
         /\ Consistent(model, val')
         /\ WithinSorts(model, val')
         /\ IF time = -1 THEN Initial(model, val')
                         ELSE Successor(model, val, val')
         /\ violated' = IF violated = -1 /\ Violates(model, val')
                        THEN time' ELSE violated
         /\ reached' = [b \in DOMAIN reached |->
                          IF /\ violated' = -1
                             /\ reached[b] = -1
                             /\ Holds(model, val', b)
                          THEN time' ELSE reached[b]]
         /\ UNCHANGED model

Spec == Init /\ [][Frame]_vars

=============================================================================
