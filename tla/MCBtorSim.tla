----------------------------- MODULE MCBtorSim -----------------------------
(***************************************************************************)
(* BtorSim on small models.                                                *)
(***************************************************************************)
EXTENDS BtorSim, SmallModels

CONSTANTS
    Claims,     \* numbers of bad properties a witness may claim
    Positions,  \* of the states and inputs it may assign to
    Headers,    \* numbers of frames that occur
    Indices,    \* indices of array assignments
    Noise       \* further tokens, by kind

----------------------------------------------------------------------------
(* Models.                                                                 *)

BitModels       == {Parsed(Counter), Parsed(Flags), Parsed(Free)}
ArrayModels     == {Parsed(Memories), Parsed(Swap), Parsed(Copied)}
SimulatedModels == BitModels \cup ArrayModels
\* Each of these makes the program fail in its own way.
FailingModels   == {Parsed(f) : f \in {MemoryInput, Overflow, LastIsState, NegatedBad}}
AllModels       == SimulatedModels \cup FailingModels

\* What the theorems about runs suppose of a model holds of these.
ASSUME SimulatedAssumption ==
    \A T \in SimulatedModels : Simulatable(T) /\ WellSorted(T) /\ Comparable(T)

----------------------------------------------------------------------------
(* Tokens.                                                                 *)

Tok(kind, n, i, v) == [kind |-> kind, n |-> n, idx |-> i, val |-> v]

MCToken ==
    {Tok(x, 0, 0, 0) : x \in {"sat", ".", "newline"} \cup Noise}
    \cup {Tok("claim", n, 0, 0) : n \in Claims}
    \cup {Tok(x, n, 0, 0) : x \in {"#", "@"}, n \in Headers}
    \cup {Tok("assign", n, NoIndex, v) : n \in Positions, v \in 0 .. 2}
    \cup {Tok("assign", n, NoIndex, 0) : n \in {10, 100}}
    \cup {Tok("assign", n, i, v) : n \in Positions, i \in Indices, v \in 0 .. 2}

AnyIndex == {0, 1, AllIndices}
NoIndices == {}

=============================================================================
