----------------------------- MODULE Btor2Aiger -----------------------------
(***************************************************************************)
(* btor2aiger.cpp: a model without arrays becomes an AIGER circuit.        *)
(*                                                                         *)
(* Boolector, which is not in the repository, turns every line into bits:  *)
(* a literal is a bit of a line here, and has that bit's value in every    *)
(* valuation of the inputs and states.  What else is open about it is      *)
(* which initial values it finds to be constant.  After the translation    *)
(* the circuit runs, as the AIGER format defines it.                       *)
(***************************************************************************)
EXTENDS Btor2Semantics

CONSTANTS
    Models,        \* the tables btor2parser may have read
    IgnoreErrors,  \* the option -i
    MaxFrames      \* bound: the circuit runs for this many frames

ASSUME OptionsAssumption == IgnoreErrors \in BOOLEAN /\ MaxFrames \in Nat

\* What the parser guarantees of a table.
ASSUME ModelsAssumption == \A T \in Models : Wired(T)

VARIABLES
    model,            \* the lines of the model
    pc,               \* the loop of generate_aiger, or "circuit", or "error"
    left,             \* the lines the loop has still to visit
    folded,           \* <<state, bit>>: the bits of initial values found constant
    aig,              \* the circuit
    init_constrains,  \* pairs of literals: a latch and its initial value
    time, val,        \* the last frame of the run, and the values in it
    reached           \* bad line -> frame in which it was reached first, or -1

translation == <<pc, left, folded, aig, init_constrains>>
run  == <<time, val, reached>>
vars == <<model, translation, run>>

NoValues == [i \in {} |-> 0]

\* aiger_init
NoCircuit == [inputs |-> {}, latches |-> NoValues, constraints |-> {},
              bads |-> NoValues, initial |-> {}]

Init == /\ model \in Models
        /\ pc = "parse"
        /\ left = {} /\ folded = {} /\ aig = NoCircuit /\ init_constrains = {}
        /\ time = -1 /\ val = NoValues
        /\ reached = [b \in LinesOf(model, "bad") |-> -1]

----------------------------------------------------------------------------
(* Bits and literals.                                                      *)

BitsOf(s) == {<<s, i>> : i \in 0 .. Width(model[s]) - 1}

\* Node 0 has the constants: Lit(0, 0) is false and Lit(0, 1) true.
Lit(a, i) == [node |-> a, bit |-> i]
LitValue(v, l) == IF l.node = 0 THEN l.bit ELSE Bit(ArgValue(model, v, l.node), l.bit)

\* The complete valuations, each by its values of the leaves.
Valuations(T) ==
    {Evaluate(T, v) : v \in {f \in [Leaves(T) -> UNION
        {Values(Width(T[i])) : i \in Leaves(T)}] :
        \A i \in Leaves(T) : f[i] \in Values(Width(T[i]))}}

\* The bits of initial values that are the same whatever the states are.
InitLit(b) == Lit(model[b[1]].init, b[2])
InitBits   == UNION {BitsOf(s) : s \in {s \in StateIds(model) : model[s].init # 0}}
Constant(l) == \A v, u \in Valuations(model) : LitValue(v, l) = LitValue(u, l)
SomeValuation(T)   == CHOOSE v \in Valuations(T) : TRUE
ConstantValueOf(l) == LitValue(SomeValuation(model), l)

----------------------------------------------------------------------------
(* The translation.                                                        *)

\* parse_btor2, which dies on arrays and on fair and justice lines, and the
\* bit-blasting of initial values, which knows at least constant lines.
Untranslatable ==
    \E i \in DOMAIN model : \/ model[i].tag = "sort" /\ IsArray(model[i])
                            \/ model[i].tag \in {"fair", "justice"}
Parse ==
    /\ pc = "parse"
    /\ IF Untranslatable
       THEN pc' = "error" /\ UNCHANGED <<left, folded>>
       ELSE /\ pc' = "inputs" /\ left' = InputIds(model)
            /\ \E X \in SUBSET {b \in InitBits : Constant(InitLit(b))} :
                 /\ {b \in InitBits : model[Abs(InitLit(b).node)].tag \in Constants} \subseteq X
                 /\ folded' = X
    /\ UNCHANGED <<model, aig, init_constrains, run>>

\* The end of a loop of generate_aiger.
Continue(from, to, lines) ==
    /\ pc = from /\ left = {}
    /\ pc' = to /\ left' = lines
    /\ UNCHANGED <<model, folded, aig, init_constrains, run>>

AddInput(i) ==
    /\ pc = "inputs" /\ i \in left
    /\ left' = left \ {i}
    /\ aig' = [aig EXCEPT !.inputs = @ \cup BitsOf(i)]
    /\ UNCHANGED <<model, pc, folded, init_constrains, run>>

\* A latch resets to a constant, or to itself if its state has no init line.
\* One whose initial value is not constant gets no reset, so it has AIGER's
\* default, zero, and a constraint on the first frame.
Reset_zero(b) ==
    IF b \in folded THEN Lit(0, ConstantValueOf(InitLit(b))) ELSE Lit(0, 0)
Reset(b) ==
    CASE model[b[1]].init = 0 -> Lit(b[1], b[2])
      [] b \in folded -> Lit(0, ConstantValueOf(InitLit(b)))
      [] OTHER -> Lit(0, 0)

WithLatches(latches, s) ==
    [b \in DOMAIN latches \cup BitsOf(s) |->
       IF b \in BitsOf(s)
       THEN [next |-> Lit(model[s].next, b[2]), reset |-> Reset(b)]
       ELSE latches[b]]

AddState_latch_only(s) ==
    /\ pc = "states" /\ s \in left
    /\ IF model[s].init # 0 /\ model[s].next = 0
       THEN pc' = "error" /\ UNCHANGED <<left, aig, init_constrains>>
       ELSE /\ left' = left \ {s}
            /\ IF model[s].next = 0
               THEN UNCHANGED <<aig, init_constrains>>
               ELSE /\ aig' = [aig EXCEPT !.latches = WithLatches(@, s)]
                    /\ init_constrains' = init_constrains \cup
                         {<<Lit(s, b[2]), InitLit(b)>> :
                            b \in (BitsOf(s) \cap InitBits) \ folded}
            /\ UNCHANGED pc
    /\ UNCHANGED <<model, folded, run>>
AddState_always_latch(s) ==
    /\ pc = "states" /\ s \in left
    /\ left' = left \ {s}
    /\ aig' = [aig EXCEPT !.latches = WithLatches(@, s)]
    /\ init_constrains' = init_constrains \cup
         {<<Lit(s, b[2]), InitLit(b)>> : b \in (BitsOf(s) \cap InitBits) \ folded}
    /\ UNCHANGED <<model, pc, folded, run>>
AddState(s) ==
    /\ pc = "states" /\ s \in left
    /\ IF model[s].init # 0 /\ model[s].next = 0
       THEN pc' = "error" /\ UNCHANGED <<left, aig, init_constrains>>
       ELSE /\ left' = left \ {s}
            /\ IF model[s].next = 0
               THEN /\ aig' = [aig EXCEPT !.inputs = @ \cup BitsOf(s)]
                    /\ UNCHANGED init_constrains
               ELSE /\ aig' = [aig EXCEPT !.latches = WithLatches(@, s)]
                    /\ init_constrains' = init_constrains \cup
                         {<<Lit(s, b[2]), InitLit(b)>> :
                            b \in (BitsOf(s) \cap InitBits) \ folded}
            /\ UNCHANGED pc
    /\ UNCHANGED <<model, folded, run>>

AddConstraint(c) ==
    /\ pc = "constraints" /\ c \in left
    /\ left' = left \ {c}
    /\ aig' = [aig EXCEPT !.constraints = @ \cup {Lit(model[c].args[1], 0)}]
    /\ UNCHANGED <<model, pc, folded, init_constrains, run>>

AddBad(b) ==
    /\ pc = "bads" /\ b \in left
    /\ left' = left \ {b}
    /\ aig' = [aig EXCEPT !.bads = With(@, b, Lit(model[b].args[1], 0))]
    /\ UNCHANGED <<model, pc, folded, init_constrains, run>>

UsedLiterals == {aig.latches[b].next : b \in DOMAIN aig.latches}
                  \cup aig.constraints \cup {aig.bads[b] : b \in DOMAIN aig.bads}
Defined == aig.inputs \cup DOMAIN aig.latches

\* aiger_check: every variable a literal depends on is an input or a latch, and
\* none is both.  S holds the lines the literal depends on.
IsDefined(l) ==
    \E S \in SUBSET ValueLines(model) :
        /\ Abs(l.node) \in S
        /\ \A i \in S : \A k \in DOMAIN model[i].args : Abs(model[i].args[k]) \in S
        /\ \A i \in S \cap Leaves(model) : BitsOf(i) \subseteq Defined
CheckPasses == /\ aig.inputs \cap DOMAIN aig.latches = {}
               /\ \A l \in UsedLiterals : IsDefined(l)

\* The end of generate_aiger: what has no constant reset is constrained, and the
\* circuit is written.
Finish ==
    /\ pc = "check"
    /\ IF CheckPasses \/ IgnoreErrors
       THEN pc' = "circuit" /\ aig' = [aig EXCEPT !.initial = init_constrains]
       ELSE pc' = "error" /\ UNCHANGED aig
    /\ UNCHANGED <<model, left, folded, init_constrains, run>>

Translate ==
    \/ Parse
    \/ \E i \in left : AddInput(i) \/ AddState(i) \/ AddConstraint(i) \/ AddBad(i)
    \/ Continue("inputs", "states", StateIds(model))
    \/ Continue("states", "constraints", LinesOf(model, "constraint"))
    \/ Continue("constraints", "bads", LinesOf(model, "bad"))
    \/ Continue("bads", "check", {})
    \/ Finish

----------------------------------------------------------------------------
(* The circuit.                                                            *)

\* conj and eq; and the literal of an initial constraint: that "init latch", a latch
\* that resets to one and is zero from then on, implies the equality
Not(x)     == 1 - x
Conj(x, y) == x * y
Eq_one_way(x, y) == Not(Conj(x, Not(y)))
Eq(x, y) == Not(Conj(Not(Conj(x, y)), Not(Conj(Not(x), Not(y)))))
InitialConstraint(v, init_latch, p) ==
    Not(Conj(init_latch, Not(Eq(LitValue(v, p[1]), LitValue(v, p[2])))))

\* AIGER: latches have their reset in the first frame (one that resets to itself
\* is free) and then what their next literal was; constraints hold in all frames.
ResetFrame(v) ==
    \A b \in DOMAIN aig.latches :
        LitValue(v, Lit(b[1], b[2])) = LitValue(v, aig.latches[b].reset)
NextFrame(v) ==
    \A b \in DOMAIN aig.latches :
        LitValue(v, Lit(b[1], b[2])) = LitValue(val, aig.latches[b].next)
Constrained(v, init_latch) ==
    /\ \A c \in aig.constraints : LitValue(v, c) = 1
    /\ \A p \in aig.initial : InitialConstraint(v, init_latch, p) = 1
CircuitFrame(v) ==
    IF time = -1 THEN ResetFrame(v) /\ Constrained(v, 1)
    ELSE NextFrame(v) /\ Constrained(v, 0)

Frame ==
    /\ pc = "circuit" /\ time + 1 < MaxFrames
    /\ time' = time + 1
    /\ \E v \in Valuations(model) : CircuitFrame(v) /\ val' = v
    /\ reached' = [b \in DOMAIN reached |->
                     IF reached[b] = -1 /\ LitValue(val', aig.bads[b]) = 1
                     THEN time' ELSE reached[b]]
    /\ UNCHANGED <<model, translation>>

Next == Translate \/ Frame

Spec == Init /\ [][Next]_vars

----------------------------------------------------------------------------
(* Properties.                                                             *)

IsBit(l) == /\ Abs(l.node) \in ValueLines(model)
            /\ l.bit \in 0 .. Width(model[Abs(l.node)]) - 1
IsConstant(l) == l.node = 0 /\ l.bit \in 0 .. 1

\* Types of the variables: literals are bits of a line, resets may be constants.
TypeOK ==
    /\ model \in Models
    /\ pc \in {"parse", "inputs", "states", "constraints", "bads", "check",
               "circuit", "error"}
    /\ left \subseteq DOMAIN model
    /\ folded \subseteq InitBits
    /\ aig.inputs \subseteq UNION {BitsOf(i) : i \in Leaves(model)}
    /\ DOMAIN aig.latches \subseteq UNION {BitsOf(s) : s \in StateIds(model)}
    /\ \A l \in UsedLiterals : IsBit(l)
    /\ \A b \in DOMAIN aig.latches :
         IsBit(aig.latches[b].reset) \/ IsConstant(aig.latches[b].reset)
    /\ time \in -1 .. MaxFrames - 1

\* btor2aiger fails only on what it says it does not support: arrays, fairness,
\* and states with an init line but no next line.
FailsOnlyUnsupported ==
    pc = "error" =>
        \/ Untranslatable
        \/ \E s \in StateIds(model) : model[s].init # 0 /\ model[s].next = 0

\* The models whose lines have values, all of their widths: the overflow
\* predicates, which Boolector translates and btorsim does not support, have none
\* in Btor2Semantics.
Valued(T) == WellSorted(T) /\ \A i \in ValueLines(T) : T[i].tag \notin Unsupported

\* What the circuit does is what the model does: each of its runs is one of the
\* transition system, with the constraints never violated, and reaches the same
\* bad state properties in the same frames.
TS == INSTANCE TransitionSystem
        WITH model <- model, time <- time, val <- val, reached <- reached,
             violated <- -1
Implements == TS!Spec

\* The runs of the transition system that keep the constraints.
ModelFrame(v) == /\ IF time = -1 THEN TS!Initial(model, v) ELSE TS!Successor(model, val, v)
                 /\ ~TS!Violates(model, v)

\* The circuit has all of them that start with zero in every bit whose initial
\* value is not constant.
FramesKept ==
    pc = "circuit" =>
        \A v \in Valuations(model) :
            ModelFrame(v) =>
                \/ CircuitFrame(v)
                \/ time = -1 /\ \E p \in init_constrains : LitValue(v, p[1]) # 0

----------------------------------------------------------------------------
\* btor2aiger.cpp:407 gives up where AIGER "would need" more logic "to have the
\* same behavior": what is translated has the same runs as the model.
SameBehavior ==
    pc = "circuit" => \A v \in Valuations(model) : ModelFrame(v) => CircuitFrame(v)

=============================================================================
