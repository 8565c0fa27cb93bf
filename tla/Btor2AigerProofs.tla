-------------------------- MODULE Btor2AigerProofs --------------------------
(***************************************************************************)
(* Theorems on Btor2Aiger, for all models: the translation fails on        *)
(* nothing but what it does not support, and the circuit it makes runs as  *)
(* the model does.                                                         *)
(***************************************************************************)
EXTENDS Btor2Aiger, Btor2Lemmas

Loops == {"inputs", "states", "constraints", "bads", "check"}

\* The leaves a loop of generate_aiger has still to add.
Pending == CASE pc = "inputs" -> left \cup StateIds(model)
             [] pc = "states" -> left
             [] OTHER -> {}

\* Inputs are bits of inputs and of states without a next line, latches are bits
\* of states with one.
Sorted ==
    /\ \A b \in aig.inputs :
         b[1] \in InputIds(model) \/ (b[1] \in StateIds(model) /\ model[b[1]].next = 0)
    /\ \A b \in DOMAIN aig.latches :
         /\ b[1] \in StateIds(model)
         /\ model[b[1]].next # 0
         /\ aig.latches[b].next.node = model[b[1]].next

\* Every literal that is used is a bit of a line with a value.
Used == \A l \in UsedLiterals : Abs(l.node) \in ValueLines(model)

\* The lines a loop is to visit.
Visited ==
    /\ pc = "inputs" => left \subseteq InputIds(model)
    /\ pc = "states" => left \subseteq StateIds(model)
    /\ pc = "constraints" => left \subseteq LinesOf(model, "constraint")
    /\ pc = "bads" => left \subseteq LinesOf(model, "bad")

Circuit == aig = [inputs |-> aig.inputs, latches |-> aig.latches,
                  constraints |-> aig.constraints, bads |-> aig.bads,
                  initial |-> aig.initial]

\* Each leaf is added by the loop it belongs to, and none by two.
Covered == pc \in Loops => \A i \in Leaves(model) \ Pending : BitsOf(i) \subseteq Defined

IInv == /\ model \in Models
        /\ Circuit /\ Sorted /\ Used /\ Visited /\ Covered
        /\ FailsOnlyUnsupported

----------------------------------------------------------------------------
\* What a wired table gives the translation: the arguments of its lines, the links
\* of its states and the literals of its properties are lines with a value.
LEMMA References ==
    ASSUME model \in Models
    PROVE  /\ DOMAIN model \subseteq Nat \ {0}
           /\ \A i \in DOMAIN model : \A k \in DOMAIN model[i].args :
                model[i].args[k] \in Int /\ Abs(model[i].args[k]) \in ValueLines(model)
           /\ \A s \in StateIds(model) :
                /\ model[s].init \in Int /\ model[s].next \in Int
                /\ model[s].init # 0 => Abs(model[s].init) \in ValueLines(model)
                /\ model[s].next # 0 => Abs(model[s].next) \in ValueLines(model)
           /\ \A p \in LinesOf(model, "constraint") \cup LinesOf(model, "bad") :
                1 \in DOMAIN model[p].args
<1>1. /\ Wired(model) /\ DOMAIN model \subseteq Nat \ {0}
      /\ ArgumentLines(model) = ValueLines(model)
  BY ModelsAssumption DEF Wired, ArgumentLines, ValueLines
<1>2. ASSUME NEW i \in DOMAIN model
      PROVE  /\ model[i].args \in Seq(Int) /\ model[i].init \in Int /\ model[i].next \in Int
             /\ \A k \in DOMAIN model[i].args : Abs(model[i].args[k]) \in ValueLines(model)
  BY <1>1 DEF Wired, Line
<1>3. ASSUME NEW s \in DOMAIN model, model[s].init # 0
      PROVE  Abs(model[s].init) \in ValueLines(model)
  BY <1>1, <1>3 DEF Wired, HoldsCone
<1>4. ASSUME NEW s \in DOMAIN model, model[s].next # 0
      PROVE  Abs(model[s].next) \in ValueLines(model)
  <2>1. PICK j \in DOMAIN model : model[j].tag = "next" /\ model[j].args[2] = model[s].next
    BY <1>1, <1>4 DEF Wired
  <2>2. 2 \in DOMAIN model[j].args
    <3>1. "next" \in BinaryTags
      BY DEF BinaryTags, Links
    <3>2. Arity["next"] = 2
      BY <3>1, ArityOf
    <3>3. Len(model[j].args) = 2 /\ model[j].args \in Seq(Int)
      BY <1>1, <1>2, <2>1, <3>2 DEF Wired
    <3> QED
      BY <3>3
  <2> QED
    BY <1>2, <2>1, <2>2
<1>5. ASSUME NEW p \in LinesOf(model, "constraint") \cup LinesOf(model, "bad")
      PROVE  1 \in DOMAIN model[p].args
  <2>1. p \in DOMAIN model /\ model[p].tag \in Properties /\ model[p].tag # "justice"
    BY DEF LinesOf, Properties
  <2>2. Len(model[p].args) = 1 /\ model[p].args \in Seq(Int)
    BY <1>1, <1>2, <2>1, ArityOf DEF Wired
  <2> QED
    BY <2>2
<1> QED
  BY <1>1, <1>2, <1>3, <1>4, <1>5 DEF StateIds, LinesOf

\* Nothing is an input and a latch.
LEMMA NoneBoth ==
    ASSUME Sorted PROVE aig.inputs \cap DOMAIN aig.latches = {}
<1>1. "state" # "input"
  OBVIOUS
<1>2. \A b : b[1] \in InputIds(model) => b[1] \notin StateIds(model)
  BY <1>1 DEF InputIds, StateIds, LinesOf
<1> QED
  BY <1>2 DEF Sorted

\* When all leaves are added, the lines with a value show that every literal is
\* defined, so that aiger_check finds nothing.
LEMMA CheckFindsNothing ==
    ASSUME IInv, pc = "check" PROVE CheckPasses
<1>1. \A i \in Leaves(model) : BitsOf(i) \subseteq Defined
  BY DEF IInv, Covered, Loops, Pending
<1>2. \A i \in ValueLines(model) : \A k \in DOMAIN model[i].args :
        Abs(model[i].args[k]) \in ValueLines(model)
  BY References DEF IInv, ValueLines
<1>3. \A l \in UsedLiterals : IsDefined(l)
  BY <1>1, <1>2 DEF IInv, Used, IsDefined
<1> QED
  BY <1>3, NoneBoth DEF IInv, CheckPasses

\* The bits of a line name it.
LEMMA BitsNamed == \A i, b : b \in BitsOf(i) => b[1] = i
BY DEF BitsOf

----------------------------------------------------------------------------
\* The loop over the inputs.
LEMMA InputAdded ==
    ASSUME IInv, NEW i \in left, AddInput(i) PROVE IInv'
<1>1. /\ pc = "inputs" /\ left' = left \ {i}
      /\ aig' = [aig EXCEPT !.inputs = @ \cup BitsOf(i)]
      /\ model' = model /\ pc' = pc
  BY DEF AddInput
<1>2. i \in InputIds(model)
  BY <1>1 DEF IInv, Visited
<1>3. /\ aig'.inputs = aig.inputs \cup BitsOf(i) /\ aig'.latches = aig.latches
      /\ aig'.constraints = aig.constraints /\ aig'.bads = aig.bads
      /\ Circuit'
  BY <1>1 DEF IInv, Circuit
<1>4. Sorted'
  BY <1>1, <1>2, <1>3, BitsNamed DEF IInv, Sorted, InputIds, StateIds, LinesOf
<1>5. Used'
  BY <1>1, <1>3 DEF IInv, Used, UsedLiterals, ValueLines
<1>6. Visited'
  BY <1>1 DEF IInv, Visited, InputIds, LinesOf
<1>7. Covered'
  <2>1. Pending = left \cup StateIds(model) /\ Pending' = (left \ {i}) \cup StateIds(model)
    BY <1>1 DEF Pending, StateIds, LinesOf
  <2>2. Leaves(model)' = Leaves(model) /\ \A j : BitsOf(j)' = BitsOf(j)
    BY <1>1 DEF Leaves, BitsOf
  <2>3. Defined' = Defined \cup BitsOf(i)
    BY <1>3 DEF Defined
  <2> QED
    BY <1>1, <2>1, <2>2, <2>3 DEF IInv, Covered, Loops
<1> QED
  BY <1>1, <1>3, <1>4, <1>5, <1>6, <1>7 DEF IInv, FailsOnlyUnsupported

\* The loop over the states, in which a state may be refused.
LEMMA StateAdded ==
    ASSUME IInv, NEW s \in left, AddState(s), pc' = pc PROVE IInv'
<1>1. /\ pc = "states" /\ model' = model /\ left' = left \ {s}
      /\ \/ /\ model[s].next = 0
            /\ aig' = [aig EXCEPT !.inputs = @ \cup BitsOf(s)]
         \/ /\ model[s].next # 0
            /\ aig' = [aig EXCEPT !.latches = WithLatches(@, s)]
  BY DEF AddState
<1>2. s \in StateIds(model)
  BY <1>1 DEF IInv, Visited
<1>3. Circuit' /\ aig'.constraints = aig.constraints /\ aig'.bads = aig.bads
  BY <1>1 DEF IInv, Circuit
<1>4. CASE model[s].next = 0
  <2>1. aig'.inputs = aig.inputs \cup BitsOf(s) /\ aig'.latches = aig.latches
    BY <1>1, <1>4 DEF IInv, Circuit
  <2>2. Sorted'
    BY <1>1, <1>2, <1>4, <2>1, BitsNamed DEF IInv, Sorted, InputIds, StateIds, LinesOf
  <2>3. Used'
    BY <1>1, <1>3, <2>1 DEF IInv, Used, UsedLiterals, ValueLines
  <2>4. Defined' = Defined \cup BitsOf(s)
    BY <2>1 DEF Defined
  <2> QED
    BY <1>1, <1>3, <2>2, <2>3, <2>4
    DEF IInv, Visited, Covered, Pending, Loops, Leaves, BitsOf, StateIds, LinesOf,
        FailsOnlyUnsupported
<1>5. CASE model[s].next # 0
  <2>1. aig'.inputs = aig.inputs /\ aig'.latches = WithLatches(aig.latches, s)
    BY <1>1, <1>5 DEF IInv, Circuit
  <2>2. /\ DOMAIN aig'.latches = DOMAIN aig.latches \cup BitsOf(s)
        /\ \A b \in BitsOf(s) : aig'.latches[b].next.node = model[b[1]].next
        /\ \A b \in DOMAIN aig.latches \ BitsOf(s) : aig'.latches[b] = aig.latches[b]
    BY <2>1, BitsNamed DEF WithLatches, Lit
  <2>3. Sorted'
    <3>1. \A b \in aig'.inputs :
            b[1] \in InputIds(model) \/ (b[1] \in StateIds(model) /\ model[b[1]].next = 0)
      BY <2>1 DEF IInv, Sorted
    <3>2. \A b \in DOMAIN aig'.latches :
            /\ b[1] \in StateIds(model)
            /\ model[b[1]].next # 0
            /\ aig'.latches[b].next.node = model[b[1]].next
      BY <1>2, <1>5, <2>2, BitsNamed DEF IInv, Sorted
    <3> QED
      BY <1>1, <3>1, <3>2 DEF Sorted, InputIds, StateIds, LinesOf
  <2>4. Used'
    <3>1. \A b \in DOMAIN aig'.latches : Abs(aig'.latches[b].next.node) \in ValueLines(model)
      BY <1>1, <2>3, References DEF IInv, Sorted, StateIds, LinesOf, ValueLines
    <3> QED
      BY <1>1, <1>3, <3>1 DEF IInv, Used, UsedLiterals, ValueLines
  <2>5. Defined' = Defined \cup BitsOf(s)
    BY <2>1, <2>2 DEF Defined
  <2> QED
    BY <1>1, <1>3, <2>3, <2>4, <2>5
    DEF IInv, Visited, Covered, Pending, Loops, Leaves, BitsOf, StateIds, LinesOf,
        FailsOnlyUnsupported
<1> QED
  BY <1>4, <1>5

\* The loops over constraints and bads.
LEMMA PropertyAdded ==
    ASSUME IInv, NEW p \in left, AddConstraint(p) \/ AddBad(p) PROVE IInv'
<1>1. /\ pc \in {"constraints", "bads"} /\ pc' = pc
      /\ model' = model /\ left' = left \ {p}
      /\ Circuit' /\ aig'.inputs = aig.inputs /\ aig'.latches = aig.latches
  BY DEF AddConstraint, AddBad, IInv, Circuit
<1>2. p \in LinesOf(model, "constraint") \cup LinesOf(model, "bad")
  BY <1>1 DEF AddConstraint, AddBad, IInv, Visited
<1>3. Abs(model[p].args[1]) \in ValueLines(model)
  BY <1>2, References DEF IInv, LinesOf
<1>4. \A l \in UsedLiterals' : l \in UsedLiterals \/ l.node = model[p].args[1]
  <2>1. CASE AddConstraint(p)
    BY <1>1, <2>1 DEF AddConstraint, UsedLiterals, IInv, Circuit, Lit
  <2>2. CASE AddBad(p)
    <3>1. aig'.constraints = aig.constraints /\ aig'.bads = With(aig.bads, p, Lit(model[p].args[1], 0))
      BY <2>2 DEF AddBad, IInv, Circuit
    <3>2. \A b \in DOMAIN aig'.bads : \/ b \in DOMAIN aig.bads /\ aig'.bads[b] = aig.bads[b]
                                      \/ aig'.bads[b] = Lit(model[p].args[1], 0)
      BY <3>1 DEF With
    <3> QED
      BY <1>1, <3>1, <3>2 DEF UsedLiterals, Lit
  <2> QED
    BY <2>1, <2>2
<1>5. Used'
  BY <1>1, <1>3, <1>4 DEF IInv, Used, ValueLines
<1>6. Sorted' /\ Covered' /\ Visited'
  BY <1>1 DEF IInv, Sorted, Covered, Visited, Defined, Pending, Loops, Leaves, BitsOf,
              InputIds, StateIds, LinesOf
<1> QED
  BY <1>1, <1>5, <1>6 DEF IInv, FailsOnlyUnsupported

\* The end of a loop, and the start of the next one.
LEMMA LoopEnds ==
    ASSUME IInv,
           \/ Continue("inputs", "states", StateIds(model))
           \/ Continue("states", "constraints", LinesOf(model, "constraint"))
           \/ Continue("constraints", "bads", LinesOf(model, "bad"))
           \/ Continue("bads", "check", {})
    PROVE  IInv'
<1>1. model' = model /\ aig' = aig /\ left = {} /\ pc \in Loops /\ pc' \in Loops
  BY DEF Continue, Loops
<1>2. Circuit' /\ Sorted' /\ Used'
  BY <1>1 DEF IInv, Circuit, Sorted, Used, UsedLiterals, InputIds, StateIds, LinesOf,
              ValueLines
<1>3. Visited'
  BY <1>1 DEF Continue, Visited, InputIds, StateIds, LinesOf
<1>4. Covered'
  <2>1. Pending \subseteq Pending'
    BY <1>1 DEF Continue, Pending, StateIds, LinesOf
  <2> QED
    BY <1>1, <2>1 DEF IInv, Covered, Defined, Leaves, BitsOf
<1>5. FailsOnlyUnsupported'
  BY <1>1 DEF Loops, FailsOnlyUnsupported
<1> QED
  BY <1>1, <1>2, <1>3, <1>4, <1>5 DEF IInv

\* The first step.
LEMMA Parsing ==
    ASSUME IInv, Parse PROVE IInv'
<1>1. model' = model /\ aig' = aig
  BY DEF Parse
<1>2. Circuit' /\ Sorted' /\ Used'
  BY <1>1 DEF IInv, Circuit, Sorted, Used, UsedLiterals, InputIds, StateIds, LinesOf,
              ValueLines
<1>3. CASE pc' = "error"
  BY <1>1, <1>2, <1>3 DEF Parse, IInv, Visited, Covered, Loops, FailsOnlyUnsupported,
     Untranslatable
<1>4. CASE pc' = "inputs" /\ left' = InputIds(model)
  <2>1. Leaves(model) \subseteq Pending'
    BY <1>1, <1>4 DEF Leaves, Pending, InputIds, StateIds, LinesOf
  <2> QED
    BY <1>1, <1>2, <1>4, <2>1 DEF IInv, Visited, Covered, FailsOnlyUnsupported, Leaves,
       InputIds, LinesOf
<1> QED
  BY <1>3, <1>4 DEF Parse

\* What has no constant reset is constrained, and the circuit is written: the
\* check before finds nothing.
LEMMA Finishing ==
    ASSUME IInv, Finish PROVE IInv'
<1>1. /\ model' = model /\ pc' = "circuit"
      /\ aig' = [aig EXCEPT !.initial = init_constrains]
  BY CheckFindsNothing DEF Finish
<1>2. /\ Circuit' /\ aig'.inputs = aig.inputs /\ aig'.latches = aig.latches
      /\ aig'.constraints = aig.constraints /\ aig'.bads = aig.bads
  BY <1>1 DEF IInv, Circuit
<1>3. Sorted' /\ Used'
  BY <1>1, <1>2 DEF IInv, Sorted, Used, UsedLiterals, InputIds, StateIds, LinesOf,
                    ValueLines
<1> QED
  BY <1>1, <1>2, <1>3 DEF IInv, Visited, Covered, Loops, FailsOnlyUnsupported

\* A state that is refused has an init and no next line.
LEMMA StateRefused ==
    ASSUME IInv, NEW s \in left, AddState(s), pc' # pc PROVE IInv'
<1>1. /\ pc = "states" /\ pc' = "error" /\ model' = model /\ aig' = aig
      /\ model[s].init # 0 /\ model[s].next = 0
  BY DEF AddState
<1>2. s \in StateIds(model)
  BY <1>1 DEF IInv, Visited
<1>3. Circuit' /\ Sorted' /\ Used'
  BY <1>1 DEF IInv, Circuit, Sorted, Used, UsedLiterals, InputIds, StateIds, LinesOf,
              ValueLines
<1> QED
  BY <1>1, <1>2, <1>3 DEF IInv, Visited, Covered, Loops, FailsOnlyUnsupported, StateIds,
     LinesOf

\* Steps that leave the translation alone: those of the circuit.
LEMMA TranslationKept ==
    ASSUME IInv, UNCHANGED <<model, translation>> PROVE IInv'
BY DEF IInv, translation, Circuit, Sorted, Used, UsedLiterals, Visited, Covered, Pending,
       Defined, BitsOf, Leaves, InputIds, StateIds, LinesOf, ValueLines,
       FailsOnlyUnsupported, Untranslatable

\* Spec => []IInv: the invariant behind the next theorem.
THEOREM TranslationInvariant == Spec => []IInv
<1>1. Init => IInv
  BY DEF Init, IInv, NoCircuit, NoValues, Circuit, Sorted, Used, UsedLiterals, Visited,
         Covered, Loops, FailsOnlyUnsupported
<1>2. IInv /\ [Next]_vars => IInv'
  <2> SUFFICES ASSUME IInv, [Next]_vars PROVE IInv'
    OBVIOUS
  <2>1. CASE Frame \/ UNCHANGED vars
    BY <2>1, TranslationKept DEF Frame, vars
  <2>2. CASE Translate
    BY <2>2, Parsing, InputAdded, StateAdded, StateRefused, PropertyAdded, LoopEnds,
       Finishing DEF Translate
  <2> QED
    BY <2>1, <2>2 DEF Next
<1> QED
  BY <1>1, <1>2, PTL DEF Spec

\* Spec => []FailsOnlyUnsupported: for every model the parser accepts, the passes over
\* inputs and states define each variable of the circuit once, so that btor2aiger
\* gives up on nothing but arrays, fairness and initialised states that never change.
THEOREM Failures == Spec => []FailsOnlyUnsupported
<1>1. IInv => FailsOnlyUnsupported
  BY DEF IInv
<1> QED
  BY <1>1, TranslationInvariant, PTL

----------------------------------------------------------------------------
(* What the circuit consists of.                                           *)

\* The states, constraints and bads that are still to be added.
StatesLeft ==
    CASE pc \in {"parse", "inputs"} -> StateIds(model)
      [] pc = "states" -> left
      [] OTHER -> {}
ConstraintsLeft ==
    CASE pc \in {"parse", "inputs", "states"} -> LinesOf(model, "constraint")
      [] pc = "constraints" -> left
      [] OTHER -> {}
BadsLeft ==
    CASE pc \in {"parse", "inputs", "states", "constraints"} -> LinesOf(model, "bad")
      [] pc = "bads" -> left
      [] OTHER -> {}

\* The latch of bit b and, if its initial value is not constant, what it has to
\* equal in the first frame.
Latch(b)   == [next |-> Lit(model[b[1]].next, b[2]), reset |-> Reset(b)]
InitPair(b) == <<Lit(b[1], b[2]), InitLit(b)>>

\* The literal of a bad or constraint line.
PropertyLit(p) == Lit(model[p].args[1], 0)

\* Nothing is in the circuit but what the model asks for,
Made ==
    /\ left \subseteq DOMAIN model
    /\ pc = "parse" => aig = NoCircuit /\ init_constrains = {} /\ folded = {}
    /\ \A b \in folded : b \in InitBits /\ Constant(InitLit(b))
    /\ \A b \in aig.inputs : b \in BitsOf(b[1])
    /\ \A b \in DOMAIN aig.latches : b \in BitsOf(b[1]) /\ aig.latches[b] = Latch(b)
    /\ \A l \in aig.constraints : \E c \in LinesOf(model, "constraint") : l = PropertyLit(c)
    /\ DOMAIN aig.bads \subseteq LinesOf(model, "bad")
    /\ \A b \in DOMAIN aig.bads : aig.bads[b] = PropertyLit(b)
    /\ \A p : p \in init_constrains <=>
                \E b \in DOMAIN aig.latches : b \in InitBits \ folded /\ p = InitPair(b)

\* and all of that is in it or still to be added.
Complete ==
    pc # "error" =>
       /\ pc # "parse" => ~Untranslatable
       /\ \A s \in StateIds(model) \ StatesLeft :
            /\ model[s].init # 0 => model[s].next # 0
            /\ model[s].next # 0 => BitsOf(s) \subseteq DOMAIN aig.latches
       /\ \A c \in LinesOf(model, "constraint") \ ConstraintsLeft :
            PropertyLit(c) \in aig.constraints
       /\ LinesOf(model, "bad") \ BadsLeft \subseteq DOMAIN aig.bads
       /\ pc = "circuit" => aig.initial = init_constrains

\* The circuit runs when it is finished, and nothing is made of what cannot be
\* translated.
Running ==
    /\ pc \in {"parse", "circuit", "error"} \cup Loops
    /\ Untranslatable => pc \in {"parse", "error"} /\ aig = NoCircuit
    /\ time \in -1 .. MaxFrames - 1
    /\ pc # "circuit" => time = -1
    /\ time # -1 => val \in Valuations(model)
    /\ DOMAIN reached = LinesOf(model, "bad")

\* Terms over the model and the constant bits stay the same with them.
LEMMA TermsStay ==
    ASSUME model' = model, folded' = folded
    PROVE  /\ \A b : Latch(b)' = Latch(b) /\ InitPair(b)' = InitPair(b)
           /\ \A p : PropertyLit(p)' = PropertyLit(p)
           /\ \A b : Constant(InitLit(b))' <=> Constant(InitLit(b))
           /\ InitBits' = InitBits
           /\ \A s : BitsOf(s)' = BitsOf(s)
           /\ Untranslatable' = Untranslatable
<1>1. \A l, v : LitValue(v, l)' = LitValue(v, l)
  BY DEF LitValue
<1>2. \A b : InitLit(b)' = InitLit(b)
  BY DEF InitLit
<1>3. \A b : Reset(b)' = Reset(b)
  BY <1>1, <1>2 DEF Reset, ConstantValueOf
<1>4. \A b : Latch(b)' = Latch(b) /\ InitPair(b)' = InitPair(b)
  BY <1>2, <1>3 DEF Latch, InitPair
<1>5. \A p : PropertyLit(p)' = PropertyLit(p)
  BY DEF PropertyLit
<1>6. \A b : Constant(InitLit(b))' <=> Constant(InitLit(b))
  BY <1>1, <1>2 DEF Constant
<1>7. InitBits' = InitBits /\ \A s : BitsOf(s)' = BitsOf(s)
  BY DEF InitBits, BitsOf
<1>8. Untranslatable' = Untranslatable
  BY DEF Untranslatable
<1> QED
  BY <1>4, <1>5, <1>6, <1>7, <1>8

\* Steps that leave the circuit alone.
LEMMA MadeStays ==
    ASSUME Made, model' = model, folded' = folded, init_constrains' = init_constrains,
           aig'.inputs = aig.inputs, aig'.latches = aig.latches,
           aig'.constraints = aig.constraints, aig'.bads = aig.bads,
           left' \subseteq DOMAIN model, pc' = "parse" => pc = "parse" /\ aig' = aig
    PROVE  Made'
<1>1. LinesOf(model, "constraint")' = LinesOf(model, "constraint")
      /\ LinesOf(model, "bad")' = LinesOf(model, "bad")
  OBVIOUS
<1>2. (pc = "parse" => aig = NoCircuit /\ init_constrains = {} /\ folded = {})'
  BY DEF Made, NoCircuit, NoValues
<1> QED
  BY <1>1, <1>2, TermsStay DEF Made

\* The first step finds the constant bits.
LEMMA ParsingMakes ==
    ASSUME IInv, Made, Complete, Parse PROVE Made' /\ Complete'
<1>1. /\ pc = "parse" /\ model' = model /\ aig' = aig /\ init_constrains' = init_constrains
      /\ aig = NoCircuit /\ init_constrains = {}
  BY DEF Parse, Made
<1>2. CASE Untranslatable
  <2>1. pc' = "error" /\ left' = left /\ folded' = folded
    BY <1>2 DEF Parse
  <2> QED
    BY <1>1, <2>1, MadeStays DEF Complete, Made
<1>3. CASE ~Untranslatable
  <2>1. /\ pc' = "inputs" /\ left' = InputIds(model)
        /\ \A b \in folded' : b \in InitBits /\ Constant(InitLit(b))
    BY <1>3 DEF Parse
  <2>2. \A b \in folded' : b \in InitBits' /\ Constant(InitLit(b))'
    <3>1. InitBits' = InitBits
      BY <1>1 DEF InitBits, BitsOf
    <3>2. \A l, v : LitValue(v, l)' = LitValue(v, l)
      BY <1>1 DEF LitValue
    <3>3. \A b : Constant(InitLit(b))' <=> Constant(InitLit(b))
      BY <1>1, <3>2 DEF Constant, InitLit
    <3> QED
      BY <2>1, <3>1, <3>3
  <2>3. Made'
    <3>1. /\ aig'.inputs = {} /\ DOMAIN aig'.latches = {} /\ aig'.constraints = {}
          /\ DOMAIN aig'.bads = {} /\ init_constrains' = {}
      BY <1>1 DEF NoCircuit, NoValues
    <3>2. left' \subseteq DOMAIN model'
      BY <1>1, <2>1 DEF InputIds, LinesOf
    <3>3. pc' # "parse"
      BY <2>1
    <3> QED
      BY <2>2, <3>1, <3>2, <3>3 DEF Made
  <2>4. Complete'
    <3>1. /\ StatesLeft' = StateIds(model)
          /\ ConstraintsLeft' = LinesOf(model, "constraint")
          /\ BadsLeft' = LinesOf(model, "bad")
      BY <1>1, <2>1 DEF StatesLeft, ConstraintsLeft, BadsLeft
    <3>2. ~Untranslatable'
      BY <1>1, <1>3 DEF Untranslatable
    <3> QED
      BY <1>1, <2>1, <3>1, <3>2 DEF Complete
  <2> QED
    BY <2>3, <2>4
<1> QED
  BY <1>2, <1>3

\* The loop over the inputs.
LEMMA InputMakes ==
    ASSUME IInv, Made, Complete, NEW i \in left, AddInput(i) PROVE Made' /\ Complete'
<1>1. /\ pc = "inputs" /\ pc' = pc /\ model' = model /\ folded' = folded
      /\ left' = left \ {i} /\ init_constrains' = init_constrains
      /\ aig' = [aig EXCEPT !.inputs = @ \cup BitsOf(i)]
  BY DEF AddInput
<1>2. /\ aig'.inputs = aig.inputs \cup BitsOf(i) /\ aig'.latches = aig.latches
      /\ aig'.constraints = aig.constraints /\ aig'.bads = aig.bads
  BY <1>1 DEF IInv, Circuit
<1>3. \A b \in BitsOf(i) : b \in BitsOf(b[1])
  BY BitsNamed
<1>4. Made'
  <2>1. LinesOf(model, "constraint")' = LinesOf(model, "constraint")
        /\ LinesOf(model, "bad")' = LinesOf(model, "bad")
    BY <1>1
  <2>2. left' \subseteq DOMAIN model'
    BY <1>1 DEF Made
  <2>3. \A b \in aig'.inputs : b \in BitsOf(b[1])'
    BY <1>1, <1>2, <1>3, TermsStay DEF Made
  <2> QED
    BY <1>1, <1>2, <2>1, <2>2, <2>3, TermsStay DEF Made
<1>5. Complete'
  <2>1. /\ StatesLeft' = StatesLeft /\ ConstraintsLeft' = ConstraintsLeft
        /\ BadsLeft' = BadsLeft
    BY <1>1 DEF StatesLeft, ConstraintsLeft, BadsLeft
  <2> QED
    BY <1>1, <1>2, <2>1, TermsStay DEF Complete
<1> QED
  BY <1>4, <1>5

\* The loop over the states.
LEMMA StateMakes ==
    ASSUME IInv, Made, Complete, NEW s \in left, AddState(s) PROVE Made' /\ Complete'
<1>1. /\ pc = "states" /\ model' = model /\ folded' = folded
  BY DEF AddState
<1>2. s \in StateIds(model)
  BY <1>1 DEF IInv, Visited
<1>3. /\ LinesOf(model, "constraint")' = LinesOf(model, "constraint")
      /\ LinesOf(model, "bad")' = LinesOf(model, "bad")
      /\ StateIds(model)' = StateIds(model)
  BY <1>1
<1>4. CASE model[s].init # 0 /\ model[s].next = 0
  <2>1. /\ pc' = "error" /\ left' = left /\ aig' = aig /\ init_constrains' = init_constrains
    BY <1>4 DEF AddState
  <2> QED
    BY <1>1, <2>1, MadeStays DEF Made, Complete
<1>5. CASE model[s].init = 0 /\ model[s].next = 0
  <2>1. /\ pc' = pc /\ left' = left \ {s} /\ init_constrains' = init_constrains
        /\ aig' = [aig EXCEPT !.inputs = @ \cup BitsOf(s)]
    BY <1>5 DEF AddState
  <2>2. /\ aig'.inputs = aig.inputs \cup BitsOf(s) /\ aig'.latches = aig.latches
        /\ aig'.constraints = aig.constraints /\ aig'.bads = aig.bads
    BY <2>1 DEF IInv, Circuit
  <2>3. Made'
    <3>1. left' \subseteq DOMAIN model'
      BY <1>1, <2>1 DEF Made
    <3>2. \A b \in aig'.inputs : b \in BitsOf(b[1])'
      BY <1>1, <2>2, BitsNamed, TermsStay DEF Made
    <3> QED
      BY <1>1, <1>3, <2>1, <2>2, <3>1, <3>2, TermsStay DEF Made
  <2>4. Complete'
    <3>1. /\ StatesLeft' = StatesLeft \ {s} /\ ConstraintsLeft' = ConstraintsLeft
          /\ BadsLeft' = BadsLeft
      BY <1>1, <2>1 DEF StatesLeft, ConstraintsLeft, BadsLeft
    <3> QED
      BY <1>1, <1>3, <1>5, <2>1, <2>2, <3>1, TermsStay DEF Complete
  <2> QED
    BY <2>3, <2>4
<1>6. CASE model[s].next # 0
  <2>1. /\ pc' = pc /\ left' = left \ {s}
        /\ aig' = [aig EXCEPT !.latches = WithLatches(@, s)]
        /\ init_constrains' = init_constrains \cup
             {<<Lit(s, b[2]), InitLit(b)>> : b \in (BitsOf(s) \cap InitBits) \ folded}
    BY <1>6 DEF AddState
  <2>2. /\ aig'.inputs = aig.inputs /\ aig'.latches = WithLatches(aig.latches, s)
        /\ aig'.constraints = aig.constraints /\ aig'.bads = aig.bads
    BY <2>1 DEF IInv, Circuit
  <2>3. /\ DOMAIN aig'.latches = DOMAIN aig.latches \cup BitsOf(s)
        /\ \A b \in BitsOf(s) : aig'.latches[b] = Latch(b)
        /\ \A b \in DOMAIN aig.latches \ BitsOf(s) : aig'.latches[b] = aig.latches[b]
    <3>1. \A b \in BitsOf(s) : [next |-> Lit(model[s].next, b[2]), reset |-> Reset(b)] = Latch(b)
      BY BitsNamed DEF Latch
    <3> QED
      BY <2>2, <3>1 DEF WithLatches
  <2>4. \A b \in DOMAIN aig'.latches : b \in BitsOf(b[1]) /\ aig'.latches[b] = Latch(b)
    BY <2>3, BitsNamed DEF Made
  <2>5. \A p : p \in init_constrains' <=>
                 \E b \in DOMAIN aig'.latches : b \in InitBits \ folded /\ p = InitPair(b)
    <3>1. \A b \in BitsOf(s) : <<Lit(s, b[2]), InitLit(b)>> = InitPair(b)
      BY BitsNamed DEF InitPair
    <3>2. \A p : p \in init_constrains' <=>
                   \/ p \in init_constrains
                   \/ \E b \in (BitsOf(s) \cap InitBits) \ folded : p = InitPair(b)
      BY <2>1, <3>1
    <3> QED
      BY <2>3, <3>2 DEF Made
  <2>6. Made'
    <3>1. left' \subseteq DOMAIN model'
      BY <1>1, <2>1 DEF Made
    <3>2. \A b \in DOMAIN aig'.latches : b \in BitsOf(b[1])' /\ aig'.latches[b] = Latch(b)'
      BY <1>1, <2>4, TermsStay
    <3>3. \A p : p \in init_constrains' <=>
                 \E b \in DOMAIN aig'.latches : b \in InitBits' \ folded' /\ p = InitPair(b)'
      BY <1>1, <2>5, TermsStay
    <3> QED
      BY <1>1, <1>3, <2>1, <2>2, <3>1, <3>2, <3>3, TermsStay DEF Made
  <2>7. Complete'
    <3>1. /\ StatesLeft' = StatesLeft \ {s} /\ ConstraintsLeft' = ConstraintsLeft
          /\ BadsLeft' = BadsLeft
      BY <1>1, <2>1 DEF StatesLeft, ConstraintsLeft, BadsLeft
    <3>2. \A t \in StateIds(model) \ StatesLeft' :
            /\ model[t].init # 0 => model[t].next # 0
            /\ model[t].next # 0 => BitsOf(t) \subseteq DOMAIN aig'.latches
      BY <1>1, <1>6, <2>3, <3>1 DEF Complete
    <3> QED
      BY <1>1, <1>3, <2>1, <2>2, <3>1, <3>2, TermsStay DEF Complete
  <2> QED
    BY <2>6, <2>7
<1> QED
  BY <1>4, <1>5, <1>6

\* The loops over constraints and bads.
LEMMA PropertyMakes ==
    ASSUME IInv, Made, Complete, NEW p \in left, AddConstraint(p) \/ AddBad(p)
    PROVE  Made' /\ Complete'
<1>1. /\ pc \in {"constraints", "bads"} /\ pc' = pc
      /\ model' = model /\ folded' = folded /\ left' = left \ {p}
      /\ init_constrains' = init_constrains
      /\ aig'.inputs = aig.inputs /\ aig'.latches = aig.latches
  BY DEF AddConstraint, AddBad, IInv, Circuit
<1>2. /\ LinesOf(model, "constraint")' = LinesOf(model, "constraint")
      /\ LinesOf(model, "bad")' = LinesOf(model, "bad")
      /\ StateIds(model)' = StateIds(model)
      /\ left' \subseteq DOMAIN model'
  BY <1>1 DEF Made
<1>3. CASE AddConstraint(p)
  <2>1. /\ pc = "constraints" /\ aig'.bads = aig.bads
        /\ aig'.constraints = aig.constraints \cup {PropertyLit(p)}
    BY <1>3 DEF AddConstraint, IInv, Circuit, PropertyLit
  <2>2. p \in LinesOf(model, "constraint")
    BY <2>1 DEF IInv, Visited
  <2>3. Made'
    <3>1. \A l \in aig'.constraints : \E c \in LinesOf(model, "constraint") : l = PropertyLit(c)'
      BY <1>1, <2>1, <2>2, TermsStay DEF Made
    <3> QED
      BY <1>1, <1>2, <2>1, <3>1, TermsStay DEF Made
  <2>4. /\ StatesLeft' = StatesLeft /\ ConstraintsLeft' = ConstraintsLeft \ {p}
        /\ BadsLeft' = BadsLeft
    BY <1>1, <2>1 DEF StatesLeft, ConstraintsLeft, BadsLeft
  <2>5. Complete'
    BY <1>1, <1>2, <2>1, <2>4, TermsStay DEF Complete
  <2> QED
    BY <2>3, <2>5
<1>4. CASE AddBad(p)
  <2>1. /\ pc = "bads" /\ aig'.constraints = aig.constraints
        /\ aig'.bads = With(aig.bads, p, PropertyLit(p))
    BY <1>4 DEF AddBad, IInv, Circuit, PropertyLit
  <2>2. p \in LinesOf(model, "bad")
    BY <2>1 DEF IInv, Visited
  <2>3. /\ DOMAIN aig'.bads = DOMAIN aig.bads \cup {p}
        /\ \A b \in DOMAIN aig'.bads : aig'.bads[b] = PropertyLit(b)
    BY <2>1 DEF With, Made
  <2>4. Made'
    <3>1. \A b \in DOMAIN aig'.bads : aig'.bads[b] = PropertyLit(b)'
      BY <1>1, <2>3, TermsStay
    <3> QED
      BY <1>1, <1>2, <2>1, <2>2, <2>3, <3>1, TermsStay DEF Made
  <2>5. /\ StatesLeft' = StatesLeft /\ ConstraintsLeft' = ConstraintsLeft
        /\ BadsLeft' = BadsLeft \ {p}
    BY <1>1, <2>1 DEF StatesLeft, ConstraintsLeft, BadsLeft
  <2>6. Complete'
    BY <1>1, <1>2, <2>1, <2>3, <2>5, TermsStay DEF Complete
  <2> QED
    BY <2>4, <2>6
<1> QED
  BY <1>3, <1>4

\* The end of a loop: what it was to add has been added.
LEMMA LoopMakes ==
    ASSUME IInv, Made, Complete,
           \/ Continue("inputs", "states", StateIds(model))
           \/ Continue("states", "constraints", LinesOf(model, "constraint"))
           \/ Continue("constraints", "bads", LinesOf(model, "bad"))
           \/ Continue("bads", "check", {})
    PROVE  Made' /\ Complete'
<1>1. /\ model' = model /\ folded' = folded /\ aig' = aig
      /\ init_constrains' = init_constrains
      /\ pc \in {"inputs", "states", "constraints", "bads"}
      /\ pc' \in {"states", "constraints", "bads", "check"}
      /\ left' \subseteq DOMAIN model
  BY DEF Continue, StateIds, LinesOf
<1>2. /\ LinesOf(model, "constraint")' = LinesOf(model, "constraint")
      /\ LinesOf(model, "bad")' = LinesOf(model, "bad")
      /\ StateIds(model)' = StateIds(model)
  BY <1>1
<1>3. Made'
  BY <1>1, MadeStays
<1>4. /\ StatesLeft' = StatesLeft /\ ConstraintsLeft' = ConstraintsLeft
      /\ BadsLeft' = BadsLeft
  BY <1>1, <1>2 DEF Continue, StatesLeft, ConstraintsLeft, BadsLeft
<1>5. Complete'
  BY <1>1, <1>2, <1>4, TermsStay DEF Complete
<1> QED
  BY <1>3, <1>5

\* The end of the translation.
LEMMA FinishMakes ==
    ASSUME IInv, Made, Complete, Finish PROVE Made' /\ Complete'
<1>1. /\ model' = model /\ folded' = folded /\ init_constrains' = init_constrains
      /\ left' = left /\ pc = "check" /\ pc' = "circuit"
      /\ aig' = [aig EXCEPT !.initial = init_constrains]
  BY CheckFindsNothing DEF Finish
<1>2. /\ aig'.inputs = aig.inputs /\ aig'.latches = aig.latches
      /\ aig'.constraints = aig.constraints /\ aig'.bads = aig.bads
      /\ aig'.initial = init_constrains
  BY <1>1 DEF IInv, Circuit
<1>3. Made'
  BY <1>1, <1>2, MadeStays DEF Made
<1>4. /\ LinesOf(model, "constraint")' = LinesOf(model, "constraint")
      /\ LinesOf(model, "bad")' = LinesOf(model, "bad")
      /\ StateIds(model)' = StateIds(model)
  BY <1>1
<1>5. /\ StatesLeft' = StatesLeft /\ ConstraintsLeft' = ConstraintsLeft
      /\ BadsLeft' = BadsLeft
  BY <1>1 DEF StatesLeft, ConstraintsLeft, BadsLeft
<1>6. Complete'
  BY <1>1, <1>2, <1>4, <1>5, TermsStay DEF Complete
<1> QED
  BY <1>3, <1>6

\* Steps of the circuit.
LEMMA RunningMakes ==
    ASSUME Made, Complete, UNCHANGED <<model, translation>> PROVE Made' /\ Complete'
<1>1. /\ model' = model /\ folded' = folded /\ init_constrains' = init_constrains
      /\ left' = left /\ pc' = pc /\ aig' = aig
  BY DEF translation
<1>2. /\ LinesOf(model, "constraint")' = LinesOf(model, "constraint")
      /\ LinesOf(model, "bad")' = LinesOf(model, "bad")
      /\ StateIds(model)' = StateIds(model)
  BY <1>1
<1>3. /\ StatesLeft' = StatesLeft /\ ConstraintsLeft' = ConstraintsLeft
      /\ BadsLeft' = BadsLeft
  BY <1>1 DEF StatesLeft, ConstraintsLeft, BadsLeft
<1> QED
  BY <1>1, <1>2, <1>3, MadeStays, TermsStay DEF Made, Complete

\* Spec => [](Made /\ Complete): when the translation is finished, the circuit has the
\* latches, constraints and bads the model asks for and no others, whatever the order
\* in which the loops visit the lines and whatever initial bits are folded.
THEOREM CircuitInvariant == Spec => [](Made /\ Complete)
<1>1. Init => Made /\ Complete
  <2> SUFFICES ASSUME Init PROVE Made /\ Complete
    OBVIOUS
  <2>1. /\ pc = "parse" /\ left = {} /\ folded = {} /\ aig = NoCircuit /\ init_constrains = {}
        /\ aig.inputs = {} /\ DOMAIN aig.latches = {} /\ aig.constraints = {}
        /\ DOMAIN aig.bads = {}
    BY DEF Init, NoCircuit, NoValues
  <2>2. /\ StatesLeft = StateIds(model) /\ ConstraintsLeft = LinesOf(model, "constraint")
        /\ BadsLeft = LinesOf(model, "bad")
    BY <2>1 DEF StatesLeft, ConstraintsLeft, BadsLeft
  <2> QED
    BY <2>1, <2>2 DEF Made, Complete
<1>2. IInv /\ Made /\ Complete /\ [Next]_vars => (Made /\ Complete)'
  <2> SUFFICES ASSUME IInv, Made, Complete, [Next]_vars PROVE Made' /\ Complete'
    OBVIOUS
  <2>1. CASE Frame \/ UNCHANGED vars
    BY <2>1, RunningMakes DEF Frame, vars
  <2>2. CASE Translate
    BY <2>2, ParsingMakes, InputMakes, StateMakes, PropertyMakes, LoopMakes, FinishMakes
       DEF Translate
  <2> QED
    BY <2>1, <2>2 DEF Next
<1> QED
  BY <1>1, <1>2, TranslationInvariant, PTL DEF Spec

\* Spec => []Running: the frames of the circuit are valuations of the model.
THEOREM RunningInvariant == Spec => []Running
<1>1. Init => Running
  <2>1. -1 \in -1 .. MaxFrames - 1
    BY OptionsAssumption
  <2> QED
    BY <2>1 DEF Init, Running
<1>2. Running /\ [Next]_vars => Running'
  <2> SUFFICES ASSUME Running, [Next]_vars PROVE Running'
    OBVIOUS
  <2>1. CASE Frame
    <3>1. /\ model' = model /\ pc' = pc /\ pc = "circuit" /\ val' \in Valuations(model)
          /\ DOMAIN reached' = DOMAIN reached
          /\ time' = time + 1 /\ time + 1 < MaxFrames
      BY <2>1 DEF Frame, translation
    <3>2. time' \in -1 .. MaxFrames - 1
      BY <3>1, OptionsAssumption DEF Running
    <3>3. Untranslatable' = Untranslatable
      BY <3>1 DEF Untranslatable
    <3> QED
      BY <3>1, <3>2, <3>3 DEF Running
  <2>2. CASE Translate
    <3>1. /\ model' = model /\ UNCHANGED run /\ pc # "circuit"
          /\ pc' \in {"circuit", "error"} \cup Loops
      BY <2>2 DEF Translate, Parse, AddInput, AddState, AddConstraint, AddBad, Continue, Finish,
                  Running, Loops
    <3>2. Untranslatable' = Untranslatable
      BY <3>1 DEF Untranslatable
    <3>3. pc \in {"parse", "error"} /\ Untranslatable => pc' = "error" /\ aig' = aig
      BY <2>2 DEF Translate, Parse, AddInput, AddState, AddConstraint, AddBad, Continue, Finish
    <3> QED
      BY <3>1, <3>2, <3>3 DEF Running, run
  <2>3. CASE UNCHANGED vars
    <3>1. Untranslatable' = Untranslatable
      BY <2>3 DEF Untranslatable, vars
    <3> QED
      BY <2>3, <3>1 DEF Running, vars, run, translation
  <2> QED
    BY <2>1, <2>2, <2>3 DEF Next
<1> QED
  BY <1>1, <1>2, PTL DEF Spec

----------------------------------------------------------------------------
(* TransitionSystem.                                                       *)
(*                                                                         *)
(* Its instance TS has its own copy of every operator of Btor2Semantics;   *)
(* each is the same.                                                       *)

\* The operators of lines.
LEMMA SameBasics ==
    /\ \A a : TS!Abs(a) = Abs(a)
    /\ \A l : TS!IsArray(l) = IsArray(l)
    /\ \A l : TS!IsBitvec(l) = IsBitvec(l)
    /\ \A l : TS!Width(l) = Width(l)
    /\ \A T, l, n : TS!Arg(T, l, n) = Arg(T, l, n)
    /\ \A T, l : TS!IndexWidthOf(T, l) = IndexWidthOf(T, l)
    /\ \A T, l : TS!ElementWidthOf(T, l) = ElementWidthOf(T, l)
    /\ \A p : TS!Truth(p) = Truth(p)
    /\ TS!None = None
    /\ TS!Constants = Constants
    /\ TS!UnaryTags = UnaryTags
BY DEF TS!Abs, TS!IsArray, TS!IsBitvec, TS!Width, TS!Arg, TS!IndexWidthOf, TS!ElementWidthOf,
   TS!Truth, TS!None, TS!Constants, TS!UnaryTags, TS!Unary, TS!Reductions, TS!Extensions,
   Abs, IsArray, IsBitvec, Width, Arg, IndexWidthOf, ElementWidthOf,
   Truth, None, Constants, UnaryTags, Unary, Reductions, Extensions

\* Those of bit-vectors: arithmetic and shifts,
LEMMA SameArithmetic ==
    /\ \A w : TS!Values(w) = Values(w)
    /\ \A w, a : /\ TS!Fit(w, a) = Fit(w, a) /\ TS!Bit(w, a) = Bit(w, a)
                 /\ TS!Sign(w, a) = Sign(w, a)
                 /\ TS!SumBelow(w, a) = SumBelow(w, a)
                 /\ TS!bv_not(w, a) = bv_not(w, a) /\ TS!bv_neg(w, a) = bv_neg(w, a)
                 /\ TS!bv_inc(w, a) = bv_inc(w, a) /\ TS!bv_dec(w, a) = bv_dec(w, a)
                 /\ TS!Magnitude(w, a) = Magnitude(w, a)
    /\ \A w, a, b : /\ TS!bv_add(w, a, b) = bv_add(w, a, b)
                    /\ TS!bv_sub(w, a, b) = bv_sub(w, a, b)
                    /\ TS!bv_mul(w, a, b) = bv_mul(w, a, b)
                    /\ TS!bv_udiv(w, a, b) = bv_udiv(w, a, b)
                    /\ TS!bv_urem(w, a, b) = bv_urem(w, a, b)
                    /\ TS!bv_concat(w, a, b) = bv_concat(w, a, b)
                    /\ TS!bv_slice(w, a, b) = bv_slice(w, a, b)
                    /\ TS!bv_sext(w, a, b) = bv_sext(w, a, b)
                    /\ TS!bv_sll(w, a, b) = bv_sll(w, a, b)
                    /\ TS!bv_srl(w, a, b) = bv_srl(w, a, b)
                    /\ TS!bv_sra(w, a, b) = bv_sra(w, a, b)
BY DEF TS!Values, TS!Fit, TS!Bit, TS!Sign, TS!SumBelow, TS!bv_not, TS!bv_neg, TS!bv_inc, TS!bv_dec,
   TS!Magnitude, TS!bv_add, TS!bv_sub, TS!bv_mul, TS!bv_udiv, TS!bv_urem, TS!bv_concat,
   TS!bv_slice, TS!bv_sext, TS!bv_sll, TS!bv_srl, TS!bv_sra,
   Values, Fit, Bit, Sign, SumBelow, bv_not, bv_neg, bv_inc, bv_dec,
   Magnitude, bv_add, bv_sub, bv_mul, bv_udiv, bv_urem, bv_concat,
   bv_slice, bv_sext, bv_sll, bv_srl, bv_sra

\* the bitwise ones,
LEMMA SameBitwise ==
    \A w, a, b : /\ TS!bv_and(w, a, b) = bv_and(w, a, b)
                 /\ TS!bv_or(w, a, b) = bv_or(w, a, b)
                 /\ TS!bv_xor(w, a, b) = bv_xor(w, a, b)
<1> TAKE w, a, b
<1>1. TS!bv_and(w, a, b) = bv_and(w, a, b)
  BY DEF TS!bv_and, TS!Bitwise, TS!Bit, TS!SumBelow, bv_and, Bitwise, Bit, SumBelow
<1>2. TS!bv_or(w, a, b) = bv_or(w, a, b)
  BY DEF TS!bv_or, TS!Bitwise, TS!Bit, TS!SumBelow, bv_or, Bitwise, Bit, SumBelow
<1>3. TS!bv_xor(w, a, b) = bv_xor(w, a, b)
  BY DEF TS!bv_xor, TS!Bitwise, TS!Bit, TS!SumBelow, bv_xor, Bitwise, Bit, SumBelow
<1> QED
  BY <1>1, <1>2, <1>3

\* and those made of others.
LEMMA SameOthers ==
    /\ \A w, a : /\ TS!bv_redand(w, a) = bv_redand(w, a)
                 /\ TS!bv_redor(w, a) = bv_redor(w, a)
                 /\ TS!bv_redxor(w, a) = bv_redxor(w, a)
                 /\ TS!bv_ult(w, a) = bv_ult(w, a)
                 /\ TS!bv_ulte(w, a) = bv_ulte(w, a)
    /\ \A w, a, b : /\ TS!bv_nand(w, a, b) = bv_nand(w, a, b)
                 /\ TS!bv_nor(w, a, b) = bv_nor(w, a, b)
                 /\ TS!bv_xnor(w, a, b) = bv_xnor(w, a, b)
                 /\ TS!bv_implies(w, a, b) = bv_implies(w, a, b)
                 /\ TS!bv_slt(w, a, b) = bv_slt(w, a, b)
                 /\ TS!bv_slte(w, a, b) = bv_slte(w, a, b)
                 /\ TS!bv_rol(w, a, b) = bv_rol(w, a, b)
                 /\ TS!bv_ror(w, a, b) = bv_ror(w, a, b)
                 /\ TS!bv_sdiv(w, a, b) = bv_sdiv(w, a, b)
                 /\ TS!bv_srem(w, a, b) = bv_srem(w, a, b)
                 /\ TS!bv_smod(w, a, b) = bv_smod(w, a, b)
<1> USE SameArithmetic, SameBitwise, SameBasics
<1>1. \A w, a : /\ TS!bv_redand(w, a) = bv_redand(w, a)
                 /\ TS!bv_redor(w, a) = bv_redor(w, a)
                 /\ TS!bv_redxor(w, a) = bv_redxor(w, a)
                 /\ TS!bv_ult(w, a) = bv_ult(w, a)
                 /\ TS!bv_ulte(w, a) = bv_ulte(w, a)
  BY DEF TS!bv_redand, TS!bv_redor, TS!bv_redxor, TS!bv_ult, TS!bv_ulte,
     bv_redand, bv_redor, bv_redxor, bv_ult, bv_ulte
<1>2. \A w, a, b : /\ TS!bv_nand(w, a, b) = bv_nand(w, a, b)
                 /\ TS!bv_nor(w, a, b) = bv_nor(w, a, b)
                 /\ TS!bv_xnor(w, a, b) = bv_xnor(w, a, b)
                 /\ TS!bv_implies(w, a, b) = bv_implies(w, a, b)
                 /\ TS!bv_rol(w, a, b) = bv_rol(w, a, b)
                 /\ TS!bv_ror(w, a, b) = bv_ror(w, a, b)
  BY DEF TS!bv_nand, TS!bv_nor, TS!bv_xnor, TS!bv_implies, TS!bv_rol, TS!bv_ror,
     bv_nand, bv_nor, bv_xnor, bv_implies, bv_rol, bv_ror
<1>3. \A w, a, b : /\ TS!bv_slt(w, a, b) = bv_slt(w, a, b)
                 /\ TS!bv_slte(w, a, b) = bv_slte(w, a, b)
                 /\ TS!bv_sdiv(w, a, b) = bv_sdiv(w, a, b)
                 /\ TS!bv_srem(w, a, b) = bv_srem(w, a, b)
                 /\ TS!bv_smod(w, a, b) = bv_smod(w, a, b)
  BY <1>1 DEF TS!bv_slt, TS!bv_slte, TS!bv_sdiv, TS!bv_srem, TS!bv_smod,
     bv_slt, bv_slte, bv_sdiv, bv_srem, bv_smod
<1> QED
  BY <1>1, <1>2, <1>3

\* Those of arrays.
LEMMA SameArrays ==
    /\ TS!NewArray = NewArray
    /\ \A m : TS!Copy(m) = Copy(m)
    /\ \A m, x : TS!SetConstInit(m, x) = SetConstInit(m, x)
    /\ \A m, i, w : TS!Element(m, i, w) = Element(m, i, w)
    /\ \A m, i, x : TS!Write(m, i, x) = Write(m, i, x)
    /\ \A m, n, v, w : TS!Equal(m, n, v, w) = Equal(m, n, v, w)
    /\ \A c, t, e : TS!Choose(c, t, e) = Choose(c, t, e)
<1>1. /\ TS!NewArray = NewArray
      /\ \A f, i, x : TS!With(f, i, x) = With(f, i, x)
      /\ \A m : TS!Copy(m) = Copy(m)
  BY SameBasics DEF TS!NewArray, TS!NoData, TS!With, TS!Copy, NewArray, NoData, With, Copy
<1>2. \A m, x : TS!SetConstInit(m, x) = SetConstInit(m, x)
  BY <1>1 DEF TS!SetConstInit, SetConstInit
<1>3. \A m, i, w : TS!Element(m, i, w) = Element(m, i, w)
  BY SameBasics DEF TS!Element, TS!Default, TS!get_random_init, Element, Default, get_random_init
<1>4. \A m, i, x : TS!Write(m, i, x) = Write(m, i, x)
  BY <1>1 DEF TS!Write, Write
<1>5. \A m, n, v, w : TS!Equal(m, n, v, w) = Equal(m, n, v, w)
  <2>1. \A m, n, w : TS!DataIsSubset(m, n, w) = DataIsSubset(m, n, w)
    BY <1>3 DEF TS!DataIsSubset, DataIsSubset
  <2> TAKE m, n, v, w
  <2>2. /\ TS!DataIsSubset(m, n, w) = DataIsSubset(m, n, w)
        /\ TS!DataIsSubset(n, m, w) = DataIsSubset(n, m, w)
        /\ TS!None = None
    BY <2>1, SameBasics
  <2>3. \A S : TS!Cardinality(S) = Cardinality(S)
    BY DEF TS!Cardinality, Cardinality
  <2> QED
    BY <2>2, <2>3 DEF TS!Equal, Equal
<1>6. \A c, t, e : TS!Choose(c, t, e) = Choose(c, t, e)
  BY <1>1 DEF TS!Choose, Choose
<1> QED
  BY <1>1, <1>2, <1>3, <1>4, <1>5, <1>6

\* And so what lines compute.
LEMMA SameCompute ==
    /\ \A T, v, a : TS!ArgValue(T, v, a) = ArgValue(T, v, a)
    /\ \A T, v, s : TS!InitValue(T, v, s) = InitValue(T, v, s)
    /\ \A T, v, i : TS!Compute(T, v, i) = Compute(T, v, i)
<1>1. \A T, v, a : TS!ArgValue(T, v, a) = ArgValue(T, v, a)
  BY SameBasics, SameArithmetic, SameArrays DEF TS!ArgValue, ArgValue
<1>2. \A T, v, s : TS!InitValue(T, v, s) = InitValue(T, v, s)
  BY <1>1, SameBasics, SameArrays DEF TS!InitValue, InitValue
<1>3. \A l : TS!ConstantValue(l) = ConstantValue(l)
  BY SameBasics, SameArithmetic DEF TS!ConstantValue, ConstantValue
<1>4. \A l, w, x : TS!UnaryValue(l, w, x) = UnaryValue(l, w, x)
  <2> TAKE l, w, x
  <2>1. /\ TS!bv_not(w, x) = bv_not(w, x) /\ TS!bv_neg(w, x) = bv_neg(w, x)
        /\ TS!bv_inc(w, x) = bv_inc(w, x) /\ TS!bv_dec(w, x) = bv_dec(w, x)
        /\ TS!bv_slice(x, l.imm[1], l.imm[2]) = bv_slice(x, l.imm[1], l.imm[2])
        /\ TS!bv_sext(w, x, Width(l) - w) = bv_sext(w, x, Width(l) - w)
        /\ TS!Width(l) = Width(l)
    BY SameArithmetic, SameBasics
  <2>2. /\ TS!bv_redand(w, x) = bv_redand(w, x) /\ TS!bv_redor(w, x) = bv_redor(w, x)
        /\ TS!bv_redxor(w, x) = bv_redxor(w, x)
    BY SameOthers
  <2> QED
    BY <2>1, <2>2 DEF TS!UnaryValue, UnaryValue
<1>5. \A l, v, x, y : TS!BinaryValue(l, v, x, y) = BinaryValue(l, v, x, y)
  <2> TAKE l, v, x, y
  <2>1. /\ TS!bv_add(v, x, y) = bv_add(v, x, y) /\ TS!bv_sub(v, x, y) = bv_sub(v, x, y)
        /\ TS!bv_mul(v, x, y) = bv_mul(v, x, y)
        /\ TS!bv_udiv(v, x, y) = bv_udiv(v, x, y) /\ TS!bv_urem(v, x, y) = bv_urem(v, x, y)
        /\ TS!bv_concat(v, x, y) = bv_concat(v, x, y)
        /\ TS!bv_sll(v, x, y) = bv_sll(v, x, y) /\ TS!bv_srl(v, x, y) = bv_srl(v, x, y)
        /\ TS!bv_sra(v, x, y) = bv_sra(v, x, y)
    BY SameArithmetic
  <2>2. /\ TS!bv_and(v, x, y) = bv_and(v, x, y) /\ TS!bv_or(v, x, y) = bv_or(v, x, y)
        /\ TS!bv_xor(v, x, y) = bv_xor(v, x, y)
    BY SameBitwise
  <2>3. /\ TS!bv_ult(x, y) = bv_ult(x, y) /\ TS!bv_ulte(x, y) = bv_ulte(x, y)
        /\ TS!bv_ult(y, x) = bv_ult(y, x) /\ TS!bv_ulte(y, x) = bv_ulte(y, x)
        /\ TS!bv_slt(v, x, y) = bv_slt(v, x, y) /\ TS!bv_slte(v, x, y) = bv_slte(v, x, y)
        /\ TS!bv_slt(v, y, x) = bv_slt(v, y, x) /\ TS!bv_slte(v, y, x) = bv_slte(v, y, x)
    BY SameOthers
  <2>4. /\ TS!bv_nand(v, x, y) = bv_nand(v, x, y) /\ TS!bv_nor(v, x, y) = bv_nor(v, x, y)
        /\ TS!bv_xnor(v, x, y) = bv_xnor(v, x, y) /\ TS!bv_implies(v, x, y) = bv_implies(v, x, y)
        /\ TS!bv_rol(v, x, y) = bv_rol(v, x, y) /\ TS!bv_ror(v, x, y) = bv_ror(v, x, y)
        /\ TS!bv_sdiv(v, x, y) = bv_sdiv(v, x, y) /\ TS!bv_srem(v, x, y) = bv_srem(v, x, y)
        /\ TS!bv_smod(v, x, y) = bv_smod(v, x, y)
    BY SameOthers
  <2> QED
    BY <2>1, <2>2, <2>3, <2>4 DEF TS!BinaryValue, BinaryValue
<1>6. \A T, l, x, y : TS!EqualValue(T, l, x, y) = EqualValue(T, l, x, y)
  BY SameBasics, SameArrays DEF TS!EqualValue, EqualValue
<1>7. \A l, c, x, y : TS!IteValue(l, c, x, y) = IteValue(l, c, x, y)
  BY SameBasics, SameArrays DEF TS!IteValue, IteValue
<1>8. \A T, l, x : TS!OperatorValue(T, l, x) = OperatorValue(T, l, x)
  <2> TAKE T, l, x
  <2> QED
    BY <1>3, <1>4, <1>5, <1>6, <1>7, SameBasics, SameArrays DEF TS!OperatorValue, OperatorValue
<1>9. \A T, v, i : TS!Compute(T, v, i) = Compute(T, v, i)
  BY <1>1, <1>8 DEF TS!Compute, Compute
<1> QED
  BY <1>1, <1>2, <1>9

\* Which lines there are.
LEMMA SameLines ==
    \A T : /\ TS!ValueLines(T) = ValueLines(T) /\ TS!Leaves(T) = Leaves(T)
           /\ TS!Operators(T) = Operators(T) /\ TS!StateIds(T) = StateIds(T)
           /\ \A tag : TS!LinesOf(T, tag) = LinesOf(T, tag)
BY DEF TS!ValueLines, TS!Leaves, TS!Operators, TS!StateIds, TS!LinesOf, TS!NonArguments,
   ValueLines, Leaves, Operators, StateIds, LinesOf, NonArguments

----------------------------------------------------------------------------
(* Valuations and literals.                                                *)

\* A model that can be translated and has values.
Translated == model \in Models /\ Valued(model) /\ ~Untranslatable

\* All its lines are bit-vectors: there is no sort line of an array.
LEMMA Bitvectors ==
    ASSUME Translated
    PROVE  \A i \in ValueLines(model) :
              /\ i \in DOMAIN model /\ i \in Nat \ {0}
              /\ IsBitvec(model[i]) /\ ~IsArray(model[i])
              /\ Width(model[i]) \in 1 .. MaxBitWidth - 1
              /\ ValuesOfSort(model, model[i]) = Values(Width(model[i]))
<1> SUFFICES ASSUME NEW i \in ValueLines(model)
             PROVE  /\ i \in DOMAIN model /\ i \in Nat \ {0}
                    /\ IsBitvec(model[i]) /\ ~IsArray(model[i])
                    /\ Width(model[i]) \in 1 .. MaxBitWidth - 1
                    /\ ValuesOfSort(model, model[i]) = Values(Width(model[i]))
  OBVIOUS
<1>1. Wired(model) /\ WellSorted(model)
  BY ModelsAssumption DEF Translated, Valued
<1>2. i \in DOMAIN model /\ i \in Nat \ {0}
  BY <1>1 DEF ValueLines, Wired
<1>3. model[i].tag \in SortedTags
  <2>1. model[i].tag \in Tag /\ model[i].tag \notin NonArguments \cup {"output"}
    BY <1>1, <1>2 DEF ValueLines, Wired, Line
  <2> QED
    BY <2>1 DEF Tag, NonArguments, Properties
<1>4. PICK j \in DOMAIN model : model[j].tag = "sort" /\ model[j].sort = model[i].sort
  BY <1>1, <1>2, <1>3 DEF Wired
<1>5. ~IsArray(model[i])
  BY <1>4 DEF Translated, Untranslatable, IsArray
<1> QED
  BY <1>1, <1>2, <1>5, SortsOf DEF ValuesOfSort

\* Valuations satisfy the equations of the lines, with values that fit.
LEMMA ValuationFacts ==
    ASSUME Translated, NEW v \in Valuations(model)
    PROVE  /\ DOMAIN v = ValueLines(model)
           /\ \A i \in Operators(model) : v[i] = Compute(model, v, i)
           /\ \A i \in ValueLines(model) : v[i] \in Values(Width(model[i]))
<1>1. Wired(model) /\ WellSorted(model)
      /\ \A i \in ValueLines(model) : model[i].tag \notin Unsupported
  BY ModelsAssumption DEF Translated, Valued
<1>2. PICK f : /\ v = Evaluate(model, f)
               /\ \A i \in Leaves(model) : f[i] \in Values(Width(model[i]))
  BY DEF Valuations
<1>3. /\ DOMAIN v = ValueLines(model)
      /\ \A i \in Leaves(model) : v[i] = f[i]
      /\ \A i \in Operators(model) : v[i] = Compute(model, v, i)
  BY <1>1, <1>2, EvaluateConsistent
<1>4. \A i \in Leaves(model) : i \in ValueLines(model)
  BY DEF Leaves, ValueLines, NonArguments
<1>5. \A i \in Leaves(model) : v[i] \in ValuesOfSort(model, model[i])
  BY <1>2, <1>3, <1>4, Bitvectors
<1>6. \A i \in ValueLines(model) : v[i] \in ValuesOfSort(model, model[i])
  BY <1>1, <1>3, <1>5, ConsistentFits
<1> QED
  BY <1>3, <1>6, Bitvectors

\* There is a valuation.
LEMMA ValuationExists == ASSUME Translated PROVE SomeValuation(model) \in Valuations(model)
<1> DEFINE f == [i \in Leaves(model) |-> 0]
<1>1. ASSUME NEW i \in Leaves(model) PROVE 0 \in Values(Width(model[i]))
  <2>1. i \in ValueLines(model)
    BY DEF Leaves, ValueLines, NonArguments
  <2>2. Width(model[i]) \in 1 .. MaxBitWidth
    BY <2>1, Bitvectors, MaxBitWidthAssumption
  <2> QED
    BY <2>2, ValuesOf
<1>2. f \in [Leaves(model) -> UNION {Values(Width(model[i])) : i \in Leaves(model)}]
  BY <1>1
<1>3. \A i \in Leaves(model) : f[i] \in Values(Width(model[i]))
  BY <1>1
<1> HIDE DEF f
<1>4. Evaluate(model, f) \in Valuations(model)
  BY <1>2, <1>3 DEF Valuations
<1> QED
  BY <1>4 DEF SomeValuation

\* The value of a literal is the bit of an argument, negated or not.
LEMMA LiteralFacts ==
    ASSUME Translated, NEW v \in Valuations(model), NEW a \in Int, Abs(a) \in ValueLines(model)
    PROVE  /\ a # 0
           /\ Width(model[Abs(a)]) \in 1 .. MaxBitWidth
           /\ ArgValue(model, v, a) \in Values(Width(model[Abs(a)]))
           /\ \A i : LitValue(v, Lit(a, i)) = Bit(ArgValue(model, v, a), i)
           /\ \A i \in 0 .. MaxBitWidth : LitValue(v, Lit(a, i)) \in {0, 1}
<1>1. a # 0
  BY Bitvectors DEF Abs
<1>2. Width(model[Abs(a)]) \in 1 .. MaxBitWidth
  BY Bitvectors, MaxBitWidthAssumption
<1>3. ArgValue(model, v, a) \in Values(Width(model[Abs(a)]))
  <2>1. Wired(model) /\ WellSorted(model)
    BY ModelsAssumption DEF Translated, Valued
  <2>2. v[Abs(a)] \in ValuesOfSort(model, model[Abs(a)])
    BY ValuationFacts, Bitvectors
  <2>3. ArgValue(model, v, a) \in ValuesOfSort(model, model[Abs(a)])
    BY <2>1, <2>2, ArgFits
  <2> QED
    BY <2>3, Bitvectors
<1>4. \A i : LitValue(v, Lit(a, i)) = Bit(ArgValue(model, v, a), i)
  BY <1>1 DEF LitValue, Lit
<1>5. ArgValue(model, v, a) \in Nat
  BY <1>2, <1>3, ValuesOf
<1> QED
  BY <1>1, <1>2, <1>3, <1>4, <1>5, Bits

\* A state equals an argument if it does in each bit.
LEMMA StateBits ==
    ASSUME Translated, NEW v \in Valuations(model), NEW u \in Valuations(model),
           NEW s \in StateIds(model), NEW a \in Int, Abs(a) \in ValueLines(model),
           Width(model[Abs(a)]) = Width(model[s])
    PROVE  v[s] = ArgValue(model, u, a) <=>
             \A i \in 0 .. Width(model[s]) - 1 :
                LitValue(v, Lit(s, i)) = LitValue(u, Lit(a, i))
<1>1. s \in ValueLines(model)
  BY DEF StateIds, LinesOf, ValueLines, NonArguments
<1>2. s \in Int /\ Abs(s) = s /\ ~(s < 0) /\ ~IsArray(model[s])
  BY <1>1, Bitvectors DEF Abs
<1>3. ArgValue(model, v, s) = v[s]
  BY <1>2 DEF ArgValue
<1>4. /\ Width(model[s]) \in 0 .. MaxBitWidth
      /\ v[s] \in Values(Width(model[s]))
      /\ ArgValue(model, u, a) \in Values(Width(model[s]))
      /\ \A i : LitValue(v, Lit(s, i)) = Bit(v[s], i)
      /\ \A i : LitValue(u, Lit(a, i)) = Bit(ArgValue(model, u, a), i)
  BY <1>1, <1>2, <1>3, LiteralFacts, MaxBitWidthAssumption
<1> QED
  BY <1>4, BitsDetermine

\* A constraint or bad state property holds if its literal is one.
LEMMA PropertyBit ==
    ASSUME Translated, NEW v \in Valuations(model),
           NEW p \in LinesOf(model, "constraint") \cup LinesOf(model, "bad")
    PROVE  TS!Holds(model, v, p) <=> LitValue(v, PropertyLit(p)) = 1
<1> DEFINE a == model[p].args[1]
<1>1. /\ p \in DOMAIN model /\ model[p].tag \in Properties
      /\ 1 \in DOMAIN model[p].args /\ a \in Int /\ Abs(a) \in ValueLines(model)
  BY References DEF Translated, LinesOf, Properties
<1>2. Width(model[Abs(a)]) = 1
  <2>1. SortsOk(model, model[p])
    BY <1>1 DEF Translated, Valued, WellSorted
  <2>2. IsBool(Arg(model, model[p], 1))
    BY <1>1, <2>1 DEF SortsOk
  <2> QED
    BY <2>2 DEF IsBool, Arg
<1>3. ArgValue(model, v, a) \in {0, 1} /\ LitValue(v, Lit(a, 0)) = Bit(ArgValue(model, v, a), 0)
  BY <1>1, <1>2, LiteralFacts, Bits
<1>4. TS!Holds(model, v, p) <=> ArgValue(model, v, a) # 0
  BY SameCompute DEF TS!Holds
<1> QED
  BY <1>3, <1>4, BitOfTruth DEF PropertyLit

----------------------------------------------------------------------------
(* Frames of the circuit and of the model.                                 *)

\* The gates of an initial constraint compare its two literals in the first frame,
\* and are open afterwards.
LEMMA Gates ==
    ASSUME NEW v, NEW p, LitValue(v, p[1]) \in {0, 1}, LitValue(v, p[2]) \in {0, 1}
    PROVE  /\ InitialConstraint(v, 1, p) = 1 <=> LitValue(v, p[1]) = LitValue(v, p[2])
           /\ InitialConstraint(v, 0, p) = 1
<1> DEFINE x == LitValue(v, p[1])
           y == LitValue(v, p[2])
<1>1. Eq(x, y) \in {0, 1} /\ (Eq(x, y) = 1 <=> x = y)
  <2>1. \A m, n \in {0, 1} : Eq(m, n) \in {0, 1} /\ (Eq(m, n) = 1 <=> m = n)
    BY DEF Eq, Not, Conj
  <2> QED
    BY <2>1
<1> HIDE DEF x, y
<1>2. /\ Not(Conj(1, Not(Eq(x, y)))) = 1 <=> Eq(x, y) = 1
      /\ Not(Conj(0, Not(Eq(x, y)))) = 1
  <2>1. \A e \in {0, 1} : (Not(Conj(1, Not(e))) = 1 <=> e = 1) /\ Not(Conj(0, Not(e))) = 1
    BY DEF Not, Conj
  <2> QED
    BY <1>1, <2>1
<1> QED
  BY <1>1, <1>2 DEF InitialConstraint, x, y

\* The circuit is finished.
CircuitReady == /\ Translated /\ pc = "circuit"
                /\ Sorted /\ Made /\ Complete /\ Running

\* Bits of a state.
LEMMA StateBit ==
    ASSUME Translated, NEW s \in StateIds(model), NEW b \in BitsOf(s)
    PROVE  /\ b = <<s, b[2]>> /\ b[1] = s
           /\ b[2] \in 0 .. Width(model[s]) - 1 /\ b[2] \in 0 .. MaxBitWidth
           /\ s \in ValueLines(model) /\ s \in Int /\ Abs(s) = s
<1>1. s \in ValueLines(model)
  BY DEF StateIds, LinesOf, ValueLines, NonArguments
<1>2. /\ s \in Int /\ Abs(s) = s /\ Width(model[s]) \in 1 .. MaxBitWidth - 1
  BY <1>1, Bitvectors DEF Abs
<1>3. b = <<s, b[2]>> /\ b[1] = s /\ b[2] \in 0 .. Width(model[s]) - 1
  BY DEF BitsOf
<1> QED
  BY <1>1, <1>2, <1>3, MaxBitWidthAssumption

\* The links of a state have its width.
LEMMA LinkWidths ==
    ASSUME Translated, NEW s \in StateIds(model)
    PROVE  /\ model[s].init # 0 => /\ model[s].init \in Int
                                   /\ Abs(model[s].init) \in ValueLines(model)
                                   /\ Width(model[Abs(model[s].init)]) = Width(model[s])
           /\ model[s].next # 0 => /\ model[s].next \in Int
                                   /\ Abs(model[s].next) \in ValueLines(model)
                                   /\ Width(model[Abs(model[s].next)]) = Width(model[s])
<1>1. s \in DOMAIN model /\ s \in ValueLines(model)
  BY DEF StateIds, LinesOf, ValueLines, NonArguments
<1>2. IsBitvec(model[s]) /\ ~IsArray(model[s])
  BY <1>1, Bitvectors
<1>3. /\ model[s].init # 0 =>
           \/ SameWidths(model, model[s], model[Abs(model[s].init)])
           \/ IsArray(model[s]) /\ IsElement(model, model[Abs(model[s].init)], model[s])
      /\ model[s].next # 0 => SameWidths(model, model[s], model[Abs(model[s].next)])
  BY <1>1 DEF Translated, Valued, WellSorted
<1> QED
  BY <1>2, <1>3, References DEF Translated, SameWidths

\* What is known of a latch of the finished circuit.
LEMMA LatchFacts ==
    ASSUME CircuitReady, NEW b \in DOMAIN aig.latches
    PROVE  /\ b[1] \in StateIds(model) /\ b \in BitsOf(b[1])
           /\ model[b[1]].next # 0
           /\ aig.latches[b].next = Lit(model[b[1]].next, b[2])
           /\ aig.latches[b].reset = Reset(b)
<1>1. /\ b \in BitsOf(b[1]) /\ b[1] \in StateIds(model) /\ model[b[1]].next # 0
      /\ aig.latches[b] = Latch(b)
  BY DEF CircuitReady, Sorted, Made
<1>2. /\ Latch(b).next = Lit(model[b[1]].next, b[2]) /\ Latch(b).reset = Reset(b)
  BY DEF Latch
<1> QED
  BY <1>1, <1>2

\* The bits of states whose initial value is not constant.
LEMMA InitBitFacts ==
    ASSUME Translated, NEW s \in StateIds(model), NEW b \in BitsOf(s)
    PROVE  /\ b \in InitBits <=> model[s].init # 0
           /\ InitLit(b) = Lit(model[s].init, b[2])
<1>1. b[1] = s
  BY BitsNamed
<1>2. b \in InitBits <=> \E t \in StateIds(model) : model[t].init # 0 /\ b \in BitsOf(t)
  BY DEF InitBits
<1>3. \A t : b \in BitsOf(t) => t = s
  BY <1>1, BitsNamed
<1> QED
  BY <1>1, <1>2, <1>3 DEF InitLit

\* Lines are bit-vectors, so a state starts with the value of its init line.
LEMMA InitialByBits ==
    ASSUME Translated, NEW v \in Valuations(model)
    PROVE  TS!Initial(model, v) <=>
             \A s \in StateIds(model) : model[s].init # 0 =>
                \A b \in BitsOf(s) : LitValue(v, Lit(s, b[2])) = LitValue(v, InitLit(b))
<1>1. ASSUME NEW s \in StateIds(model), model[s].init # 0
      PROVE  v[s] = TS!InitValue(model, v, s) <=>
               \A b \in BitsOf(s) : LitValue(v, Lit(s, b[2])) = LitValue(v, InitLit(b))
  <2>1. s \in ValueLines(model)
    BY DEF StateIds, LinesOf, ValueLines, NonArguments
  <2>2. TS!InitValue(model, v, s) = ArgValue(model, v, model[s].init)
    BY <2>1, Bitvectors, SameCompute DEF InitValue
  <2>3. v[s] = ArgValue(model, v, model[s].init) <=>
          \A i \in 0 .. Width(model[s]) - 1 :
             LitValue(v, Lit(s, i)) = LitValue(v, Lit(model[s].init, i))
    BY <1>1, LinkWidths, StateBits
  <2>4. BitsOf(s) = {<<s, i>> : i \in 0 .. Width(model[s]) - 1}
    BY DEF BitsOf
  <2>5. (\A b \in BitsOf(s) : LitValue(v, Lit(s, b[2])) = LitValue(v, InitLit(b))) <=>
          \A i \in 0 .. Width(model[s]) - 1 :
             LitValue(v, Lit(s, i)) = LitValue(v, Lit(model[s].init, i))
    <3>1. \A b \in BitsOf(s) : /\ b[2] \in 0 .. Width(model[s]) - 1
                              /\ InitLit(b) = Lit(model[s].init, b[2])
      BY StateBit, InitBitFacts
    <3>2. \A i \in 0 .. Width(model[s]) - 1 :
            <<s, i>> \in BitsOf(s) /\ <<s, i>>[2] = i
      BY <2>4
    <3> QED
      BY <3>1, <3>2
  <2> QED
    BY <2>2, <2>3, <2>5
<1> QED
  BY <1>1, SameLines DEF TS!Initial

LEMMA SuccessorByBits ==
    ASSUME Translated, NEW v \in Valuations(model), NEW u \in Valuations(model)
    PROVE  TS!Successor(model, u, v) <=>
             \A s \in StateIds(model) : model[s].next # 0 =>
                \A b \in BitsOf(s) :
                   LitValue(v, Lit(s, b[2])) = LitValue(u, Lit(model[s].next, b[2]))
<1>1. ASSUME NEW s \in StateIds(model), model[s].next # 0
      PROVE  v[s] = TS!ArgValue(model, u, model[s].next) <=>
               \A b \in BitsOf(s) :
                   LitValue(v, Lit(s, b[2])) = LitValue(u, Lit(model[s].next, b[2]))
  <2>1. TS!ArgValue(model, u, model[s].next) = ArgValue(model, u, model[s].next)
    BY SameCompute
  <2>2. v[s] = ArgValue(model, u, model[s].next) <=>
          \A i \in 0 .. Width(model[s]) - 1 :
             LitValue(v, Lit(s, i)) = LitValue(u, Lit(model[s].next, i))
    BY <1>1, LinkWidths, StateBits
  <2>3. (\A b \in BitsOf(s) :
                   LitValue(v, Lit(s, b[2])) = LitValue(u, Lit(model[s].next, b[2]))) <=>
          \A i \in 0 .. Width(model[s]) - 1 :
             LitValue(v, Lit(s, i)) = LitValue(u, Lit(model[s].next, i))
    <3>1. \A b \in BitsOf(s) : b[2] \in 0 .. Width(model[s]) - 1
      BY StateBit
    <3>2. \A i \in 0 .. Width(model[s]) - 1 :
            <<s, i>> \in BitsOf(s) /\ <<s, i>>[2] = i
      BY DEF BitsOf
    <3> QED
      BY <3>1, <3>2
  <2> QED
    BY <2>1, <2>2, <2>3
<1> QED
  BY <1>1, SameLines DEF TS!Successor

\* The constraints of the circuit that come from constraint lines.
LEMMA ConstraintsByBits ==
    ASSUME CircuitReady, NEW v \in Valuations(model)
    PROVE  ~TS!Violates(model, v) <=> \A c \in aig.constraints : LitValue(v, c) = 1
<1>1. ConstraintsLeft = {}
  BY DEF CircuitReady, ConstraintsLeft
<1>2. \A l : l \in aig.constraints <=> \E c \in LinesOf(model, "constraint") : l = PropertyLit(c)
  BY <1>1 DEF CircuitReady, Made, Complete
<1>3. \A c \in LinesOf(model, "constraint") :
        TS!Holds(model, v, c) <=> LitValue(v, PropertyLit(c)) = 1
  BY PropertyBit DEF CircuitReady
<1> QED
  BY <1>2, <1>3, SameLines DEF TS!Violates

\* All states have been translated.
LEMMA LatchesOfStates ==
    ASSUME CircuitReady, NEW s \in StateIds(model)
    PROVE  /\ model[s].init # 0 => model[s].next # 0
           /\ model[s].next # 0 => BitsOf(s) \subseteq DOMAIN aig.latches
<1>1. StatesLeft = {}
  BY DEF CircuitReady, StatesLeft
<1> QED
  BY <1>1 DEF CircuitReady, Complete

\* The next literals of the latches are the next lines of the states.
LEMMA NextAgrees ==
    ASSUME CircuitReady, NEW v \in Valuations(model), NEW u \in Valuations(model)
    PROVE  TS!Successor(model, u, v) <=>
             \A b \in DOMAIN aig.latches :
                LitValue(v, Lit(b[1], b[2])) = LitValue(u, aig.latches[b].next)
<1>1. TS!Successor(model, u, v) <=>
             \A s \in StateIds(model) : model[s].next # 0 =>
                \A b \in BitsOf(s) :
                   LitValue(v, Lit(s, b[2])) = LitValue(u, Lit(model[s].next, b[2]))
  BY SuccessorByBits DEF CircuitReady
<1>2. ASSUME NEW s \in StateIds(model), model[s].next # 0, NEW b \in BitsOf(s)
      PROVE  /\ b \in DOMAIN aig.latches /\ b[1] = s
             /\ aig.latches[b].next = Lit(model[s].next, b[2])
  <2>1. b \in DOMAIN aig.latches /\ b[1] = s
    BY <1>2, LatchesOfStates, BitsNamed
  <2> QED
    BY <2>1, LatchFacts
<1>3. \A b \in DOMAIN aig.latches :
         /\ b[1] \in StateIds(model) /\ model[b[1]].next # 0 /\ b \in BitsOf(b[1])
         /\ aig.latches[b].next = Lit(model[b[1]].next, b[2])
  BY LatchFacts
<1> QED
  BY <1>1, <1>2, <1>3

\* What a latch resets to.
LEMMA ResetValues ==
    ASSUME CircuitReady, NEW v \in Valuations(model), NEW b \in DOMAIN aig.latches
    PROVE  LET x == LitValue(v, aig.latches[b].reset)
           IN  /\ model[b[1]].init = 0 => x = LitValue(v, Lit(b[1], b[2]))
               /\ b \in folded => x = LitValue(v, InitLit(b))
               /\ b \in InitBits \ folded => x = 0
<1> DEFINE x == LitValue(v, aig.latches[b].reset)
<1>1. /\ b[1] \in StateIds(model) /\ b \in BitsOf(b[1])
      /\ aig.latches[b].reset = Reset(b)
  BY LatchFacts
<1>2. b \in InitBits <=> model[b[1]].init # 0
  BY <1>1, InitBitFacts DEF CircuitReady
<1>3. \A n : LitValue(v, Lit(0, n)) = n
  BY DEF LitValue, Lit
<1>4. model[b[1]].init = 0 => x = LitValue(v, Lit(b[1], b[2]))
  <2>1. SUFFICES ASSUME model[b[1]].init = 0 PROVE x = LitValue(v, Lit(b[1], b[2]))
    OBVIOUS
  <2>2. b \notin folded
    BY <1>2, <2>1 DEF CircuitReady, Made
  <2>3. Reset(b) = Lit(b[1], b[2])
    BY <2>1, <2>2 DEF Reset
  <2> QED
    BY <1>1, <2>3
<1>5. b \in folded => x = LitValue(v, InitLit(b))
  <2>1. SUFFICES ASSUME b \in folded PROVE x = LitValue(v, InitLit(b))
    OBVIOUS
  <2>2. b \in InitBits /\ Constant(InitLit(b))
    BY <2>1 DEF CircuitReady, Made
  <2>3. Reset(b) = Lit(0, ConstantValueOf(InitLit(b)))
    BY <1>2, <2>1, <2>2 DEF Reset
  <2>4. x = LitValue(SomeValuation(model), InitLit(b))
    BY <1>1, <1>3, <2>3 DEF ConstantValueOf
  <2>5. SomeValuation(model) \in Valuations(model)
    BY ValuationExists DEF CircuitReady
  <2> QED
    BY <2>2, <2>4, <2>5 DEF Constant
<1>6. b \in InitBits \ folded => x = 0
  <2>1. SUFFICES ASSUME b \in InitBits \ folded PROVE x = 0
    OBVIOUS
  <2>2. Reset(b) = Lit(0, 0)
    BY <1>2, <2>1 DEF Reset
  <2> QED
    BY <1>1, <1>3, <2>2
<1> QED
  BY <1>4, <1>5, <1>6

\* The initial constraints compare latches with their initial values.
LEMMA PairFacts ==
    ASSUME CircuitReady, NEW v \in Valuations(model), NEW b \in DOMAIN aig.latches,
           b \in InitBits
    PROVE  /\ LitValue(v, InitPair(b)[1]) = LitValue(v, Lit(b[1], b[2]))
           /\ LitValue(v, InitPair(b)[2]) = LitValue(v, InitLit(b))
           /\ LitValue(v, Lit(b[1], b[2])) \in {0, 1}
           /\ LitValue(v, InitLit(b)) \in {0, 1}
<1> DEFINE s == b[1]
<1>1. s \in StateIds(model) /\ b \in BitsOf(s)
  BY LatchFacts
<1>2. /\ b[2] \in 0 .. MaxBitWidth
      /\ s \in ValueLines(model) /\ s \in Int /\ Abs(s) = s
  BY <1>1, StateBit DEF CircuitReady
<1>3. model[s].init # 0 /\ InitLit(b) = Lit(model[s].init, b[2])
  BY <1>1, InitBitFacts DEF CircuitReady
<1>4. model[s].init \in Int /\ Abs(model[s].init) \in ValueLines(model)
  BY <1>1, <1>3, LinkWidths DEF CircuitReady
<1>5. LitValue(v, Lit(s, b[2])) \in {0, 1}
  BY <1>2, LiteralFacts DEF CircuitReady
<1>6. LitValue(v, InitLit(b)) \in {0, 1}
  BY <1>2, <1>3, <1>4, LiteralFacts DEF CircuitReady
<1> QED
  BY <1>5, <1>6 DEF InitPair

\* The first frame: a latch has its reset, or its initial value if that is not
\* constant, which the constraints of the first frame ensure.
LEMMA FirstAgrees ==
    ASSUME CircuitReady, NEW v \in Valuations(model)
    PROVE  /\ TS!Initial(model, v) =>
                /\ \A p \in aig.initial : InitialConstraint(v, 1, p) = 1
                /\ (\A p \in init_constrains : LitValue(v, p[1]) = 0) => ResetFrame(v)
           /\ ResetFrame(v) /\ (\A p \in aig.initial : InitialConstraint(v, 1, p) = 1) =>
                TS!Initial(model, v)
<1> DEFINE L(b) == LitValue(v, Lit(b[1], b[2]))
           I(b) == LitValue(v, InitLit(b))
           Free == (DOMAIN aig.latches \cap InitBits) \ folded
<1>1. TS!Initial(model, v) <=>
        \A b \in DOMAIN aig.latches \cap InitBits : L(b) = I(b)
  <2>1. TS!Initial(model, v) <=>
             \A s \in StateIds(model) : model[s].init # 0 =>
                \A b \in BitsOf(s) : LitValue(v, Lit(s, b[2])) = LitValue(v, InitLit(b))
    BY InitialByBits DEF CircuitReady
  <2>2. ASSUME NEW s \in StateIds(model), model[s].init # 0, NEW b \in BitsOf(s)
        PROVE  b \in DOMAIN aig.latches \cap InitBits /\ b[1] = s
    BY <2>2, LatchesOfStates, BitsNamed, InitBitFacts DEF CircuitReady
  <2>3. ASSUME NEW b \in DOMAIN aig.latches \cap InitBits
        PROVE  b[1] \in StateIds(model) /\ b \in BitsOf(b[1]) /\ model[b[1]].init # 0
    BY <2>3, LatchFacts, InitBitFacts DEF CircuitReady
  <2> QED
    BY <2>1, <2>2, <2>3
<1>2. \A p : p \in aig.initial <=> \E b \in Free : p = InitPair(b)
  BY DEF CircuitReady, Made, Complete
<1>3. \A p : p \in init_constrains <=> \E b \in Free : p = InitPair(b)
  BY DEF CircuitReady, Made
<1>4. \A b \in Free : /\ LitValue(v, InitPair(b)[1]) = L(b)
                      /\ InitialConstraint(v, 1, InitPair(b)) = 1 <=> L(b) = I(b)
  <2> TAKE b \in Free
  <2>1. /\ LitValue(v, InitPair(b)[1]) = L(b) /\ LitValue(v, InitPair(b)[2]) = I(b)
        /\ L(b) \in {0, 1} /\ I(b) \in {0, 1}
    BY PairFacts
  <2> QED
    BY <2>1, Gates
<1>5. ResetFrame(v) <=>
        /\ \A b \in DOMAIN aig.latches \cap folded : L(b) = I(b)
        /\ \A b \in Free : L(b) = 0
  <2>1. ASSUME NEW b \in DOMAIN aig.latches
        PROVE  /\ b \in folded => LitValue(v, aig.latches[b].reset) = I(b)
               /\ b \in Free => LitValue(v, aig.latches[b].reset) = 0
               /\ b \notin folded /\ b \notin Free => LitValue(v, aig.latches[b].reset) = L(b)
    <3>1. b[1] \in StateIds(model) /\ b \in BitsOf(b[1])
      BY LatchFacts
    <3>2. b \in InitBits <=> model[b[1]].init # 0
      BY <3>1, InitBitFacts DEF CircuitReady
    <3> QED
      BY <3>2, ResetValues
  <2> QED
    BY <2>1 DEF ResetFrame
<1>6. \A b \in folded : b \in InitBits
  BY DEF CircuitReady, Made
<1> HIDE DEF L, I
<1> QED
  BY <1>1, <1>2, <1>3, <1>4, <1>5, <1>6

\* A frame is one of the circuit exactly if it is one of the model, but for the
\* latches that start with zero.
LEMMA FrameAgrees ==
    ASSUME CircuitReady, NEW v \in Valuations(model)
    PROVE  /\ ModelFrame(v) =>
                \/ CircuitFrame(v)
                \/ time = -1 /\ \E p \in init_constrains : LitValue(v, p[1]) # 0
           /\ CircuitFrame(v) => ModelFrame(v)
<1>1. ~TS!Violates(model, v) <=> \A c \in aig.constraints : LitValue(v, c) = 1
  BY ConstraintsByBits
<1>2. CASE time = -1
  <2>1. ModelFrame(v) <=> TS!Initial(model, v) /\ ~TS!Violates(model, v)
    BY <1>2 DEF ModelFrame
  <2>2. CircuitFrame(v) <=> ResetFrame(v) /\ Constrained(v, 1)
    BY <1>2 DEF CircuitFrame
  <2>3. Constrained(v, 1) <=> /\ ~TS!Violates(model, v)
                              /\ \A p \in aig.initial : InitialConstraint(v, 1, p) = 1
    BY <1>1 DEF Constrained
  <2> QED
    BY <1>2, <2>1, <2>2, <2>3, FirstAgrees
<1>3. CASE time # -1
  <2>1. val \in Valuations(model)
    BY <1>3 DEF CircuitReady, Running
  <2>2. ModelFrame(v) <=> TS!Successor(model, val, v) /\ ~TS!Violates(model, v)
    BY <1>3 DEF ModelFrame
  <2>3. CircuitFrame(v) <=> NextFrame(v) /\ Constrained(v, 0)
    BY <1>3 DEF CircuitFrame
  <2>4. NextFrame(v) <=> TS!Successor(model, val, v)
    BY <2>1, NextAgrees DEF NextFrame
  <2>5. \A p \in aig.initial : InitialConstraint(v, 0, p) = 1
    <3>1. \A p \in aig.initial : \E b \in DOMAIN aig.latches : b \in InitBits /\ p = InitPair(b)
      BY DEF CircuitReady, Made, Complete
    <3> TAKE p \in aig.initial
    <3>2. PICK b \in DOMAIN aig.latches : b \in InitBits /\ p = InitPair(b)
      BY <3>1
    <3>3. LitValue(v, p[1]) \in {0, 1} /\ LitValue(v, p[2]) \in {0, 1}
      BY <3>2, PairFacts
    <3> QED
      BY <3>3, Gates
  <2>6. Constrained(v, 0) <=> ~TS!Violates(model, v)
    BY <1>1, <2>5 DEF Constrained
  <2> QED
    BY <2>2, <2>3, <2>4, <2>6
<1> QED
  BY <1>2, <1>3

\* In the states of a run the circuit is ready when it runs.
LEMMA ReadyInRuns ==
    ASSUME IInv, Made, Complete, Running, Valued(model), pc = "circuit"
    PROVE  CircuitReady
<1>1. ~Untranslatable
  BY DEF Running
<1> QED
  BY <1>1 DEF CircuitReady, Translated, IInv

\* Every run of a model that keeps its constraints is one of the circuit, unless a
\* bit whose initial value is not constant starts with one.
THEOREM Frames == Spec => [](Valued(model) => FramesKept)
<1>1. IInv /\ Made /\ Complete /\ Running => (Valued(model) => FramesKept)
  BY ReadyInRuns, FrameAgrees DEF FramesKept
<1> QED
  BY <1>1, TranslationInvariant, CircuitInvariant, RunningInvariant, PTL

\* The literals of a translated model are bits of its lines or constants.
LEMMA Types ==
    ASSUME IInv, Made, Complete, Running, Valued(model)
    PROVE  TypeOK
<1>1. CASE Untranslatable
  <2>1. pc \in {"parse", "error"} /\ aig = NoCircuit
    BY <1>1 DEF Running
  <2>2. aig.inputs = {} /\ DOMAIN aig.latches = {} /\ UsedLiterals = {}
    BY <2>1 DEF NoCircuit, NoValues, UsedLiterals
  <2>3. folded \subseteq InitBits /\ left \subseteq DOMAIN model
    BY DEF Made
  <2> QED
    BY <2>1, <2>2, <2>3 DEF TypeOK, IInv, Running
<1>2. CASE ~Untranslatable
  <2>0. Translated
    BY <1>2 DEF Translated, IInv
  <2>1. \A b \in aig.inputs : b \in BitsOf(b[1]) /\ b[1] \in Leaves(model)
    BY DEF IInv, Sorted, Made, Leaves, InputIds, StateIds, LinesOf
  <2>2. \A b \in DOMAIN aig.latches :
          /\ b \in BitsOf(b[1]) /\ b[1] \in StateIds(model) /\ model[b[1]].next # 0
          /\ aig.latches[b] = Latch(b)
    BY DEF IInv, Sorted, Made
  <2>3. ASSUME NEW b \in DOMAIN aig.latches
        PROVE  /\ IsBit(aig.latches[b].next)
               /\ IsBit(aig.latches[b].reset) \/ IsConstant(aig.latches[b].reset)
    <3> DEFINE s == b[1]
    <3>1. /\ b[2] \in 0 .. Width(model[s]) - 1 /\ b[2] \in 0 .. MaxBitWidth
          /\ s \in ValueLines(model) /\ Abs(s) = s
      BY <2>0, <2>2, StateBit
    <3>2. /\ model[s].next \in Int /\ Abs(model[s].next) \in ValueLines(model)
          /\ Width(model[Abs(model[s].next)]) = Width(model[s])
      BY <2>0, <2>2, LinkWidths
    <3>3. /\ aig.latches[b].next = Lit(model[s].next, b[2])
          /\ aig.latches[b].reset = Reset(b)
      <4>1. aig.latches[b] = Latch(b)
        BY <2>2
      <4>2. /\ Latch(b).next = Lit(model[s].next, b[2])
            /\ Latch(b).reset = Reset(b)
        BY DEF Latch
      <4> QED
        BY <4>1, <4>2
    <3>4. IsBit(aig.latches[b].next)
      BY <3>1, <3>2, <3>3 DEF IsBit, Lit
    <3>5. IsBit(Lit(s, b[2]))
      BY <3>1 DEF IsBit, Lit
    <3>6. b \in folded => IsConstant(Lit(0, ConstantValueOf(InitLit(b))))
      <4>1. SUFFICES ASSUME b \in folded PROVE IsConstant(Lit(0, ConstantValueOf(InitLit(b))))
        OBVIOUS
      <4>2. model[s].init # 0 /\ InitLit(b) = Lit(model[s].init, b[2])
        BY <2>0, <2>2, <4>1, InitBitFacts DEF Made
      <4>3. model[s].init \in Int /\ Abs(model[s].init) \in ValueLines(model)
        BY <2>0, <2>2, <4>2, LinkWidths
      <4>4. ConstantValueOf(InitLit(b)) \in {0, 1}
        BY <2>0, <3>1, <4>2, <4>3, LiteralFacts, ValuationExists DEF ConstantValueOf
      <4> QED
        BY <4>4 DEF IsConstant, Lit
    <3>7. IsConstant(Lit(0, 0))
      BY DEF IsConstant, Lit
    <3>8. \/ Reset(b) = Lit(s, b[2])
          \/ b \in folded /\ Reset(b) = Lit(0, ConstantValueOf(InitLit(b)))
          \/ Reset(b) = Lit(0, 0)
      BY DEF Reset
    <3> QED
      BY <3>3, <3>4, <3>5, <3>6, <3>7, <3>8
  <2>4. ASSUME NEW p \in LinesOf(model, "constraint") \cup LinesOf(model, "bad")
        PROVE  IsBit(PropertyLit(p))
    <3> DEFINE a == model[p].args[1]
    <3>1. /\ p \in DOMAIN model /\ model[p].tag \in Properties
          /\ 1 \in DOMAIN model[p].args /\ a \in Int /\ Abs(a) \in ValueLines(model)
      BY <2>0, References DEF Translated, LinesOf, Properties
    <3>2. Width(model[Abs(a)]) \in 1 .. MaxBitWidth - 1
      BY <2>0, <3>1, Bitvectors
    <3> QED
      BY <3>1, <3>2, MaxBitWidthAssumption DEF IsBit, PropertyLit, Lit
  <2>5. \A l \in UsedLiterals : IsBit(l)
    <3>1. \A c \in aig.constraints : IsBit(c)
      BY <2>4 DEF Made
    <3>2. \A b \in DOMAIN aig.bads : IsBit(aig.bads[b])
      BY <2>4 DEF Made
    <3> QED
      BY <2>3, <3>1, <3>2 DEF UsedLiterals
  <2>6. aig.inputs \subseteq UNION {BitsOf(i) : i \in Leaves(model)}
    BY <2>1
  <2>7. DOMAIN aig.latches \subseteq UNION {BitsOf(s) : s \in StateIds(model)}
    BY <2>2
  <2>8. pc \in {"parse", "inputs", "states", "constraints", "bads", "check", "circuit", "error"}
    BY DEF Running, Loops
  <2>9. folded \subseteq InitBits /\ left \subseteq DOMAIN model
    BY DEF Made
  <2> QED
    BY <2>3, <2>5, <2>6, <2>7, <2>8, <2>9 DEF TypeOK, IInv, Running
<1> QED
  BY <1>1, <1>2

\* The same in every state.
THEOREM Typing == Spec => [](Valued(model) => TypeOK)
BY Types, TranslationInvariant, CircuitInvariant, RunningInvariant, PTL

\* A frame of the circuit is a frame of the transition system: its values satisfy
\* the equations of the lines, and it records the same bad states.
LEMMA FramesImplement ==
    ASSUME CircuitReady, Frame
    PROVE  TS!Frame
<1>1. /\ time' = time + 1 /\ UNCHANGED <<model, translation>>
      /\ val' \in Valuations(model) /\ CircuitFrame(val')
      /\ reached' = [b \in DOMAIN reached |->
                       IF reached[b] = -1 /\ LitValue(val', aig.bads[b]) = 1
                       THEN time' ELSE reached[b]]
  BY DEF Frame
<1>2. ModelFrame(val')
  BY <1>1, FrameAgrees
<1>3. TS!Consistent(model, val') /\ TS!WithinSorts(model, val')
  <2>1. /\ DOMAIN val' = ValueLines(model)
        /\ \A i \in Operators(model) : val'[i] = Compute(model, val', i)
        /\ \A i \in ValueLines(model) : val'[i] \in Values(Width(model[i]))
    BY <1>1, ValuationFacts DEF CircuitReady
  <2>2. TS!Consistent(model, val')
    BY <2>1, SameLines, SameCompute DEF TS!Consistent
  <2>3. \A i \in Leaves(model) : i \in ValueLines(model)
    BY DEF Leaves, ValueLines, NonArguments
  <2>4. TS!WithinSorts(model, val')
    BY <2>1, <2>3, SameLines, SameBasics, SameArithmetic DEF TS!WithinSorts
  <2> QED
    BY <2>2, <2>4
<1>4. \A b \in DOMAIN reached : LitValue(val', aig.bads[b]) = 1 <=> TS!Holds(model, val', b)
  <2> TAKE b \in DOMAIN reached
  <2>1. b \in LinesOf(model, "bad")
    BY DEF CircuitReady, Running
  <2>2. BadsLeft = {}
    BY DEF CircuitReady, BadsLeft
  <2>3. aig.bads[b] = PropertyLit(b)
    BY <2>1, <2>2 DEF CircuitReady, Made, Complete
  <2> QED
    BY <1>1, <2>1, <2>3, PropertyBit DEF CircuitReady
<1>5. /\ IF time = -1 THEN TS!Initial(model, val') ELSE TS!Successor(model, val, val')
      /\ ~TS!Violates(model, val')
  BY <1>2 DEF ModelFrame
<1>6. reached' = [b \in DOMAIN reached |->
                    IF reached[b] = -1 /\ TS!Holds(model, val', b)
                    THEN time' ELSE reached[b]]
  BY <1>1, <1>4
<1>7. model' = model
  BY <1>1
<1> QED
  BY <1>1, <1>3, <1>5, <1>6, <1>7 DEF TS!Frame

\* Each run of the circuit of a model with values is a run of the transition system
\* that never violates a constraint, and records the same bad states.
THEOREM Refinement ==
    ASSUME \A T \in Models : Valued(T)
    PROVE  Spec => Implements
<1>1. Init => TS!Init
  <2>1. TS!LinesOf(model, "bad") = LinesOf(model, "bad")
    BY SameLines
  <2> QED
    BY <2>1 DEF Init, TS!Init, NoValues, TS!NoValues
<1>2. IInv /\ Made /\ Complete /\ Running /\ [Next]_vars => [TS!Frame]_TS!vars
  <2> SUFFICES ASSUME IInv, Made, Complete, Running, [Next]_vars
               PROVE  [TS!Frame]_TS!vars
    OBVIOUS
  <2>1. CASE Frame
    <3>1. CircuitReady
      BY <2>1, ReadyInRuns DEF IInv, Frame
    <3> QED
      BY <2>1, <3>1, FramesImplement
  <2>2. CASE Translate
    <3>1. UNCHANGED <<model, run>>
      BY <2>2 DEF Translate, Parse, AddInput, AddState, AddConstraint, AddBad, Continue, Finish
    <3> QED
      BY <3>1 DEF TS!vars, run
  <2>3. CASE UNCHANGED vars
    BY <2>3 DEF vars, run, TS!vars
  <2> QED
    BY <2>1, <2>2, <2>3 DEF Next
<1>3. TS!Init /\ [][TS!Frame]_TS!vars => TS!Spec
  BY DEF TS!Spec
<1> QED
  BY <1>1, <1>2, <1>3, TranslationInvariant, CircuitInvariant, RunningInvariant, PTL
     DEF Spec, Implements

=============================================================================
