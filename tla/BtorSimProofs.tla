---------------------------- MODULE BtorSimProofs ----------------------------
(***************************************************************************)
(* Theorems on BtorSim, for all models, witnesses, seeds and numbers of    *)
(* frames: how frames are counted, filled and handed over, and the values  *)
(* in them.                                                                *)
(***************************************************************************)
EXTENDS BtorSim, Btor2Lemmas, SequenceTheorems

\* A witness is being followed, or a simulation is under way; the two labels at
\* which frames end are apart.
Underway == {"props", "stateHeader", "stateAssign", "inputHeader", "inputSkip",
             "inputAssign", "initCheck", "initStates", "initEval", "initInputs",
             "simulate"}

\* The last frame was simulated: nothing is simulated any more.
Over == pc \in Final \cup {"claims"} \/ (pc = "witness" /\ counted)

\* While frames are simulated, the last simulated one is the one before k, and
\* next states wait for the transition only.  The witness that is followed has
\* been counted, so that after it no other one is.
Progress ==
    /\ k \in Nat
    /\ pc \in Labels
    /\ ~Over => time = k - 1
    /\ Over => time \in {k - 1, k}
    /\ ~Over /\ pc # "transition" => DOMAIN nxt = {}
    /\ pc = "transition" => DOMAIN nxt = StateIds(model)
    /\ mode = "check" /\ pc \in Underway \cup {"transition"} => counted
    /\ pc = "claims" => mode = "check" /\ counted
    /\ mode = "check" /\ counted /\ pc \in {"witness", "claims", "ok"} => time = k
    /\ pc = "model" => ~counted
    /\ counted \in BOOLEAN
    /\ stack # <<>> => pc \in Underway

Unchanging == <<model, mode, k, nxt, results>>

\* Reading, evaluating and initialising stay within a frame.
Within ==
    /\ UNCHANGED Unchanging
    /\ stack' # <<>> => pc' \in Underway
    /\ \/ /\ UNCHANGED counted
          /\ \/ pc' = pc
             \/ pc \in Underway /\ pc' \in Underway \cup {"error"} \cup Crashes
             \/ /\ pc = "model"
                /\ \/ pc' \in {"error"} \cup Crashes
                   \/ mode # "check" /\ pc' = "initStates"
                   \/ pc' = "witness"
             \/ /\ pc = "claims"
                /\ pc' \in {"witness", "error"}
                /\ pc' = "witness" => \A b \in claims : reached[b] >= 0
       \/ /\ pc = "witness"
          /\ counted' \in BOOLEAN
          /\ counted => counted' /\ pc' \in {"ok", "error", "witness"}
          /\ ~counted => \/ pc' = "error"
                         \/ pc' \in {"ok", "witness"} /\ ~counted'
                         \/ pc' \in Underway /\ counted'

\* Such a step leaves the frames as they are.
LEMMA WithinKeepsProgress == ASSUME Progress, Within PROVE Progress'
<1> USE DEF Progress, Within, Unchanging, results, Over, Underway, Final, Crashes,
            Labels, Reading
<1>1. k' \in Nat /\ pc' \in Labels /\ counted' \in BOOLEAN
  OBVIOUS
<1>2. (~Over => time = k - 1)' /\ (Over => time \in {k - 1, k})'
  OBVIOUS
<1>3. (~Over /\ pc # "transition" => DOMAIN nxt = {})'
  OBVIOUS
<1>4. (pc = "transition" => DOMAIN nxt = StateIds(model))'
  OBVIOUS
<1>5. /\ (mode = "check" /\ pc \in Underway \cup {"transition"} => counted)'
      /\ (pc = "claims" => mode = "check" /\ counted)'
      /\ (mode = "check" /\ counted /\ pc \in {"witness", "claims", "ok"} => time = k)'
      /\ (pc = "model" => ~counted)'
      /\ (stack # <<>> => pc \in Underway)'
  OBVIOUS
<1> QED
  BY <1>1, <1>2, <1>3, <1>4, <1>5

\* Every step but the end of a frame and the transition to the next is of this
\* kind.
LEMMA StepsWithin ==
    ASSUME Progress, [Next]_vars, ~FinishStep, ~Transition
    PROVE  Within
<1> USE DEF Unchanging, control, results, witness, Crashes, Goto, Call, Fail, At, Underway
<1>0. stack # <<>> => pc \in Underway
  BY DEF Progress
<1>1. CASE ParseModel
  BY <1>1 DEF ParseModel, Within
<1>2. CASE Simulate
  <2>1. CASE SimulateReturn \/ SimulateRecur \/ SimulateCompute
    BY <1>0, <2>1 DEF SimulateReturn, SimulateRecur, SimulateCompute, Within
  <2>2. CASE SimulateDie
    BY <1>0, <2>2 DEF SimulateDie, Within
  <2> QED
    BY <1>2, <2>1, <2>2 DEF Simulate
<1>3. CASE InitState
  BY <1>3 DEF InitState, Within
<1>4. CASE InitStateFromLine \/ StatesInitialized
  BY <1>4 DEF InitStateFromLine, StatesInitialized, Within
<1>5. CASE InitInputs
  BY <1>5 DEF InitInputs, Within
<1>6. CASE SimulateLine
  BY <1>6 DEF SimulateLine, Within
<1>7. CASE CheckInit
  BY <1>7 DEF CheckInit, Within
<1>8. CASE CheckClaims
  BY <1>8 DEF CheckClaims, Within
<1>9. ASSUME NEW t \in Token \cup {EOF}, ReadToken(t) PROVE Within
  <2>1. CASE ReadWitness(t)
    <3>1. CASE counted
      <4>1. pc' \in {"ok", "error", "witness"}
        BY <2>1, <3>1 DEF ReadWitness, HeaderLabel
      <4> QED
        BY <2>1, <3>1, <4>1 DEF ReadWitness, Within
    <3>2. CASE ~counted
      <4>1. counted' <=> t.kind \in {"sat", "unsat", "#"}
        BY <2>1, <3>2 DEF ReadWitness
      <4>2. \/ pc' = "error"
            \/ pc' \in {"ok", "witness"} /\ t.kind \notin {"sat", "unsat", "#"}
            \/ pc' \in {"props", "stateHeader"} /\ t.kind \in {"sat", "#"}
        BY <2>1, <3>2 DEF ReadWitness, HeaderLabel, EOF
      <4>3. counted' \in BOOLEAN
        BY <2>1 DEF ReadWitness, Progress
      <4>4. stack' = <<>> /\ UNCHANGED Unchanging /\ pc = "witness"
        BY <2>1 DEF ReadWitness
      <4> QED
        BY <3>2, <4>1, <4>2, <4>3, <4>4 DEF Within
    <3> QED
      BY <3>1, <3>2
  <2>2. CASE ReadClaim(t) \/ ReadStateHeader(t)
    BY <2>2 DEF ReadClaim, ReadStateHeader, Within
  <2>3. CASE ReadStateAssignment(t)
    BY <2>3 DEF ReadStateAssignment, Within
  <2>4. CASE ReadStateEnd(t) \/ ReadSkipped(t)
    BY <2>4 DEF ReadStateEnd, ReadSkipped, ReadNoAssignment, Within
  <2>5. CASE ReadInputHeader(t)
    BY <2>5 DEF ReadInputHeader, Within
  <2>6. CASE ReadInputAssignment(t)
    BY <2>6 DEF ReadInputAssignment, Within
  <2>7. CASE ReadInputEnd(t)
    BY <2>7 DEF ReadInputEnd, ReadNoAssignment, Within
  <2> QED
    BY <1>9, <2>1, <2>2, <2>3, <2>4, <2>5, <2>6, <2>7 DEF ReadToken
<1>10. CASE FileEnds \/ Terminated \/ UNCHANGED vars
  BY <1>0, <1>10 DEF FileEnds, Terminated, vars, Within
<1> QED
  BY <1>1, <1>2, <1>3, <1>4, <1>5, <1>6, <1>7, <1>8, <1>9, <1>10 DEF Next, Step

\* A combination has an element for every line asked for.
LEMMA CombinationsDomain ==
    ASSUME NEW V, NEW f \in Combinations(V) PROVE DOMAIN f = DOMAIN V
<1> DEFINE arrays == {i \in DOMAIN V : IsArray(model[i])}
<1>1. PICK a \in Selections(V, arrays), b \in Selections(V, DOMAIN V \ arrays) :
        f = [i \in DOMAIN V |-> IF i \in arrays THEN a[i] ELSE b[i]]
  BY DEF Combinations
<1> QED
  BY <1>1

\* simulate_step computes the next state of every state.
LEMMA NextStatesDomain == \A f \in NextStates : DOMAIN f = StateIds(model)
<1> TAKE f \in NextStates
<1> DEFINE V == [s \in StateIds(model) |->
                   IF HasNext(s) THEN {ArgValue(model, cur, model[s].next)}
                   ELSE FreshValues(model[s])]
<1>1. f \in Combinations(V)
  BY DEF NextStates
<1>2. DOMAIN V = StateIds(model)
  OBVIOUS
<1> HIDE DEF V
<1> QED
  BY <1>1, <1>2, CombinationsDomain

\* The end of a frame: the frame counted is the one simulated, and what is next
\* is either the transition or the end.
LEMMA FinishKeepsProgress == ASSUME Progress, FinishStep PROVE Progress'
<1> USE DEF Goto, control, results, witness, Over, Underway, Final, Crashes, Labels, Reading
<1>1. /\ UNCHANGED <<model, mode, counted>> /\ stack' = <<>>
      /\ pc = "simulate" /\ counted \in BOOLEAN
      /\ k \in Nat /\ time = k - 1 /\ DOMAIN nxt = {}
      /\ mode = "check" => counted
  BY DEF FinishStep, Progress
<1>2. CASE NegativeIndex
  <2>1. pc' = "crash_negated" /\ UNCHANGED <<k, nxt, results>>
    BY <1>2 DEF FinishStep
  <2> QED
    BY <1>1, <2>1 DEF Progress
<1>3. CASE ~NegativeIndex
  <2>1. /\ nxt' \in NextStates /\ time' = k
        /\ \/ pc' = "transition" /\ k' = k + 1
           \/ pc' = (IF mode = "check" THEN "claims" ELSE "ok") /\ k' = k
    BY <1>3 DEF FinishStep
  <2>2. DOMAIN nxt' = StateIds(model)
    BY <2>1, NextStatesDomain
  <2>3. StateIds(model)' = StateIds(model)
    BY <1>1 DEF StateIds, LinesOf
  <2>4. CASE pc' = "transition" /\ k' = k + 1
    BY <1>1, <2>1, <2>2, <2>3, <2>4 DEF Progress
  <2>5. CASE pc' = (IF mode = "check" THEN "claims" ELSE "ok") /\ k' = k
    BY <1>1, <2>1, <2>5 DEF Progress
  <2> QED
    BY <2>1, <2>4, <2>5
<1> QED
  BY <1>2, <1>3

\* The transition hands all next states over.
LEMMA TransitionKeepsProgress == ASSUME Progress, Transition PROVE Progress'
<1>1. /\ UNCHANGED <<model, mode, counted, k, time>> /\ stack' = <<>> /\ nxt' = NoValues
      /\ pc = "transition" /\ pc' \in {"stateHeader", "initInputs"}
  BY DEF Transition, Goto, control, results, witness
<1>2. DOMAIN NoValues = {}
  BY DEF NoValues
<1> QED
  BY <1>1, <1>2 DEF Progress, Over, Underway, Final, Crashes, Labels, Reading

\* Frames are simulated one after the other, and next states wait in between.
THEOREM ProgressInvariant == Spec => []Progress
<1>1. Init => Progress
  <2> SUFFICES ASSUME Init PROVE Progress
    OBVIOUS
  <2>1. /\ pc = "model" /\ k = 0 /\ time = -1 /\ counted = FALSE
        /\ nxt = NoValues /\ stack = <<>>
    BY DEF Init
  <2>2. DOMAIN NoValues = {}
    BY DEF NoValues
  <2>3. ~Over /\ pc \in Labels /\ pc \notin Underway
    BY <2>1 DEF Over, Underway, Final, Crashes, Labels, Reading
  <2>4. k \in Nat /\ time = k - 1
    BY <2>1
  <2>5. counted \in BOOLEAN
    BY <2>1, Zenon
  <2> QED
    BY <2>1, <2>2, <2>3, <2>4, <2>5, Zenon DEF Progress
<1>2. Progress /\ [Next]_vars => Progress'
  BY WithinKeepsProgress, StepsWithin, FinishKeepsProgress, TransitionKeepsProgress
<1> QED
  BY <1>1, <1>2, PTL DEF Spec

\* Spec => []NextStateHandover: next states are there when the transition takes
\* them over, and gone when the next frame is evaluated.
THEOREM Handover == Spec => []NextStateHandover
<1>1. Progress => NextStateHandover
  BY DEF Progress, NextStateHandover, Over, Final, Crashes
<1> QED
  BY <1>1, ProgressInvariant, PTL

----------------------------------------------------------------------------
(* Bad state properties and constraints.                                   *)

Counts == /\ model \in Models
          /\ reached \in [Bads -> Int]
          /\ ReachedExact

\* A model has finitely many bad state properties.
LEMMA FiniteBads == ASSUME model \in Models PROVE Bads \in SUBSET Nat /\ IsFiniteSet(Bads)
<1>1. Bads \in SUBSET DOMAIN model
  BY DEF Bads, LinesOf
<1> QED
  BY <1>1, ModelsAssumption, FS_Subset DEF Wired

\* Bads reached in a frame were pending, and the counter loses as many.
LEMMA FinishKeepsCounts == ASSUME Progress, Counts, FinishStep PROVE Counts'
<1>1. /\ model' = model /\ Bads' = Bads
      /\ k \in Nat /\ time = k - 1
  BY DEF FinishStep, Progress, control, Over, Final, Crashes, Bads, LinesOf
<1>2. CASE NegativeIndex
  <2>1. UNCHANGED results
    BY <1>2 DEF FinishStep
  <2> QED
    BY <1>1, <2>1 DEF results, Counts, ReachedExact
<1>3. CASE ~NegativeIndex
  <2> DEFINE v == ViolatedNow
             hit == HitBads(v)
  <2>1. /\ violated' = v /\ time' = k
        /\ reached' = [b \in Bads |-> IF b \in hit THEN k ELSE reached[b]]
        /\ unreached' = unreached - Cardinality(hit)
    BY <1>3 DEF FinishStep
  <2>2. /\ reached \in [Bads -> Int]
        /\ violated \in -1 .. time
        /\ \A b \in Bads : reached[b] \in -1 .. time /\ (violated >= 0 => reached[b] < violated)
        /\ unreached = Cardinality(Pending)
    BY DEF Counts, ReachedExact, Pending
  <2>3. \/ v = violated
        \/ v = k /\ violated < 0
    BY DEF ViolatedNow
  <2>4. /\ hit \in SUBSET Pending
        /\ v >= 0 => hit = {}
    BY <1>1, <2>2, <2>3 DEF HitBads
  <2> HIDE DEF v, hit
  <2>5. v \in -1 .. k
    BY <1>1, <2>2, <2>3
  <2>6. \A b \in Bads : reached'[b] = IF b \in hit THEN k ELSE reached[b]
    BY <2>1
  <2>7. \A b \in Bads : /\ reached'[b] \in -1 .. k
                        /\ v >= 0 => reached'[b] < v
    BY <1>1, <2>2, <2>3, <2>4, <2>6
  <2>8. unreached' = Cardinality({b \in Bads : reached'[b] < 0})
    <3>1. {b \in Bads : reached'[b] < 0} = Pending \ hit
      BY <1>1, <2>4, <2>6 DEF Pending
    <3>2. IsFiniteSet(Pending) /\ hit \cap Pending = hit
      BY <2>4, FiniteBads, FS_Subset DEF Pending, Counts
    <3>3. Cardinality(Pending \ hit) = Cardinality(Pending) - Cardinality(Pending \cap hit)
      BY <3>2, FS_Difference
    <3> QED
      BY <2>1, <2>2, <3>1, <3>2, <3>3
  <2>9. reached' \in [Bads -> Int]
    BY <1>1, <2>1, <2>2
  <2> QED
    BY <1>1, <2>1, <2>5, <2>7, <2>8, <2>9 DEF Counts, ReachedExact
<1> QED
  BY <1>2, <1>3

\* What is known of bads and constraints is consistent at any time.
THEOREM CountsInvariant == Spec => []Counts
<1>1. Init => Counts
  <2> SUFFICES ASSUME Init PROVE Counts
    OBVIOUS
  <2>1. /\ model \in Models /\ violated = -1 /\ time = -1
        /\ reached = [b \in Bads |-> -1] /\ unreached = Cardinality(Bads)
    BY DEF Init, Bads
  <2>2. {b \in Bads : reached[b] < 0} = Bads
    BY <2>1
  <2> QED
    BY <2>1, <2>2 DEF Counts, ReachedExact
<1>2. Progress /\ Counts /\ [Next]_vars => Counts'
  <2> SUFFICES ASSUME Progress, Counts, [Next]_vars PROVE Counts'
    OBVIOUS
  <2>1. CASE FinishStep
    BY <2>1, FinishKeepsCounts
  <2>2. CASE ~FinishStep
    <3>1. UNCHANGED <<model, results>>
      <4>1. CASE Transition
        BY <4>1 DEF Transition, control
      <4>2. CASE ~Transition
        BY <2>2, <4>2, StepsWithin DEF Within, Unchanging
      <4> QED
        BY <4>1, <4>2
    <3> QED
      BY <3>1 DEF results, Counts, ReachedExact, Bads, LinesOf
  <2> QED
    BY <2>1, <2>2
<1> QED
  BY <1>1, <1>2, ProgressInvariant, PTL DEF Spec

\* Spec => []ReachedExact: bads count up to the violation of a constraint, and the
\* counter of the others is right.
THEOREM Reaching == Spec => []ReachedExact
BY CountsInvariant, PTL DEF Counts

----------------------------------------------------------------------------
(* The values in a frame.                                                  *)

\* Labels at which simulate may be at work.
Evaluating == {"initEval", "initCheck", "simulate"}

\* What a frame has at each place: its states from the transition or once they
\* are initialised, inputs besides once they are read, and all leaves when lines
\* are evaluated.  Initialisation is for the first frame only.
Filled ==
    /\ model \in Models
    /\ stack # <<>> => pc \in Evaluating
    /\ pc \in {"model", "props", "initStates", "initEval", "initCheck"} => k = 0
    /\ pc = "witness" /\ ~counted => k = 0
    /\ pc = "initInputs" => StateIds(model) \subseteq DOMAIN cur
    /\ FrameComplete

\* The n-th line of a kind is one of it.
LEMMA NthOf ==
    ASSUME model \in Models, NEW S \in SUBSET DOMAIN model, NEW n \in Nat, n < Cardinality(S)
    PROVE  Nth(S, n) \in S
<1>1. S \in SUBSET Nat /\ IsFiniteSet(S)
  BY ModelsAssumption, FS_Subset DEF Wired
<1>2. \E i \in S : Cardinality({j \in S : j < i}) = n
  BY <1>1, RankExists DEF Below
<1> QED
  BY <1>2 DEF Nth

\* Leaves are the states and the inputs.
LEMMA LeavesOf == /\ Leaves(model) = StateIds(model) \cup InputIds(model)
                  /\ StateIds(model) \subseteq DOMAIN model
                  /\ InputIds(model) \subseteq DOMAIN model
BY DEF Leaves, StateIds, InputIds, LinesOf

\* Steps before the first frame, and those that evaluate and initialise.
LEMMA ComputingKeepsFilled ==
    ASSUME Progress, Filled,
           ParseModel \/ Simulate \/ InitState \/ InitStateFromLine
             \/ StatesInitialized \/ InitInputs \/ SimulateLine \/ CheckInit \/ CheckClaims
    PROVE  Filled'
<1> USE DEF Filled, FrameComplete, Goto, Fail, Call, control, results, witness, Crashes,
            Evaluating
<1>1. CASE ParseModel
  BY <1>1 DEF ParseModel
<1>2. CASE Simulate
  BY <1>2 DEF Simulate, SimulateReturn, SimulateRecur, SimulateCompute, SimulateDie, With
<1>3. CASE InitState \/ InitStateFromLine
  BY <1>3 DEF InitState, InitStateFromLine
<1>4. CASE StatesInitialized
  BY <1>4 DEF StatesInitialized, Unset
<1>5. CASE InitInputs
  <2>1. CASE pc' = "simulate"
    <3>1. /\ DOMAIN cur' = DOMAIN cur \cup Unset(InputIds(model))
          /\ UNCHANGED <<model, k>> /\ stack' = <<>> /\ pc = "initInputs"
      BY <1>5, <2>1 DEF InitInputs
    <3>2. Leaves(model') \subseteq DOMAIN cur'
      BY <3>1, LeavesOf DEF Unset
    <3> QED
      BY <2>1, <3>1, <3>2
  <2>2. CASE pc' # "simulate"
    BY <1>5, <2>2 DEF InitInputs
  <2> QED
    BY <2>1, <2>2
<1>6. CASE SimulateLine
  BY <1>6 DEF SimulateLine
<1>7. CASE CheckInit
  BY <1>7 DEF CheckInit, At, With
<1>8. CASE CheckClaims
  BY <1>8 DEF CheckClaims, At, Progress
<1> QED
  BY <1>1, <1>2, <1>3, <1>4, <1>5, <1>6, <1>7, <1>8

\* The end of a frame and the transition.
LEMMA FramesKeepFilled ==
    ASSUME Progress, Filled, FinishStep \/ Transition PROVE Filled'
<1> USE DEF Filled, FrameComplete, Goto, control, results, witness, Evaluating
<1>1. CASE FinishStep
  <2>1. /\ UNCHANGED <<model, cur>> /\ stack' = <<>>
        /\ pc' \in {"crash_negated", "claims", "ok", "transition"}
    BY <1>1 DEF FinishStep
  <2> QED
    BY <2>1
<1>2. CASE Transition
  <2>1. /\ UNCHANGED <<model, k>> /\ stack' = <<>>
        /\ pc' \in {"stateHeader", "initInputs"}
        /\ DOMAIN cur' = StateIds(model)
    BY <1>2 DEF Transition
  <2> QED
    BY <2>1, LeavesOf
<1> QED
  BY <1>1, <1>2

\* Reading assigns to states in the state part and to inputs in the input part.
LEMMA ReadingKeepsFilled ==
    ASSUME Progress, Filled, NEW t \in Token \cup {EOF}, ReadToken(t)
    PROVE  Filled'
<1> USE DEF Filled, FrameComplete, Goto, Fail, Call, control, results, witness, At, Crashes,
            Evaluating
<1>1. CASE ReadWitness(t)
  <2>1. /\ UNCHANGED <<model, cur, k>> /\ stack' = <<>> /\ pc = "witness"
        /\ pc' \in {"error", "witness", "props", "stateHeader", "ok"}
    BY <1>1 DEF ReadWitness, HeaderLabel
  <2>2. /\ pc' \in {"props", "stateHeader"} => ~counted
        /\ ~counted' => ~counted
    BY <1>1 DEF ReadWitness, HeaderLabel
  <2> QED
    BY <2>1, <2>2
<1>2. CASE ReadClaim(t) \/ ReadStateHeader(t)
  BY <1>2 DEF ReadClaim, ReadStateHeader
<1>3. CASE ReadStateAssignment(t)
  <2> DEFINE s == Nth(StateIds(model), t.n)
  <2>1. /\ UNCHANGED <<model, k>> /\ pc = "stateAssign" /\ k \in Nat
        /\ pc' \in {"error", "initCheck", "stateAssign"}
        /\ stack' # <<>> => pc' = "initCheck"
        /\ pc' = "initCheck" => k = 0
    BY <1>3 DEF ReadStateAssignment, NeedsInitCheck, Progress
  <2>2. CASE pc' = "stateAssign"
    <3>1. cur' = With(cur, s, Assigned(t, s))
      BY <1>3, <2>2 DEF ReadStateAssignment, NeedsInitCheck
    <3>2. t.n \in Nat
      BY <1>3, TokenAssumption DEF ReadStateAssignment, EOF
    <3>3. s \in StateIds(model)
      <4>1. Cardinality(StateIds(model)) \in Nat
        BY LeavesOf, ModelsAssumption, FS_Subset, FS_CardinalityType
      <4>2. ~(t.n >= Cardinality(StateIds(model)))
        BY <1>3, <2>2 DEF ReadStateAssignment
      <4> QED
        BY <3>2, <4>1, <4>2, NthOf, LeavesOf
    <3>4. DOMAIN cur' = DOMAIN cur \cup {s}
      BY <3>1 DEF With
    <3> QED
      BY <2>1, <2>2, <3>3, <3>4
  <2>3. CASE pc' # "stateAssign"
    BY <2>1, <2>3
  <2> QED
    BY <2>2, <2>3
<1>4. CASE ReadStateEnd(t) \/ ReadSkipped(t)
  BY <1>4, LeavesOf DEF ReadStateEnd, ReadSkipped, ReadNoAssignment
<1>5. CASE ReadInputHeader(t)
  BY <1>5, LeavesOf DEF ReadInputHeader
<1>6. CASE ReadInputAssignment(t)
  <2> DEFINE i == Nth(InputIds(model), t.n)
  <2>1. /\ UNCHANGED <<model, k>> /\ pc = "inputAssign" /\ stack' = <<>>
        /\ pc' \in {"error", "crash_slot", "crash_array_input", "inputAssign"}
    BY <1>6 DEF ReadInputAssignment
  <2>2. CASE pc' = "inputAssign"
    <3>1. cur' = With(cur, i, t.val)
      BY <1>6, <2>2 DEF ReadInputAssignment
    <3>2. t.n \in Nat
      BY <1>6, TokenAssumption DEF ReadInputAssignment, EOF
    <3>3. i \in InputIds(model)
      <4>1. Cardinality(InputIds(model)) \in Nat
        BY LeavesOf, ModelsAssumption, FS_Subset, FS_CardinalityType
      <4>2. ~(t.n >= Cardinality(InputIds(model)))
        BY <1>6, <2>2 DEF ReadInputAssignment
      <4> QED
        BY <3>2, <4>1, <4>2, NthOf, LeavesOf
    <3>4. DOMAIN cur' = DOMAIN cur \cup {i}
      BY <3>1 DEF With
    <3> QED
      BY <2>1, <2>2, <3>3, <3>4, LeavesOf
  <2>3. CASE pc' # "inputAssign"
    BY <2>1, <2>3
  <2> QED
    BY <2>2, <2>3
<1>7. CASE ReadInputEnd(t)
  BY <1>7 DEF ReadInputEnd, ReadNoAssignment, Progress
<1> QED
  BY <1>1, <1>2, <1>3, <1>4, <1>5, <1>6, <1>7 DEF ReadToken

\* All frames are filled as they should be.
THEOREM FilledInvariant == Spec => []Filled
<1>1. Init => Filled
  BY DEF Init, Filled, FrameComplete
<1>2. Progress /\ Filled /\ [Next]_vars => Filled'
  <2> SUFFICES ASSUME Progress, Filled, [Next]_vars PROVE Filled'
    OBVIOUS
  <2>1. CASE FileEnds \/ Terminated \/ UNCHANGED vars
    BY <2>1 DEF FileEnds, Terminated, vars, control, results, witness, Filled, FrameComplete
  <2>2. CASE Step
    BY <2>2, ComputingKeepsFilled, FramesKeepFilled, ReadingKeepsFilled DEF Step
  <2> QED
    BY <2>1, <2>2 DEF Next
<1> QED
  BY <1>1, <1>2, ProgressInvariant, PTL DEF Spec

\* Spec => []FrameComplete: whatever the witness says, all states and inputs have
\* a value when the lines of a frame are evaluated, and the parts of a later frame
\* are read into the states handed over.
THEOREM Completeness == Spec => []FrameComplete
BY FilledInvariant, PTL DEF Filled

----------------------------------------------------------------------------
(* Claims of a witness.                                                    *)

\* Whenever the checker looks for a witness, or is content, it has nothing
\* claimed that was not reached.
Claimed ==
    /\ claims \subseteq Bads
    /\ pc = "model" => claims = {}
    /\ mode = "check" /\ pc \in {"witness", "ok"} => \A b \in claims : reached[b] >= 0

\* The n-th bad state property is one.
LEMMA NthBad ==
    ASSUME model \in Models, NEW n \in Nat, n < Cardinality(Bads)
    PROVE  Nth(Bads, n) \in Bads
<1>1. \E i \in Bads : Cardinality({j \in Bads : j < i}) = n
  BY FiniteBads, RankExists DEF Below
<1> QED
  BY <1>1 DEF Nth

\* The only step that claims anything.
Claiming ==
    /\ pc = "props" /\ pc' \in {"props", "stateHeader", "error"}
    /\ \E n \in Nat : n < Cardinality(Bads) /\ claims' = claims \cup {Nth(Bads, n)}

\* Claims are read in the header of a witness, and never dropped.
LEMMA ClaimsGrow == ASSUME [Next]_vars PROVE UNCHANGED claims \/ Claiming
<1> USE DEF witness
<1>1. CASE ParseModel \/ Simulate \/ InitState \/ InitStateFromLine \/ StatesInitialized
  BY <1>1 DEF ParseModel, Simulate, SimulateReturn, SimulateRecur, SimulateCompute,
              SimulateDie, InitState, InitStateFromLine, StatesInitialized
<1>2. CASE InitInputs \/ SimulateLine \/ FinishStep \/ Transition
  BY <1>2 DEF InitInputs, SimulateLine, FinishStep, Transition
<1>3. CASE CheckInit \/ CheckClaims \/ FileEnds \/ Terminated \/ UNCHANGED vars
  BY <1>3 DEF CheckInit, CheckClaims, FileEnds, Terminated, vars
<1>4. ASSUME NEW t \in Token \cup {EOF}, ReadToken(t) PROVE UNCHANGED claims \/ Claiming
  <2>1. CASE ReadClaim(t)
    <3>1. CASE t.kind = "claim" /\ t.n < Cardinality(Bads)
      <4>1. t.n \in Nat
        BY <3>1, TokenAssumption DEF EOF
      <4>2. /\ pc = "props" /\ pc' = "props"
            /\ claims' = claims \cup {Nth(Bads, t.n)}
        BY <2>1, <3>1 DEF ReadClaim, At, Goto
      <4> QED
        BY <3>1, <4>1, <4>2 DEF Claiming
    <3> QED
      BY <2>1, <3>1 DEF ReadClaim
  <2>2. CASE ~ReadClaim(t)
    BY <1>4, <2>2 DEF ReadToken, ReadWitness, ReadStateHeader, ReadStateAssignment,
         ReadStateEnd, ReadInputHeader, ReadSkipped, ReadInputAssignment, ReadInputEnd
  <2> QED
    BY <2>1, <2>2
<1> QED
  BY <1>1, <1>2, <1>3, <1>4 DEF Next, Step

\* A step to the search for a witness, or to the end, comes from a check of the
\* claims or from a witness that claims nothing more.
LEMMA NextKeepsClaimed ==
    ASSUME Progress, Counts, Claimed, [Next]_vars PROVE Claimed'
<1>1. UNCHANGED <<model, mode>>
  <2>1. CASE FinishStep \/ Transition
    BY <2>1 DEF FinishStep, Transition, control
  <2> QED
    BY <2>1, StepsWithin DEF Within, Unchanging
<1>2. Bads' = Bads
  BY <1>1 DEF Bads, LinesOf
<1>3. (claims \subseteq Bads)'
  <2>1. CASE Claiming
    BY <1>2, <2>1, NthBad DEF Claiming, Claimed, Counts
  <2> QED
    BY <1>2, <2>1, ClaimsGrow DEF Claimed
<1>4. CASE FinishStep \/ Transition
  <2>1. /\ UNCHANGED claims
        /\ pc' # "model"
        /\ mode = "check" => pc' \notin {"witness", "ok"}
    BY <1>4 DEF FinishStep, Transition, witness, Goto
  <2> QED
    BY <1>1, <1>3, <2>1 DEF Claimed
<1>5. CASE ~FinishStep /\ ~Transition
  <2>1. Within
    BY <1>5, StepsWithin
  <2>2. reached' = reached
    BY <2>1 DEF Within, Unchanging, results
  <2>3. CASE Claiming
    BY <1>3, <2>3 DEF Claiming, Claimed
  <2>4. CASE UNCHANGED claims
    <3>1. (pc = "model" => claims = {})'
      BY <2>1, <2>4 DEF Within, Claimed, Underway, Crashes
    <3>2. ASSUME mode' = "check", pc' \in {"witness", "ok"}
          PROVE  \A b \in claims : reached[b] >= 0
      <4>1. \/ pc = pc'
            \/ pc \in {"model", "witness"}
            \/ \A b \in claims : reached[b] >= 0
        BY <2>1, <3>2 DEF Within, Underway, Crashes
      <4> QED
        BY <1>1, <3>2, <4>1 DEF Claimed
    <3> QED
      BY <1>3, <2>2, <2>4, <3>1, <3>2 DEF Claimed
  <2> QED
    BY <2>3, <2>4, ClaimsGrow
<1> QED
  BY <1>4, <1>5

\* Spec => []AcceptedIsWitnessed: if the checker exits with status 0, what was
\* claimed was reached in frames it simulated.
THEOREM Acceptance == Spec => []AcceptedIsWitnessed
<1>1. Init => Claimed
  BY DEF Init, Claimed
<1>2. Progress /\ Counts /\ Claimed /\ [Next]_vars => Claimed'
  BY NextKeepsClaimed
<1>3. Progress /\ Counts /\ Claimed => AcceptedIsWitnessed
  <2> SUFFICES ASSUME Progress, Counts, Claimed, pc = "ok", mode = "check"
               PROVE  /\ counted => time >= 0
                      /\ \A b \in claims : reached[b] \in 0 .. time
    BY DEF AcceptedIsWitnessed
  <2>1. counted => time >= 0
    BY DEF Progress
  <2>2. \A b \in claims : b \in Bads /\ reached[b] >= 0 /\ reached[b] \in -1 .. time
    BY DEF Claimed, Counts, ReachedExact
  <2> QED
    BY <2>1, <2>2
<1> QED
  BY <1>1, <1>2, <1>3, ProgressInvariant, CountsInvariant, PTL DEF Spec

----------------------------------------------------------------------------
(* Where values and calls are.                                             *)

\* The state whose assignment is compared with its initial value.
Checked == Nth(StateIds(model), pending.n)

\* The operators that have a value, and the lines simulate has been called with.
CachedOperators == DOMAIN cur \cap Operators(model)
Called == Range(stack)

\* No frame has been read or initialised yet.
BeforeFrames == \/ pc \in {"model", "props"}
                \/ pc = "witness" /\ ~counted
                \/ pc = "stateHeader" /\ k = 0

\* Values and calls are of lines that have a value, and there are none before the
\* first frame.
Placed ==
    /\ mode = "random" => pc \notin Reading \cup {"initCheck", "claims"}
    /\ BeforeFrames => DOMAIN cur = {}
    /\ DOMAIN cur \subseteq ValueLines(model)
    /\ stack \in Seq(ValueLines(model))
    /\ pc \in {"stateAssign", "initCheck"} => peek = NoToken
    /\ pc = "initEval" => Unset(StateIds(model)) # {}
    /\ pc = "transition" => k > 0
    /\ pc = "initCheck" => /\ Checked \in StateIds(model)
                           /\ HasInit(Checked)


\* What a call and a return do to the lines called.
LEMMA CalledOne == Range(<<>>) = {} /\ \A m : Range(<<m>>) = {m}
BY DEF Range

LEMMA CalledAfter ==
    ASSUME NEW V, NEW q \in Seq(V)
    PROVE  /\ \A m : Range(<<m>> \o q) = Range(q) \cup {m}
           /\ q # <<>> => Range(q) = Range(Tail(q)) \cup {Head(q)}
<1>1. ASSUME NEW m, NEW r \in Seq(V) PROVE Range(<<m>> \o r) = Range(r) \cup {m}
  <2> DEFINE W == V \cup {m}
             p == <<m>>
  <2>1. p \in Seq(W) /\ r \in Seq(W)
    OBVIOUS
  <2>2. Range(p \o r) = Range(p) \cup Range(r)
    <3> HIDE DEF p, W
    <3> QED
      BY <2>1, RangeConcatenation
  <2> QED
    BY CalledOne, <2>2
<1>2. q # <<>> => Tail(q) \in Seq(V) /\ q = <<Head(q)>> \o Tail(q)
  OBVIOUS
<1> QED
  BY <1>1, <1>2

\* A model of BtorSim is wired up and finite.
LEMMA ModelWired ==
    ASSUME model \in Models
    PROVE  /\ Wired(model) /\ DOMAIN model \subseteq Nat \ {0} /\ IsFiniteSet(DOMAIN model)
           /\ ArgumentLines(model) = ValueLines(model)
           /\ ValueLines(model) \subseteq DOMAIN model
           /\ StateIds(model) \subseteq ValueLines(model)
           /\ InputIds(model) \subseteq ValueLines(model)
           /\ Leaves(model) = StateIds(model) \cup InputIds(model)
           /\ Operators(model) = ValueLines(model) \ Leaves(model)
BY ModelsAssumption DEF Wired, ArgumentLines, ValueLines, StateIds, InputIds, LinesOf,
   NonArguments, Leaves, Operators

\* Arguments are earlier lines with a value.
LEMMA ArgumentsOf ==
    ASSUME model \in Models, NEW i \in DOMAIN model, NEW n \in DOMAIN model[i].args
    PROVE  /\ model[i].args[n] \in Int
           /\ Abs(model[i].args[n]) \in ValueLines(model)
           /\ Abs(model[i].args[n]) < i
<1>1. model[i].args \in Seq(Int)
  BY ModelWired DEF Wired, Line
<1> QED
  BY <1>1, ModelWired DEF Wired

\* So are the values of links, wherever the link is.
LEMMA LinksOfLine ==
    ASSUME model \in Models, NEW i \in DOMAIN model
    PROVE  /\ model[i].init # 0 =>
                \E S \in SUBSET {j \in ValueLines(model) : model[j].tag # "input" /\ j <= i} :
                   HoldsCone(model, Abs(model[i].init), S)
           /\ model[i].init # 0 => /\ Abs(model[i].init) \in ValueLines(model)
                                   /\ Abs(model[i].init) <= i
           /\ model[i].next # 0 =>
                /\ Abs(model[i].next) \in ValueLines(model)
                /\ \E j \in DOMAIN model : Abs(model[i].next) < j
<1>1. model[i].init # 0 =>
        \E S \in SUBSET {j \in ValueLines(model) : model[j].tag # "input" /\ j <= i} :
           HoldsCone(model, Abs(model[i].init), S)
  BY ModelWired DEF Wired
<1>2. ASSUME model[i].next # 0
      PROVE  /\ Abs(model[i].next) \in ValueLines(model)
             /\ \E j \in DOMAIN model : Abs(model[i].next) < j
  <2>1. PICK j \in DOMAIN model : model[j].tag = "next" /\ model[j].args[2] = model[i].next
    BY <1>2, ModelWired DEF Wired
  <2>2. 2 \in DOMAIN model[j].args
    <3>1. model[j].args \in Seq(Int) /\ Len(model[j].args) = 2
      BY <2>1, ArityOf, ModelWired DEF Wired, Line, BinaryTags, Links
    <3> QED
      BY <3>1
  <2> QED
    BY <2>1, <2>2, ArgumentsOf
<1> QED
  BY <1>1, <1>2 DEF HoldsCone

\* simulate recurs into an earlier line that has no value.
LEMMA MissingArgOf ==
    ASSUME model \in Models, NEW i \in DOMAIN model, ~ArgsSet(model, cur, i)
    PROVE  /\ MissingArg(i) \in ValueLines(model) \ DOMAIN cur
           /\ MissingArg(i) < i
           /\ \E n \in DOMAIN model[i].args : MissingArg(i) = Abs(model[i].args[n])
<1> DEFINE args == model[i].args
           missing == {n \in DOMAIN args : Abs(args[n]) \notin DOMAIN cur}
<1>1. missing \in SUBSET Nat /\ missing # {}
  <2>1. args \in Seq(Int)
    BY ModelWired DEF Wired, Line
  <2> QED
    BY <2>1 DEF ArgsSet
<1>2. Least(missing) \in missing
  <2> HIDE DEF missing
  <2> QED
    BY <1>1, LeastNumber DEF Least
<1>3. MissingArg(i) = Abs(args[Least(missing)])
  BY DEF MissingArg
<1> QED
  BY <1>2, <1>3, ArgumentsOf

\* initialize_states takes the states in their order.
LEMMA FirstUnsetOf ==
    ASSUME model \in Models, Unset(StateIds(model)) # {}
    PROVE  /\ FirstUnset \in StateIds(model) \ DOMAIN cur
           /\ \A s \in StateIds(model) \ DOMAIN cur : FirstUnset <= s
<1>1. Unset(StateIds(model)) \in SUBSET Nat
  BY ModelWired DEF Unset
<1> QED
  BY <1>1, LeastNumber DEF FirstUnset, Least, Unset

\* simulate_step takes the lines in their order.
LEMMA LeastToSimulate ==
    ASSUME model \in Models, ToSimulate # {}
    PROVE  Least(ToSimulate) \in ToSimulate
<1>1. ToSimulate \in SUBSET Nat
  BY ModelWired DEF ToSimulate, Unset
<1> QED
  BY <1>1, LeastNumber DEF Least

\* The line an assignment of a witness is for.
LEMMA AssignedLine ==
    ASSUME model \in Models, NEW S \in SUBSET DOMAIN model,
           NEW t \in Token \cup {EOF}, t.kind = "assign", ~(t.n >= Cardinality(S))
    PROVE  t.n \in Nat /\ t.n < Cardinality(S) /\ Nth(S, t.n) \in S
<1>1. t.n \in Nat
  BY TokenAssumption DEF EOF
<1>2. Cardinality(S) \in Nat
  BY ModelWired, FS_Subset, FS_CardinalityType
<1> QED
  BY <1>1, <1>2, NthOf

\* Evaluating lines and filling the first frame.
LEMMA ComputingKeepsPlaced ==
    ASSUME Progress, Filled, Placed,
           ParseModel \/ Simulate \/ InitState \/ InitStateFromLine
             \/ StatesInitialized \/ InitInputs \/ SimulateLine \/ CheckInit \/ CheckClaims
    PROVE  Placed'
<1> USE DEF Goto, Fail, Call, control, results, witness
<1>0. /\ model \in Models
      /\ stack # <<>> => pc \in Evaluating
  BY DEF Filled
<1>1. CASE ParseModel
  BY <1>0, <1>1 DEF ParseModel, Placed, BeforeFrames, Reading
<1>2. CASE Simulate
  <2> USE DEF Simulate, SimulateReturn, SimulateRecur, SimulateCompute, SimulateDie
  <2>1. UNCHANGED <<model, mode, k, peek, pending, counted>>
    BY <1>2
  <2>2. pc \in Evaluating /\ ~BeforeFrames
    BY <1>0, <1>2 DEF Evaluating, BeforeFrames
  <2>3. stack' \in Seq(ValueLines(model))
    <3>1. CASE SimulateRecur
      <4>1. Head(stack) \in ValueLines(model)
        BY <3>1 DEF Placed
      <4>2. MissingArg(Head(stack)) \in ValueLines(model)
        BY <1>0, <3>1, <4>1, MissingArgOf, ModelWired
      <4>3. stack' = <<MissingArg(Head(stack))>> \o stack
        BY <3>1
      <4> QED
        BY <4>2, <4>3 DEF Placed
    <3>2. CASE stack' = Tail(stack) /\ stack # <<>>
      BY <3>2 DEF Placed
    <3>3. CASE stack' = <<>>
      BY <3>3
    <3> QED
      BY <1>2, <3>1, <3>2, <3>3
  <2>4. /\ pc' \in {pc, "error"}
        /\ DOMAIN cur' \ DOMAIN cur \subseteq Operators(model)
        /\ DOMAIN cur \subseteq DOMAIN cur'
    BY <1>2 DEF With
  <2>5. Operators(model) \subseteq ValueLines(model) \ StateIds(model)
    BY <1>0, ModelWired
  <2> QED
    BY <2>1, <2>2, <2>3, <2>4, <2>5
    DEF Placed, BeforeFrames, Evaluating, Reading, Unset, Checked, HasInit
<1>3. CASE InitState
  <2>1. /\ FirstUnset \in StateIds(model) \ DOMAIN cur
        /\ StateIds(model) \subseteq ValueLines(model) /\ ValueLines(model) \subseteq DOMAIN model
    BY <1>0, <1>3, FirstUnsetOf, ModelWired DEF InitState
  <2>2. HasInit(FirstUnset) => Abs(model[FirstUnset].init) \in ValueLines(model)
    BY <1>0, <2>1, LinksOfLine DEF HasInit
  <2>3. CASE HasInit(FirstUnset)
    <3>1. /\ pc' = "initEval" /\ stack' = <<Abs(model[FirstUnset].init)>>
          /\ UNCHANGED <<model, mode, k, cur, peek, pending, counted>>
      BY <1>3, <2>3 DEF InitState
    <3> QED
      BY <1>3, <2>2, <2>3, <3>1 DEF InitState, Placed, BeforeFrames, Reading, Unset
  <2>4. CASE ~HasInit(FirstUnset)
    <3>1. /\ DOMAIN cur' = DOMAIN cur \cup {FirstUnset}
          /\ UNCHANGED <<model, mode, pc, k, stack, peek, pending, counted>>
      BY <1>3, <2>4 DEF InitState, With
    <3> QED
      BY <1>3, <2>1, <3>1 DEF InitState, Placed, BeforeFrames, Reading
  <2> QED
    BY <2>3, <2>4
<1>4. CASE InitStateFromLine
  <2>1. /\ FirstUnset \in StateIds(model) \ DOMAIN cur
        /\ StateIds(model) \subseteq ValueLines(model)
    BY <1>0, <1>4, FirstUnsetOf, ModelWired DEF InitStateFromLine, Placed
  <2> QED
    BY <1>4, <2>1 DEF InitStateFromLine, Placed, BeforeFrames, Reading, With
<1>5. CASE StatesInitialized
  BY <1>5 DEF StatesInitialized, Placed, BeforeFrames, Reading
<1>6. CASE InitInputs
  <2>1. /\ DOMAIN cur' \subseteq DOMAIN cur \cup InputIds(model)
        /\ UNCHANGED <<model, mode, k, peek, pending, counted>>
        /\ stack' = <<>> /\ pc' \in {"crash_slot", "simulate"}
    BY <1>6 DEF InitInputs, Unset
  <2> QED
    BY <1>0, <2>1, ModelWired DEF Placed, BeforeFrames, Reading
<1>7. CASE SimulateLine
  <2>1. Least(ToSimulate) \in ValueLines(model) /\ Least(ToSimulate) \in Nat
    BY <1>0, <1>7, LeastToSimulate, ModelWired DEF SimulateLine, ToSimulate, Unset
  <2>2. Abs(Least(ToSimulate)) = Least(ToSimulate)
    BY <2>1 DEF Abs
  <2> QED
    BY <1>7, <2>1, <2>2 DEF SimulateLine, Placed, BeforeFrames, Reading
<1>8. CASE CheckInit
  <2>1. Checked \in ValueLines(model) /\ mode # "random"
    BY <1>0, <1>8, ModelWired DEF CheckInit, At, Placed
  <2> QED
    BY <1>8, <2>1 DEF CheckInit, Placed, BeforeFrames, Reading, With, At, Checked
<1>9. CASE CheckClaims
  <2>1. mode # "random" /\ counted
    BY <1>9 DEF CheckClaims, At, Placed, Progress
  <2> QED
    BY <1>9, <2>1 DEF CheckClaims, Placed, BeforeFrames, Reading, At
<1> QED
  BY <1>1, <1>2, <1>3, <1>4, <1>5, <1>6, <1>7, <1>8, <1>9

\* The end of a frame and the transition.
LEMMA FramesKeepPlaced ==
    ASSUME Progress, Filled, Placed, FinishStep \/ Transition PROVE Placed'
<1> USE DEF Goto, control, results, witness
<1>0. model \in Models /\ StateIds(model) \subseteq ValueLines(model)
  BY ModelWired DEF Filled
<1>1. CASE FinishStep
  <2>1. /\ UNCHANGED <<model, mode, cur>> /\ stack' = <<>>
        /\ pc' \in {"crash_negated", "claims", "ok", "transition"}
        /\ pc' = "claims" => mode = "check"
        /\ pc' = "transition" => k' > 0
    BY <1>1 DEF FinishStep, Progress
  <2> QED
    BY <2>1 DEF Placed, BeforeFrames, Reading
<1>2. CASE Transition
  <2>1. /\ UNCHANGED <<model, mode, k>> /\ stack' = <<>>
        /\ pc' \in {"stateHeader", "initInputs"}
        /\ pc' = "stateHeader" => mode = "check"
        /\ DOMAIN cur' = StateIds(model)
    BY <1>2 DEF Transition
  <2>2. k # 0
    BY <1>2 DEF Transition, Placed
  <2> QED
    BY <1>0, <2>1, <2>2 DEF Placed, BeforeFrames, Reading
<1> QED
  BY <1>1, <1>2

\* Reading is for the checker and within a frame, and assignments to states are
\* offered in order.
LEMMA ReadingOf ==
    ASSUME Filled, Placed, NEW t \in Token \cup {EOF}, ReadToken(t)
    PROVE  /\ mode # "random" /\ stack = <<>>
           /\ UNCHANGED <<model, mode, k, nxt, results>>
           /\ pc = "stateAssign" /\ Orderly => Follows(t)
<1>1. mode # "random"
  BY DEF Placed, Reading, ReadToken, ReadWitness, ReadClaim, ReadStateHeader, ReadStateAssignment,
     ReadStateEnd, ReadInputHeader, ReadSkipped, ReadInputAssignment, ReadInputEnd, At
<1>2. stack = <<>> /\ UNCHANGED <<model, mode, k, nxt, results>>
  BY DEF ReadToken, ReadWitness, ReadClaim, ReadStateHeader, ReadStateAssignment,
     ReadStateEnd, ReadInputHeader, ReadSkipped, ReadInputAssignment, ReadInputEnd, At, control
<1>3. pc = "stateAssign" /\ Orderly => Follows(t)
  <2>1. peek = NoToken /\ eof => t = EOF
    BY DEF ReadToken, NextToken
  <2>2. CASE t = EOF
    BY <2>2 DEF Follows, EOF
  <2> QED
    BY <2>1, <2>2 DEF ReadToken, NextToken, Offered, Placed
<1> QED
  BY <1>1, <1>2, <1>3

\* Reading the parts of a frame.
LEMMA ReadingKeepsPlaced ==
    ASSUME Progress, Filled, Placed, NEW t \in Token \cup {EOF}, ReadToken(t)
    PROVE  Placed'
<1> USE DEF Goto, Fail, Call, At
<1>0. /\ model \in Models /\ mode # "random"
      /\ UNCHANGED <<model, mode, k>>
      /\ StateIds(model) \subseteq ValueLines(model)
      /\ InputIds(model) \subseteq ValueLines(model)
      /\ ValueLines(model) \subseteq DOMAIN model
  BY ReadingOf, ModelWired DEF Filled
<1>1. CASE ReadWitness(t)
  <2>1. /\ UNCHANGED cur /\ stack' = <<>> /\ pc = "witness"
        /\ pc' \in {"error", "witness", "props", "stateHeader", "ok"}
    BY <1>1 DEF ReadWitness, HeaderLabel
  <2>2. /\ pc' \in {"props", "stateHeader"} => ~counted
        /\ ~counted' => ~counted
    BY <1>1 DEF ReadWitness, HeaderLabel
  <2> QED
    BY <1>0, <2>1, <2>2 DEF Placed, BeforeFrames
<1>2. CASE ReadClaim(t)
  BY <1>0, <1>2 DEF ReadClaim, Placed, BeforeFrames
<1>3. CASE ReadStateHeader(t)
  <2>1. pc' = "stateAssign" => peek' = NoToken
    BY <1>3 DEF ReadStateHeader, Consume
  <2> QED
    BY <1>0, <1>3, <2>1 DEF ReadStateHeader, Placed, BeforeFrames
<1>4. CASE ReadStateAssignment(t)
  <2> DEFINE s == Nth(StateIds(model), t.n)
  <2>0. peek' = NoToken /\ pc = "stateAssign" /\ t.kind = "assign"
    BY <1>4 DEF ReadStateAssignment, Consume
  <2>1. CASE t.n >= Cardinality(StateIds(model))
    BY <1>0, <1>4, <2>1 DEF ReadStateAssignment, Placed, BeforeFrames
  <2>2. CASE ~(t.n >= Cardinality(StateIds(model)))
    <3>1. s \in StateIds(model)
      BY <1>0, <2>0, <2>2, AssignedLine
    <3>2. pc' \in {"error", "initCheck", "stateAssign"}
      BY <1>4 DEF ReadStateAssignment
    <3>3. DOMAIN cur' \subseteq DOMAIN cur \cup {s}
      BY <1>4 DEF ReadStateAssignment, With
    <3>4. CASE pc' = "initCheck"
      <4>1. /\ pending' = t /\ HasInit(s) /\ stack' = <<Abs(model[s].init)>>
        BY <1>4, <2>2, <3>4 DEF ReadStateAssignment, NeedsInitCheck
      <4>2. Abs(model[s].init) \in ValueLines(model)
        BY <1>0, <3>1, <4>1, LinksOfLine DEF HasInit
      <4>3. Checked' = s
        BY <1>0, <4>1 DEF Checked
      <4>4. stack' \in Seq(ValueLines(model))
        BY <4>1, <4>2
      <4> HIDE DEF s
      <4> QED
        BY <1>0, <2>0, <3>1, <3>3, <3>4, <4>1, <4>3, <4>4 DEF Placed, BeforeFrames, HasInit
    <3>5. CASE pc' # "initCheck"
      <4>1. stack' = <<>>
        BY <1>4, <3>5 DEF ReadStateAssignment
      <4> HIDE DEF s
      <4> QED
        BY <1>0, <2>0, <3>1, <3>2, <3>3, <3>5, <4>1 DEF Placed, BeforeFrames
    <3> QED
      BY <3>4, <3>5
  <2> QED
    BY <2>1, <2>2
<1>5. CASE ReadStateEnd(t) \/ ReadSkipped(t) \/ ReadInputHeader(t)
  BY <1>0, <1>5 DEF ReadStateEnd, ReadSkipped, ReadInputHeader, ReadNoAssignment, Placed,
     BeforeFrames
<1>6. CASE ReadInputAssignment(t)
  <2> DEFINE i == Nth(InputIds(model), t.n)
  <2>1. /\ pc = "inputAssign" /\ stack' = <<>> /\ t.kind = "assign"
        /\ pc' \in {"error", "crash_slot", "crash_array_input", "inputAssign"}
    BY <1>6 DEF ReadInputAssignment
  <2>2. DOMAIN cur' \subseteq ValueLines(model)
    <3>1. CASE UNCHANGED cur
      BY <3>1 DEF Placed
    <3>2. CASE ~UNCHANGED cur
      <4>1. i \in InputIds(model)
        BY <1>0, <1>6, <2>1, <3>2, AssignedLine DEF ReadInputAssignment
      <4> QED
        BY <1>0, <1>6, <4>1 DEF ReadInputAssignment, Placed, With
    <3> QED
      BY <3>1, <3>2
  <2> QED
    BY <1>0, <2>1, <2>2 DEF Placed, BeforeFrames
<1>7. CASE ReadInputEnd(t)
  BY <1>0, <1>7 DEF ReadInputEnd, ReadNoAssignment, Placed, BeforeFrames
<1> QED
  BY <1>1, <1>2, <1>3, <1>4, <1>5, <1>6, <1>7 DEF ReadToken

\* Spec => []Placed: whatever the witness says, only lines with a value are called
\* and get one.
THEOREM PlacedInvariant == Spec => []Placed
<1>1. Init => Placed
  BY DEF Init, Placed, BeforeFrames, Reading, NoValues
<1>2. Progress /\ Filled /\ Placed /\ [Next]_vars => Placed'
  <2> SUFFICES ASSUME Progress, Filled, Placed, [Next]_vars PROVE Placed'
    OBVIOUS
  <2>1. CASE FileEnds \/ Terminated \/ UNCHANGED vars
    BY <2>1 DEF FileEnds, Terminated, vars, control, results, witness, Placed, BeforeFrames,
       Checked, HasInit, Unset
  <2>2. CASE Step
    BY <2>2, ComputingKeepsPlaced, FramesKeepPlaced, ReadingKeepsPlaced DEF Step
  <2> QED
    BY <2>1, <2>2 DEF Next
<1> QED
  BY <1>1, <1>2, ProgressInvariant, FilledInvariant, PTL DEF Spec

----------------------------------------------------------------------------
(* Cached values.                                                          *)

\* The states of the first frame are assigned in their order, if they are.
InOrder == Orderly \/ mode = "random"

\* While that is so, what has been computed in the first frame precedes all
\* states that may still be assigned.
Settled ==
    /\ CacheCoherent
    /\ pc = "stateAssign" /\ k = 0 =>
         \A i \in CachedOperators : \E s \in DOMAIN cur \cap StateIds(model) : i < s
    /\ pc = "initCheck" => \A i \in CachedOperators \cup Called : i <= Checked

\* What a line computes depends on the values of its arguments only.
LEMMA ComputeDepends ==
    ASSUME NEW T, NEW i, NEW v, NEW w,
           \A n \in DOMAIN T[i].args : v[Abs(T[i].args[n])] = w[Abs(T[i].args[n])]
    PROVE  Compute(T, v, i) = Compute(T, w, i)
<1>1. \A n \in DOMAIN T[i].args : ArgValue(T, v, T[i].args[n]) = ArgValue(T, w, T[i].args[n])
  BY DEF ArgValue
<1>2. [n \in DOMAIN T[i].args |-> ArgValue(T, v, T[i].args[n])]
        = [n \in DOMAIN T[i].args |-> ArgValue(T, w, T[i].args[n])]
  BY <1>1
<1> QED
  BY <1>2 DEF Compute

\* A step that computes nothing keeps the cache coherent if it leaves the arguments
\* of all operators alone that keep their value.
LEMMA CoherenceKept ==
    ASSUME CacheCoherent, model' = model,
           \A i \in CachedOperators' :
              /\ i \in DOMAIN cur /\ cur'[i] = cur[i]
              /\ \A n \in DOMAIN model[i].args :
                    LET a == Abs(model[i].args[n])
                    IN  a \in DOMAIN cur => a \in DOMAIN cur' /\ cur'[a] = cur[a]
    PROVE  CacheCoherent'
<1> SUFFICES ASSUME NEW i \in DOMAIN cur' \cap Operators(model)
             PROVE  ArgsSet(model, cur', i) /\ cur'[i] = Compute(model, cur', i)
  BY DEF CacheCoherent
<1>1. /\ i \in DOMAIN cur \cap Operators(model) /\ cur'[i] = cur[i]
      /\ \A n \in DOMAIN model[i].args :
            Abs(model[i].args[n]) \in DOMAIN cur =>
              /\ Abs(model[i].args[n]) \in DOMAIN cur'
              /\ cur'[Abs(model[i].args[n])] = cur[Abs(model[i].args[n])]
  BY DEF CachedOperators
<1>2. ArgsSet(model, cur, i) /\ cur[i] = Compute(model, cur, i)
  BY <1>1 DEF CacheCoherent
<1>3. /\ ArgsSet(model, cur', i)
      /\ \A n \in DOMAIN model[i].args :
            cur'[Abs(model[i].args[n])] = cur[Abs(model[i].args[n])]
  BY <1>1, <1>2 DEF ArgsSet
<1>4. Compute(model, cur', i) = Compute(model, cur, i)
  BY <1>3, ComputeDepends
<1> QED
  BY <1>1, <1>2, <1>3, <1>4

\* A step that gives values to further states and inputs is one.
LEMMA LeavesKeepCoherence ==
    ASSUME CacheCoherent, model' = model,
           \A i \in DOMAIN cur : i \in DOMAIN cur' /\ cur'[i] = cur[i],
           DOMAIN cur' \ DOMAIN cur \subseteq Leaves(model)
    PROVE  /\ CacheCoherent'
           /\ CachedOperators' = CachedOperators
<1>1. CachedOperators' = CachedOperators
  BY DEF CachedOperators, Operators
<1> QED
  BY <1>1, CoherenceKept DEF CachedOperators

\* The computation of a line.
LEMMA ComputingKeepsCoherence ==
    ASSUME model \in Models, CacheCoherent, SimulateCompute
    PROVE  CacheCoherent'
<1> DEFINE h == Head(stack)
<1>1. /\ model' = model /\ h \notin DOMAIN cur /\ h \in Operators(model)
      /\ ArgsSet(model, cur, h)
      /\ cur' = With(cur, h, Compute(model, cur, h))
  BY DEF SimulateCompute, control
<1>2. /\ DOMAIN cur' = DOMAIN cur \cup {h} /\ cur'[h] = Compute(model, cur, h)
      /\ \A i \in DOMAIN cur : cur'[i] = cur[i]
  BY <1>1 DEF With
<1> HIDE DEF h
<1> SUFFICES ASSUME NEW i \in DOMAIN cur' \cap Operators(model)
             PROVE  ArgsSet(model, cur', i) /\ cur'[i] = Compute(model, cur', i)
  BY <1>1 DEF CacheCoherent
<1>3. ArgsSet(model, cur, i) /\ cur'[i] = Compute(model, cur, i)
  BY <1>1, <1>2 DEF CacheCoherent
<1>4. ArgsSet(model, cur', i)
  BY <1>2, <1>3 DEF ArgsSet
<1>5. \A n \in DOMAIN model[i].args :
        cur'[Abs(model[i].args[n])] = cur[Abs(model[i].args[n])]
  BY <1>2, <1>3 DEF ArgsSet
<1>6. Compute(model, cur', i) = Compute(model, cur, i)
  BY <1>5, ComputeDepends
<1> QED
  BY <1>3, <1>4, <1>6

\* Evaluating lines and filling the first frame.
LEMMA ComputingKeepsSettled ==
    ASSUME Progress, Filled, Placed, Settled,
           ParseModel \/ Simulate \/ InitState \/ InitStateFromLine
             \/ StatesInitialized \/ InitInputs \/ SimulateLine \/ CheckInit \/ CheckClaims
    PROVE  Settled'
<1> USE DEF Goto, Fail, Call, control, results, witness
<1>0. /\ model \in Models
      /\ stack # <<>> => pc \in Evaluating
  BY DEF Filled
<1>1. CASE ParseModel
  <2>1. CacheCoherent'
    BY <1>1 DEF ParseModel, Settled, CacheCoherent
  <2> QED
    BY <1>1, <2>1 DEF ParseModel, Settled
<1>2. CASE Simulate
  <2> USE DEF Simulate, SimulateReturn, SimulateRecur, SimulateCompute, SimulateDie
  <2>1. UNCHANGED <<model, mode, k, pending>> /\ pc' \in {pc, "error"} /\ pc # "stateAssign"
    BY <1>0, <1>2 DEF Evaluating
  <2>2. CacheCoherent'
    <3>1. CASE UNCHANGED cur
      BY <2>1, <3>1 DEF Settled, CacheCoherent
    <3> QED
      BY <1>0, <1>2, <3>1, ComputingKeepsCoherence DEF Settled
  <2>3. ASSUME pc' = "initCheck"
        PROVE  \A i \in CachedOperators' \cup Called' : i <= Checked'
    <3>1. /\ Checked' = Checked /\ Checked \in Nat /\ stack # <<>>
          /\ \A i \in CachedOperators \cup Called : i <= Checked
          /\ stack \in Seq(ValueLines(model)) /\ ValueLines(model) \subseteq Nat
      BY <1>0, <1>2, <2>1, <2>3, ModelWired DEF Settled, Checked, Placed
    <3>2. Head(stack) \in Called /\ Head(stack) \in ValueLines(model)
      BY <3>1, CalledAfter DEF Called
    <3>3. CASE SimulateRecur
      <4>1. MissingArg(Head(stack)) \in Nat /\ MissingArg(Head(stack)) < Head(stack)
        BY <1>0, <3>2, <3>3, MissingArgOf, ModelWired
      <4>2. Head(stack) \in Nat /\ Head(stack) <= Checked
        BY <3>1, <3>2
      <4>3. MissingArg(Head(stack)) <= Checked
        BY <3>1, <4>1, <4>2
      <4>4. stack' = <<MissingArg(Head(stack))>> \o stack
        BY <3>3
      <4>5. Called' \subseteq Called \cup {MissingArg(Head(stack))}
        BY <3>1, <4>4, CalledAfter DEF Called
      <4>6. CachedOperators' = CachedOperators
        BY <2>1, <3>3 DEF CachedOperators
      <4> QED
        BY <3>1, <4>3, <4>5, <4>6
    <3>4. CASE ~SimulateRecur
      <4>1. stack' = Tail(stack)
        BY <1>2, <2>1, <2>3, <3>4
      <4>2. Called' \subseteq Called
        BY <3>1, <4>1, CalledAfter DEF Called
      <4>3. CachedOperators' \subseteq CachedOperators \cup {Head(stack)}
        BY <1>2, <2>1 DEF CachedOperators, With
      <4> QED
        BY <3>1, <3>2, <4>2, <4>3
    <3> QED
      BY <3>3, <3>4
  <2> QED
    BY <2>1, <2>2, <2>3 DEF Settled
<1>3. CASE InitState \/ InitStateFromLine
  <2>1. /\ FirstUnset \in StateIds(model) \ DOMAIN cur
        /\ StateIds(model) \subseteq Leaves(model)
    BY <1>0, <1>3, FirstUnsetOf, ModelWired DEF InitState, InitStateFromLine, Placed
  <2>2. /\ \A i \in DOMAIN cur : i \in DOMAIN cur' /\ cur'[i] = cur[i]
        /\ DOMAIN cur' \ DOMAIN cur \subseteq Leaves(model)
        /\ model' = model
        /\ pc' \in {"initStates", "initEval"}
    BY <1>3, <2>1 DEF InitState, InitStateFromLine, With
  <2> QED
    BY <2>2, LeavesKeepCoherence DEF Settled
<1>4. CASE StatesInitialized \/ SimulateLine \/ CheckClaims
  <2>1. CacheCoherent'
    BY <1>4 DEF StatesInitialized, SimulateLine, CheckClaims, Settled, CacheCoherent
  <2> QED
    BY <1>4, <2>1 DEF StatesInitialized, SimulateLine, CheckClaims, Settled
<1>5. CASE InitInputs
  <2>1. /\ \A i \in DOMAIN cur : i \in DOMAIN cur' /\ cur'[i] = cur[i]
        /\ DOMAIN cur' \ DOMAIN cur \subseteq Leaves(model)
        /\ model' = model
        /\ pc' \in {"crash_slot", "simulate"}
    <3>1. InputIds(model) \subseteq Leaves(model)
      BY <1>0, ModelWired
    <3> QED
      BY <1>5, <3>1 DEF InitInputs, Unset
  <2> QED
    BY <2>1, LeavesKeepCoherence DEF Settled
<1>6. CASE CheckInit
  <2>1. /\ pc = "initCheck" /\ stack = <<>> /\ UNCHANGED <<model, k>>
        /\ pc' \in {"crash_array_init", "error", "stateAssign"}
        /\ pc' # "stateAssign" => UNCHANGED cur
        /\ pc' = "stateAssign" => \E x : cur' = With(cur, Checked, x)
    BY <1>6 DEF CheckInit, At, Checked
  <2>2. CASE pc' # "stateAssign"
    <3>1. CacheCoherent'
      BY <2>1, <2>2 DEF Settled, CacheCoherent
    <3> QED
      BY <2>1, <2>2, <3>1 DEF Settled
  <2>3. CASE pc' = "stateAssign"
    <3>1. /\ Checked \in StateIds(model) /\ Checked \in Leaves(model) /\ Checked \in Nat
          /\ \A i \in CachedOperators : i <= Checked
      BY <1>0, <2>1, ModelWired DEF Placed, Settled
    <3>2. /\ DOMAIN cur' = DOMAIN cur \cup {Checked}
          /\ \A i \in DOMAIN cur : i # Checked => cur'[i] = cur[i]
      BY <2>1, <2>3 DEF With
    <3>3. CachedOperators' = CachedOperators
      BY <2>1, <3>1, <3>2 DEF CachedOperators, Operators
    <3>4. \A i \in CachedOperators : i \in Nat /\ i < Checked
      BY <1>0, <3>1, ModelWired DEF CachedOperators, Operators
    <3>5. \A i \in CachedOperators : \A n \in DOMAIN model[i].args :
            Abs(model[i].args[n]) # Checked
      <4> TAKE i \in CachedOperators
      <4> TAKE n \in DOMAIN model[i].args
      <4>1. i \in DOMAIN model
        BY <1>0, ModelWired DEF CachedOperators
      <4>2. Abs(model[i].args[n]) \in Nat /\ Abs(model[i].args[n]) < i
        BY <1>0, <4>1, ArgumentsOf, ModelWired
      <4> QED
        BY <3>1, <3>4, <4>2
    <3>6. CacheCoherent'
      BY <2>1, <3>2, <3>3, <3>4, <3>5, CoherenceKept DEF Settled, CachedOperators
    <3> QED
      BY <2>1, <2>3, <3>1, <3>2, <3>3, <3>4, <3>6 DEF Settled
  <2> QED
    BY <2>2, <2>3
<1> QED
  BY <1>1, <1>2, <1>3, <1>4, <1>5, <1>6

\* The end of a frame, which leaves the values alone, and the transition, which
\* leaves no line computed.
LEMMA FramesKeepSettled ==
    ASSUME Filled, Placed, Settled, FinishStep \/ Transition PROVE Settled'
<1> USE DEF Goto, control, results, witness
<1>1. CASE FinishStep
  <2>1. /\ UNCHANGED <<model, cur>>
        /\ pc' \in {"crash_negated", "claims", "ok", "transition"}
    BY <1>1 DEF FinishStep
  <2>2. CacheCoherent'
    BY <2>1 DEF Settled, CacheCoherent
  <2> QED
    BY <2>1, <2>2 DEF Settled
<1>2. CASE Transition
  <2>1. /\ model' = model /\ pc' \in {"stateHeader", "initInputs"}
        /\ DOMAIN cur' = StateIds(model)
    BY <1>2 DEF Transition
  <2>2. CachedOperators' = {}
    BY <2>1, ModelWired DEF CachedOperators, Filled
  <2> QED
    BY <2>1, <2>2 DEF Settled, CacheCoherent, CachedOperators
<1> QED
  BY <1>1, <1>2

\* In the first frame an assignment is to a state that no computed line depends on.
LEMMA ReadingKeepsSettled ==
    ASSUME Progress, Filled, Placed, InOrder, Settled, NEW t \in Token \cup {EOF}, ReadToken(t)
    PROVE  Settled'
<1> USE DEF Goto, Fail, Call, At
<1>0. /\ model \in Models /\ Orderly
      /\ UNCHANGED <<model, k>>
      /\ StateIds(model) \subseteq Leaves(model)
      /\ InputIds(model) \subseteq Leaves(model)
      /\ StateIds(model) \subseteq DOMAIN model
      /\ InputIds(model) \subseteq DOMAIN model
      /\ DOMAIN model \subseteq Nat \ {0}
      /\ ValueLines(model) \subseteq DOMAIN model
      /\ k \in Nat
  BY ReadingOf, ModelWired DEF Filled, InOrder, Progress
<1>1. CASE UNCHANGED cur /\ pc' \notin {"stateAssign", "initCheck"}
  <2>1. CacheCoherent'
    BY <1>0, <1>1 DEF Settled, CacheCoherent
  <2> QED
    BY <1>1, <2>1 DEF Settled
<1>2. CASE ReadStateHeader(t) /\ pc' = "stateAssign"
  <2>1. UNCHANGED cur /\ pc = "stateHeader"
    BY <1>2 DEF ReadStateHeader
  <2>2. CacheCoherent'
    BY <1>0, <2>1 DEF Settled, CacheCoherent
  <2>3. k = 0 => DOMAIN cur = {}
    BY <2>1 DEF Placed, BeforeFrames
  <2> QED
    BY <1>0, <1>2, <2>1, <2>2, <2>3 DEF Settled, CachedOperators
<1>3. CASE ReadStateAssignment(t)
  <2> DEFINE s == Nth(StateIds(model), t.n)
  <2>0. /\ pc = "stateAssign" /\ t.kind = "assign" /\ Follows(t)
    BY <1>0, <1>3, ReadingOf DEF ReadStateAssignment
  <2>1. CASE t.n >= Cardinality(StateIds(model))
    BY <1>1, <1>3, <2>1 DEF ReadStateAssignment
  <2>2. CASE ~(t.n >= Cardinality(StateIds(model)))
    <3>1. s \in StateIds(model) /\ t.n < Cardinality(StateIds(model))
      BY <1>0, <2>0, <2>2, AssignedLine
    <3>2. /\ pc' \in {"error", "initCheck", "stateAssign"}
          /\ pc' \notin {"initCheck", "stateAssign"} => UNCHANGED cur
          /\ pc' = "initCheck" =>
               /\ k = 0 /\ HasInit(s) /\ pending' = t
               /\ stack' = <<Abs(model[s].init)>>
               /\ UNCHANGED cur \/ \E x : cur' = With(cur, s, x)
          /\ pc' = "stateAssign" => \E x : cur' = With(cur, s, x)
      BY <1>3, <2>2 DEF ReadStateAssignment, NeedsInitCheck
    <3>3. k = 0 => \A q \in DOMAIN cur \cap StateIds(model) : q <= s
      BY <2>0, <3>1 DEF Follows
    <3>4. k > 0 => CachedOperators = {}
      BY <1>0, <2>0, ModelWired DEF Filled, FrameComplete, CachedOperators
    <3> HIDE DEF s
    <3>5. \A i \in CachedOperators : i \in Nat /\ i < s
      <4> TAKE i \in CachedOperators
      <4>1. i \in Nat /\ s \in Nat
        BY <1>0, <3>1, ModelWired DEF CachedOperators, Operators
      <4>2. k = 0
        BY <1>0, <3>4
      <4>3. PICK q \in DOMAIN cur \cap StateIds(model) : i < q
        BY <2>0, <4>2 DEF Settled
      <4>4. q \in Nat /\ q <= s
        BY <1>0, <3>3, <4>2
      <4> QED
        BY <4>1, <4>3, <4>4
    <3>6. CASE pc' \notin {"initCheck", "stateAssign"}
      BY <1>1, <3>2, <3>6
    <3>7. CASE pc' \in {"initCheck", "stateAssign"}
      <4>1. /\ DOMAIN cur' \subseteq DOMAIN cur \cup {s}
            /\ \A i \in DOMAIN cur : i \in DOMAIN cur' /\ (i # s => cur'[i] = cur[i])
            /\ pc' = "stateAssign" => s \in DOMAIN cur'
        BY <3>2, <3>7 DEF With
      <4>2. CachedOperators' = CachedOperators
        BY <1>0, <3>1, <4>1 DEF CachedOperators, Operators
      <4>3. \A i \in CachedOperators : \A n \in DOMAIN model[i].args :
              Abs(model[i].args[n]) # s
        <5> TAKE i \in CachedOperators
        <5> TAKE n \in DOMAIN model[i].args
        <5>1. i \in DOMAIN model
          BY <1>0, ModelWired DEF CachedOperators, Operators
        <5>2. Abs(model[i].args[n]) \in Nat /\ Abs(model[i].args[n]) < i
          BY <1>0, <5>1, ArgumentsOf
        <5> QED
          BY <1>0, <3>1, <3>5, <5>2
      <4>4. CacheCoherent'
        BY <1>0, <3>5, <4>1, <4>2, <4>3, CoherenceKept DEF Settled, CachedOperators
      <4>5. pc' = "initCheck" =>
              /\ Checked' = s
              /\ \A i \in Called' : i <= s
        <5> SUFFICES ASSUME pc' = "initCheck"
                     PROVE  Checked' = s /\ \A i \in Called' : i <= s
          OBVIOUS
        <5>1. pending' = t /\ stack' = <<Abs(model[s].init)>> /\ HasInit(s)
          BY <3>2
        <5>2. Abs(model[s].init) <= s
          BY <1>0, <3>1, <5>1, LinksOfLine DEF HasInit
        <5>3. Checked' = s
          BY <1>0, <5>1 DEF Checked, s
        <5> QED
          BY <5>1, <5>2, <5>3, CalledOne DEF Called
      <4>6. s \in Nat /\ \A i \in CachedOperators : i <= s
        BY <1>0, <3>1, <3>5
      <4> QED
        BY <1>0, <3>1, <3>5, <4>1, <4>2, <4>4, <4>5, <4>6 DEF Settled
    <3> QED
      BY <3>6, <3>7
  <2> QED
    BY <2>1, <2>2
<1>4. CASE ReadInputAssignment(t)
  <2> DEFINE i == Nth(InputIds(model), t.n)
  <2>1. /\ pc' \in {"error", "crash_slot", "crash_array_input", "inputAssign"}
        /\ t.kind = "assign"
    BY <1>4 DEF ReadInputAssignment
  <2>2. CASE ~UNCHANGED cur
    <3>1. /\ i \in InputIds(model) /\ i \notin DOMAIN cur
          /\ cur' = With(cur, i, t.val)
      BY <1>0, <1>4, <2>1, <2>2, AssignedLine DEF ReadInputAssignment
    <3> HIDE DEF i
    <3>2. /\ \A j \in DOMAIN cur : j \in DOMAIN cur' /\ cur'[j] = cur[j]
          /\ DOMAIN cur' \ DOMAIN cur \subseteq Leaves(model)
      BY <1>0, <3>1 DEF With
    <3> QED
      BY <1>0, <2>1, <3>2, LeavesKeepCoherence DEF Settled
  <2> QED
    BY <1>1, <2>1, <2>2
<1>5. CASE /\ \/ ReadWitness(t) \/ ReadClaim(t) \/ ReadStateHeader(t) \/ ReadStateEnd(t)
              \/ ReadInputHeader(t) \/ ReadSkipped(t) \/ ReadInputEnd(t)
           /\ pc' # "stateAssign"
  <2>1. UNCHANGED cur /\ pc' # "initCheck"
    BY <1>5 DEF ReadWitness, HeaderLabel, ReadClaim, ReadStateHeader, ReadStateEnd,
       ReadInputHeader, ReadSkipped, ReadInputEnd, ReadNoAssignment
  <2> QED
    BY <1>1, <1>5, <2>1
<1>6. CASE ReadWitness(t) \/ ReadClaim(t) \/ ReadStateEnd(t)
              \/ ReadInputHeader(t) \/ ReadSkipped(t) \/ ReadInputEnd(t)
  <2>1. pc' # "stateAssign"
    BY <1>6 DEF ReadWitness, HeaderLabel, ReadClaim, ReadStateEnd,
       ReadInputHeader, ReadSkipped, ReadInputEnd, ReadNoAssignment
  <2> QED
    BY <1>5, <1>6, <2>1
<1> QED
  BY <1>2, <1>3, <1>4, <1>5, <1>6 DEF ReadToken

\* Spec => [](InOrder => CacheCoherent): no step leaves a value behind that was
\* computed from something else, unless a witness assigns a state of the first
\* frame after a later one.
THEOREM Coherence == Spec => [](InOrder => CacheCoherent)
<1>1. Init => Settled
  BY DEF Init, NoValues, Settled, CacheCoherent
<1>2. /\ Progress /\ Filled /\ Placed /\ (InOrder => Settled) /\ [Next]_vars
      => (InOrder => Settled)'
  <2> SUFFICES ASSUME Progress, Filled, Placed, InOrder => Settled, [Next]_vars, InOrder'
               PROVE  Settled'
    OBVIOUS
  <2>1. mode' = mode
    <3>1. CASE FinishStep \/ Transition
      BY <3>1 DEF FinishStep, Transition, control
    <3> QED
      BY <3>1, StepsWithin DEF Within, Unchanging
  <2>2. InOrder /\ Settled
    BY <2>1 DEF InOrder
  <2>3. CASE FileEnds \/ Terminated \/ UNCHANGED vars
    BY <2>2, <2>3 DEF FileEnds, Terminated, vars, control, results, witness, Settled,
       CacheCoherent, CachedOperators, Called, Checked
  <2>4. CASE Step
    BY <2>2, <2>4, ComputingKeepsSettled, FramesKeepSettled, ReadingKeepsSettled DEF Step
  <2> QED
    BY <2>3, <2>4 DEF Next
<1>3. (InOrder => Settled) => (InOrder => CacheCoherent)
  BY DEF Settled
<1> QED
  BY <1>1, <1>2, <1>3, ProgressInvariant, FilledInvariant, PlacedInvariant, PTL DEF Spec

----------------------------------------------------------------------------
(* Initial values.                                                         *)

\* The state that is being initialised, or compared with its initial value.
Target == IF pc = "initEval" THEN FirstUnset ELSE Checked

\* The lines called for an initial value are among those it is computed from, and
\* its own line is one of them until it has a value.
Initialising ==
    pc \in {"initEval", "initCheck"} =>
        /\ Target \in StateIds(model) /\ HasInit(Target)
        /\ Abs(model[Target].init) \in DOMAIN cur \cup Called
        /\ \A i \in Called : i <= Abs(model[Target].init)
        /\ \E S \in SUBSET {j \in ValueLines(model) : model[j].tag # "input" /\ j <= Target} :
              HoldsCone(model, Abs(model[Target].init), S) /\ Called \subseteq S

\* The call for an initial value.
LEMMA InitialCall ==
    ASSUME model \in Models, model' = model, NEW s \in StateIds(model), HasInit(s),
           Target' = s, stack' = <<Abs(model[s].init)>>
    PROVE  Initialising'
<1>1. Called' = {Abs(model[s].init)}
  BY CalledOne DEF Called
<1>2. /\ Abs(model[s].init) \in ValueLines(model) /\ Abs(model[s].init) \in Nat
      /\ \E S \in SUBSET {j \in ValueLines(model) : model[j].tag # "input" /\ j <= s} :
            HoldsCone(model, Abs(model[s].init), S)
  BY LinksOfLine, ModelWired DEF HasInit
<1>3. PICK S \in SUBSET {j \in ValueLines(model) : model[j].tag # "input" /\ j <= s} :
            HoldsCone(model, Abs(model[s].init), S)
  BY <1>2
<1>4. {Abs(model[s].init)} \subseteq S
  BY <1>3 DEF HoldsCone
<1> QED
  BY <1>1, <1>2, <1>3, <1>4 DEF Initialising, HasInit

\* Evaluating it.
LEMMA SimulateKeepsInitialising ==
    ASSUME Filled, Placed, Initialising, Simulate, pc' \in {"initEval", "initCheck"}
    PROVE  Initialising'
<1> USE DEF control, results, witness, Simulate, SimulateReturn, SimulateRecur, SimulateCompute,
            SimulateDie
<1>1. /\ UNCHANGED <<model, pc, pending>> /\ stack # <<>> /\ model \in Models
      /\ stack \in Seq(ValueLines(model))
      /\ Operators(model) \cap StateIds(model) = {}
      /\ ValueLines(model) \subseteq DOMAIN model /\ ValueLines(model) \subseteq Nat
  BY ModelWired DEF Goto, Fail, Filled, Placed
<1>2. /\ Unset(StateIds(model))' = Unset(StateIds(model))
      /\ Target' = Target
      /\ DOMAIN cur \subseteq DOMAIN cur'
  <2>1. DOMAIN cur' \in {DOMAIN cur, DOMAIN cur \cup (DOMAIN cur' \cap Operators(model))}
    BY <1>1 DEF With
  <2>2. Unset(StateIds(model))' = Unset(StateIds(model)) /\ DOMAIN cur \subseteq DOMAIN cur'
    BY <1>1, <2>1 DEF Unset
  <2>3. FirstUnset' = FirstUnset /\ Checked' = Checked
    BY <1>1, <2>2 DEF FirstUnset, Checked
  <2> QED
    BY <1>1, <2>2, <2>3 DEF Target
<1> DEFINE a == Abs(model[Target].init)
<1>3. /\ Target \in StateIds(model) /\ HasInit(Target)
      /\ a \in DOMAIN cur \cup Called
      /\ \A i \in Called : i <= a
      /\ a \in Nat
  <2>1. Target \in StateIds(model) /\ HasInit(Target) /\ Target \in DOMAIN model
    BY <1>1, ModelWired DEF Initialising
  <2> QED
    BY <1>1, <2>1, LinksOfLine DEF Initialising, HasInit
<1>4. PICK S \in SUBSET {j \in ValueLines(model) : model[j].tag # "input" /\ j <= Target} :
              HoldsCone(model, a, S) /\ Called \subseteq S
  BY <1>1 DEF Initialising
<1>5. HasInit(Target)'
  BY <1>1, <1>2, <1>3 DEF HasInit
<1> HIDE DEF a
<1>6. CASE SimulateRecur
  <2> DEFINE h == Head(stack)
             m == MissingArg(h)
  <2>1. h \in Called /\ h \in ValueLines(model)
    BY <1>1, CalledAfter DEF Called
  <2>2. /\ m \in Nat /\ m < h
        /\ \E n \in DOMAIN model[h].args : m = Abs(model[h].args[n])
    BY <1>1, <1>6, <2>1, MissingArgOf
  <2>3. h \in Nat /\ h <= a /\ h \in S
    BY <1>1, <1>3, <1>4, <2>1
  <2>4. m \in S /\ m <= a
    BY <1>3, <1>4, <2>2, <2>3 DEF HoldsCone
  <2>5. stack' = <<m>> \o stack /\ cur' = cur
    BY <1>6
  <2> HIDE DEF h, m
  <2>6. Called' = Called \cup {m}
    BY <1>1, <2>5, CalledAfter DEF Called
  <2>7. Called' \subseteq S /\ (\A i \in Called' : i <= a) /\ a \in DOMAIN cur' \cup Called'
    BY <1>3, <1>4, <2>4, <2>5, <2>6
  <2> QED
    BY <1>1, <1>2, <1>3, <1>4, <1>5, <2>7 DEF Initialising, a
<1>7. CASE ~SimulateRecur
  <2>1. stack' = Tail(stack) /\ Head(stack) \in DOMAIN cur'
    BY <1>1, <1>7 DEF With, Goto, Fail, Evaluating
  <2>2. Called' \subseteq Called /\ Called \subseteq Called' \cup {Head(stack)}
    BY <1>1, <2>1, CalledAfter DEF Called
  <2>3. Called' \subseteq S /\ (\A i \in Called' : i <= a) /\ a \in DOMAIN cur' \cup Called'
    BY <1>2, <1>3, <1>4, <2>1, <2>2
  <2> QED
    BY <1>1, <1>2, <1>3, <1>4, <1>5, <2>3 DEF Initialising, a
<1> QED
  BY <1>6, <1>7

\* Spec => []Initialising: the recursion for an initial value stays in the cone the
\* parser has checked.
THEOREM InitialisingInvariant == Spec => []Initialising
<1>1. Init => Initialising
  BY DEF Init, Initialising
<1>2. Filled /\ Placed /\ Initialising /\ [Next]_vars => Initialising'
  <2> SUFFICES ASSUME Filled, Placed, Initialising, [Next]_vars,
                      pc' \in {"initEval", "initCheck"}
               PROVE  Initialising'
    BY DEF Initialising
  <2> USE DEF Goto, Fail, Call, At, control, results, witness
  <2>0. model \in Models
    BY DEF Filled
  <2>1. CASE FileEnds \/ Terminated \/ UNCHANGED vars
    BY <2>1 DEF FileEnds, Terminated, vars, Initialising, Target, FirstUnset, Unset, Checked,
       Called, HasInit
  <2>2. CASE Simulate
    BY <2>2, SimulateKeepsInitialising
  <2>3. CASE InitState
    <3>1. /\ pc = "initStates" /\ model' = model /\ cur' = cur /\ pc' = "initEval"
          /\ HasInit(FirstUnset) /\ stack' = <<Abs(model[FirstUnset].init)>>
      BY <2>3 DEF InitState
    <3>2. FirstUnset \in StateIds(model)
      BY <2>0, <2>3, FirstUnsetOf DEF InitState
    <3>3. Target' = FirstUnset
      BY <3>1 DEF Target, FirstUnset, Unset
    <3> QED
      BY <2>0, <3>1, <3>2, <3>3, InitialCall
  <2>4. ASSUME NEW t \in Token \cup {EOF}, ReadStateAssignment(t) PROVE Initialising'
    <3> DEFINE s == Nth(StateIds(model), t.n)
    <3>1. /\ model' = model /\ t.kind = "assign"
          /\ ~(t.n >= Cardinality(StateIds(model)))
          /\ pc' = "initCheck" /\ HasInit(s) /\ stack' = <<Abs(model[s].init)>>
          /\ pending' = t
      BY <2>4 DEF ReadStateAssignment, NeedsInitCheck
    <3>2. s \in StateIds(model)
      BY <2>0, <3>1, AssignedLine, ModelWired
    <3>3. Target' = s
      BY <3>1 DEF Target, Checked
    <3> QED
      BY <2>0, <3>1, <3>2, <3>3, InitialCall
  <2>5. CASE ParseModel \/ InitStateFromLine \/ StatesInitialized \/ InitInputs
               \/ SimulateLine \/ FinishStep \/ Transition \/ CheckInit \/ CheckClaims
    BY <2>5 DEF ParseModel, InitStateFromLine, StatesInitialized, InitInputs, SimulateLine,
       FinishStep, Transition, CheckInit, CheckClaims, Crashes
  <2>6. ASSUME NEW t \in Token \cup {EOF}, ReadToken(t), ~ReadStateAssignment(t)
        PROVE  FALSE
    BY <2>6 DEF ReadToken, ReadWitness, HeaderLabel, ReadClaim, ReadStateHeader, ReadStateEnd,
       ReadInputHeader, ReadSkipped, ReadInputAssignment, ReadInputEnd, ReadNoAssignment
  <2> QED
    BY <2>1, <2>2, <2>3, <2>4, <2>5, <2>6 DEF Next, Step
<1> QED
  BY <1>1, <1>2, FilledInvariant, PlacedInvariant, PTL DEF Spec

\* A step that fails in spite of Simulatable takes a negative index, or calls a leaf
\* without a value.
LEMMA RandomStepsOn ==
    ASSUME Progress, Filled, Placed, Initialising, Simulatable(model), mode = "random",
           pc \notin {"error"} \cup Crashes, [Next]_vars
    PROVE  pc' \notin {"error"} \cup Crashes
<1> USE DEF Goto, Fail, Call, At, control, results, witness
<1>0. /\ model \in Models
      /\ stack # <<>> => pc \in Evaluating
      /\ Leaves(model) = StateIds(model) \cup InputIds(model)
      /\ Leaves(model) \subseteq DOMAIN model /\ DOMAIN model \subseteq Nat
      /\ ValueLines(model) \subseteq DOMAIN model
  BY ModelWired DEF Filled
<1>1. CASE ParseModel
  <2>1. pc' = "initStates"
    BY <1>0, <1>1 DEF ParseModel, Simulatable
  <2> QED
    BY <2>1 DEF Crashes
<1>2. CASE SimulateReturn \/ SimulateRecur \/ SimulateCompute
  BY <1>2 DEF SimulateReturn, SimulateRecur, SimulateCompute
<1>3. CASE SimulateDie
  <2> DEFINE h == Head(stack)
  <2>1. h \in Leaves(model) /\ h \notin DOMAIN cur /\ stack # <<>>
    BY <1>3 DEF SimulateDie
  <2>2. pc = "initEval"
    BY <1>0, <2>1 DEF Evaluating, Filled, FrameComplete, Placed
  <2>3. h \in Called
    BY <2>1, CalledAfter DEF Called, Placed
  <2>4. /\ Target = FirstUnset /\ FirstUnset \in StateIds(model)
        /\ \A s \in StateIds(model) \ DOMAIN cur : FirstUnset <= s
    BY <1>0, <2>2, FirstUnsetOf DEF Target, Placed
  <2>5. /\ HasInit(FirstUnset)
        /\ h <= Abs(model[FirstUnset].init)
        /\ model[h].tag # "input"
    BY <2>2, <2>3, <2>4 DEF Initialising
  <2>6. /\ Abs(model[FirstUnset].init) <= FirstUnset /\ Abs(model[FirstUnset].init) # FirstUnset
        /\ Abs(model[FirstUnset].init) \in Nat /\ FirstUnset \in Nat
    BY <1>0, <2>4, <2>5, LinksOfLine DEF HasInit, Simulatable
  <2>7. h \in StateIds(model) /\ h \in Nat
    BY <1>0, <2>1, <2>5 DEF InputIds, LinesOf
  <2> HIDE DEF h
  <2> QED
    BY <2>1, <2>4, <2>5, <2>6, <2>7
<1>4. CASE InitState \/ InitStateFromLine \/ StatesInitialized \/ SimulateLine \/ Transition
  <2>1. pc' \in {pc, "initEval", "initStates", "initInputs", "simulate"}
    BY <1>4 DEF InitState, InitStateFromLine, StatesInitialized, SimulateLine, Transition
  <2> QED
    BY <2>1 DEF Crashes
<1>5. CASE InitInputs
  <2>1. pc' = "simulate"
    BY <1>0, <1>5 DEF InitInputs, Simulatable
  <2> QED
    BY <2>1 DEF Crashes
<1>6. CASE FinishStep
  <2>1. ~NegativeIndex
    <3>1. \A l \in Constraints \cup Bads : model[l].args[1] > 0 /\ model[l].args[1] \in Int
      <4> TAKE l \in Constraints \cup Bads
      <4>1. l \in DOMAIN model /\ model[l].tag \in Properties
        BY DEF Constraints, Bads, LinesOf, Properties
      <4>2. 1 \in DOMAIN model[l].args
        <5>1. model[l].args \in Seq(Int) /\ Len(model[l].args) = 1
          BY <1>0, <4>1, ArityOf, ModelWired DEF Wired, Line, Properties
        <5> QED
          BY <5>1
      <4> QED
        BY <1>0, <4>1, <4>2, ArgumentsOf DEF Simulatable, Constraints, Bads
    <3> QED
      BY <3>1 DEF NegativeIndex, IsNegated, Pending
  <2>2. pc' \in {"ok", "claims", "transition"}
    BY <1>6, <2>1 DEF FinishStep
  <2> QED
    BY <2>2 DEF Crashes
<1>7. CASE CheckInit \/ CheckClaims
  BY <1>7 DEF CheckInit, CheckClaims, Placed
<1>8. ASSUME NEW t \in Token \cup {EOF}, ReadToken(t) PROVE FALSE
  BY <1>8, ReadingOf
<1>9. CASE FileEnds \/ Terminated \/ UNCHANGED vars
  BY <1>9 DEF FileEnds, Terminated, vars
<1> QED
  BY <1>1, <1>2, <1>3, <1>4, <1>5, <1>6, <1>7, <1>8, <1>9 DEF Next, Step, Simulate

\* Spec => []RandomNeverFails: whatever the random values, simulate meets no leaf
\* without a value in a model that is Simulatable.
THEOREM RandomRuns == Spec => []RandomNeverFails
<1>1. Init => RandomNeverFails
  BY DEF Init, RandomNeverFails, Crashes
<1>2. /\ Progress /\ Filled /\ Placed /\ Initialising /\ [Next]_vars
      /\ RandomNeverFails
      => RandomNeverFails'
  <2> SUFFICES ASSUME Progress, Filled, Placed, Initialising, [Next]_vars,
                      RandomNeverFails, Simulatable(model)', mode' = "random"
               PROVE  pc' \notin {"error"} \cup Crashes
    BY DEF RandomNeverFails
  <2>1. UNCHANGED <<model, mode>>
    <3>1. CASE FinishStep \/ Transition
      BY <3>1 DEF FinishStep, Transition, control
    <3> QED
      BY <3>1, StepsWithin DEF Within, Unchanging
  <2>2. Simulatable(model)
    BY <2>1 DEF Simulatable, Leaves, StateIds, LinesOf, HasSlot, num_format_lines
  <2> QED
    BY <2>1, <2>2, RandomStepsOn DEF RandomNeverFails
<1> QED
  BY <1>1, <1>2, ProgressInvariant, FilledInvariant, PlacedInvariant, InitialisingInvariant,
     PTL DEF Spec

----------------------------------------------------------------------------
(* Slots.                                                                  *)

\* Past parse_model all lines are supported and states have a slot; what is called
\* or has a value has one.
Supported ==
    /\ pc \notin {"model"} \cup Final =>
         /\ \A i \in DOMAIN model : model[i].tag \notin Unsupported
         /\ \A s \in StateIds(model) : HasSlot(model, s)
    /\ \A i \in DOMAIN cur \cup Called : HasSlot(model, i)

\* What precedes a line has a slot.
LEMMA EarlierSlots ==
    ASSUME model \in Models, NEW i \in DOMAIN model, NEW j \in Nat, j < i
    PROVE  HasSlot(model, j)
<1>1. \E n \in DOMAIN model : \A m \in DOMAIN model : m <= n
  <2>1. DOMAIN model \in SUBSET Nat /\ DOMAIN model # {} /\ IsFiniteSet(DOMAIN model)
    BY ModelWired
  <2> QED
    BY <2>1, GreatestNumber
<1>2. /\ num_format_lines(model) \in DOMAIN model
      /\ i <= num_format_lines(model)
  BY <1>1 DEF num_format_lines
<1> QED
  BY <1>2, ModelWired DEF HasSlot

\* Spec => []Supported: in particular current_state is never written past its end.
THEOREM SupportedInvariant == Spec => []Supported
<1>1. Init => Supported
  BY CalledOne DEF Init, Supported, NoValues, Called
<1>2. Progress /\ Filled /\ Placed /\ Supported /\ [Next]_vars => Supported'
  <2> SUFFICES ASSUME Progress, Filled, Placed, Supported, [Next]_vars PROVE Supported'
    OBVIOUS
  <2> USE DEF Goto, Fail, Call, At, control, results, witness
  <2>0. /\ model \in Models /\ DOMAIN model \subseteq Nat
        /\ ValueLines(model) \subseteq DOMAIN model
        /\ StateIds(model) \subseteq ValueLines(model)
        /\ InputIds(model) \subseteq ValueLines(model)
        /\ stack # <<>> => pc \in Evaluating
        /\ stack \in Seq(ValueLines(model))
        /\ pc # "model" /\ pc \notin Final =>
             /\ \A i \in DOMAIN model : model[i].tag \notin Unsupported
             /\ \A s \in StateIds(model) : HasSlot(model, s)
        /\ \A i \in DOMAIN cur \cup Called : HasSlot(model, i)
    BY ModelWired DEF Filled, Placed, Supported
  <2>1. model' = model
    <3>1. CASE FinishStep \/ Transition
      BY <3>1 DEF FinishStep, Transition
    <3> QED
      BY <3>1, StepsWithin DEF Within, Unchanging
  <2>2. pc' \notin {"model"} \cup Final =>
          /\ \A i \in DOMAIN model : model[i].tag \notin Unsupported
          /\ \A s \in StateIds(model) : HasSlot(model, s)
    <3>1. CASE ParseModel
      <4>1. CASE \E i \in DOMAIN model : model[i].tag \in Unsupported
        BY <3>1, <4>1 DEF ParseModel, Final
      <4>2. CASE /\ \A i \in DOMAIN model : model[i].tag \notin Unsupported
                 /\ \E s \in StateIds(model) : ~HasSlot(model, s)
        <5>1. pc' = "crash_slot"
          BY <3>1, <4>2 DEF ParseModel
        <5> QED
          BY <5>1 DEF Final, Crashes
      <4> QED
        BY <4>1, <4>2
    <3>2. CASE FileEnds \/ Terminated \/ UNCHANGED vars
      BY <2>0, <3>2 DEF FileEnds, Terminated, vars
    <3>3. CASE Simulate \/ InitState \/ InitStateFromLine \/ StatesInitialized \/ InitInputs
                 \/ SimulateLine \/ FinishStep \/ Transition \/ CheckInit \/ CheckClaims
      <4>1. pc \notin {"model"} \cup Final
        BY <2>0, <3>3 DEF Simulate, SimulateReturn, SimulateRecur, SimulateCompute, SimulateDie,
           InitState, InitStateFromLine, StatesInitialized, InitInputs, SimulateLine,
           FinishStep, Transition, CheckInit, CheckClaims, Evaluating, Final, Crashes
      <4> QED
        BY <2>0, <4>1
    <3>4. CASE \E t \in Token \cup {EOF} : ReadToken(t)
      <4>1. pc \in Reading
        BY <3>4 DEF ReadToken, ReadWitness, ReadClaim, ReadStateHeader, ReadStateAssignment,
           ReadStateEnd, ReadInputHeader, ReadSkipped, ReadInputAssignment, ReadInputEnd, Reading
      <4> QED
        BY <2>0, <4>1 DEF Reading, Final, Crashes
    <3> QED
      BY <3>1, <3>2, <3>3, <3>4 DEF Next, Step
  <2>3. ASSUME NEW i \in DOMAIN cur' \cup Called' PROVE HasSlot(model, i)
    <3>1. CASE Simulate
      <4> USE DEF Simulate, SimulateReturn, SimulateRecur, SimulateCompute, SimulateDie
      <4>1. stack # <<>> /\ Head(stack) \in Called /\ Head(stack) \in DOMAIN model
        BY <2>0, <3>1, CalledAfter DEF Called
      <4>2. CASE SimulateRecur
        <5>1. HasSlot(model, MissingArg(Head(stack)))
          BY <2>0, <4>1, <4>2, MissingArgOf, EarlierSlots
        <5>2. Called' = Called \cup {MissingArg(Head(stack))} /\ cur' = cur
          BY <2>0, <4>2, CalledAfter DEF Called
        <5> QED
          BY <2>0, <2>3, <5>1, <5>2
      <4>3. CASE ~SimulateRecur
        <5>1. stack' \in {Tail(stack), <<>>} /\ DOMAIN cur' \subseteq DOMAIN cur \cup {Head(stack)}
          BY <3>1, <4>3 DEF With
        <5>2. Called' \subseteq Called
          BY <2>0, <4>1, <5>1, CalledAfter, CalledOne DEF Called
        <5> QED
          BY <2>0, <2>3, <4>1, <5>1, <5>2
      <4> QED
        BY <4>2, <4>3
    <3>2. CASE InitState \/ InitStateFromLine
      <4>0. pc \in {"initStates", "initEval"}
        BY <3>2 DEF InitState, InitStateFromLine
      <4>1. FirstUnset \in StateIds(model) /\ HasSlot(model, FirstUnset)
        BY <2>0, <3>2, <4>0, FirstUnsetOf DEF InitState, InitStateFromLine, Placed, Final, Crashes
      <4>2. HasInit(FirstUnset) => HasSlot(model, Abs(model[FirstUnset].init))
        <5> SUFFICES ASSUME HasInit(FirstUnset)
                     PROVE  HasSlot(model, Abs(model[FirstUnset].init))
          OBVIOUS
        <5>1. /\ Abs(model[FirstUnset].init) \in Nat
              /\ Abs(model[FirstUnset].init) <= FirstUnset
              /\ FirstUnset \in DOMAIN model
          BY <2>0, <4>1, LinksOfLine DEF HasInit
        <5>2. \/ Abs(model[FirstUnset].init) < FirstUnset
              \/ Abs(model[FirstUnset].init) = FirstUnset
          BY <2>0, <5>1
        <5> QED
          BY <2>0, <4>1, <5>1, <5>2, EarlierSlots
      <4>3. \/ i \in DOMAIN cur \cup {FirstUnset} \cup Called
            \/ HasInit(FirstUnset) /\ i = Abs(model[FirstUnset].init)
        BY <2>3, <3>2, CalledOne DEF InitState, InitStateFromLine, With, Called
      <4> QED
        BY <2>0, <4>1, <4>2, <4>3
    <3>3. CASE InitInputs
      <4>1. /\ Called' = {}
            /\ DOMAIN cur' \subseteq DOMAIN cur \cup {j \in InputIds(model) : HasSlot(model, j)}
        BY <3>3, CalledOne DEF InitInputs, Called, Unset
      <4> QED
        BY <2>0, <2>3, <4>1
    <3>4. CASE SimulateLine
      <4>1. /\ Least(ToSimulate) \in ToSimulate /\ HasSlot(model, Least(ToSimulate))
            /\ Least(ToSimulate) \in Nat
        BY <2>0, <3>4, LeastToSimulate DEF SimulateLine, ToSimulate, Unset
      <4>2. Called' = {Least(ToSimulate)} /\ cur' = cur
        BY <3>4, <4>1, CalledOne DEF SimulateLine, Called, Abs
      <4> QED
        BY <2>0, <2>3, <4>1, <4>2
    <3>5. CASE Transition
      <4>1. DOMAIN cur' = StateIds(model) /\ Called' = {} /\ pc = "transition"
        BY <3>5, CalledOne DEF Transition, Called
      <4> QED
        BY <2>0, <2>3, <4>1 DEF Final, Crashes
    <3>6. CASE CheckInit
      <4>1. /\ DOMAIN cur' \subseteq DOMAIN cur \cup {Checked} /\ Called' = {}
            /\ Checked \in StateIds(model) /\ pc = "initCheck"
        BY <3>6, CalledOne DEF CheckInit, Called, With, Checked, Placed
      <4> QED
        BY <2>0, <2>3, <4>1 DEF Final, Crashes
    <3>7. ASSUME NEW t \in Token \cup {EOF}, ReadStateAssignment(t) PROVE HasSlot(model, i)
      <4> DEFINE s == Nth(StateIds(model), t.n)
      <4>1. t.kind = "assign" /\ pc = "stateAssign"
        BY <3>7 DEF ReadStateAssignment
      <4>2. CASE t.n >= Cardinality(StateIds(model))
        BY <2>0, <2>3, <3>7, <4>2, CalledOne DEF ReadStateAssignment, Called
      <4>3. CASE ~(t.n >= Cardinality(StateIds(model)))
        <5>1. s \in StateIds(model) /\ HasSlot(model, s) /\ s \in DOMAIN model
          BY <2>0, <4>1, <4>3, AssignedLine DEF Final, Crashes
        <5>2. HasInit(s) => HasSlot(model, Abs(model[s].init))
          <6> SUFFICES ASSUME HasInit(s) PROVE HasSlot(model, Abs(model[s].init))
            OBVIOUS
          <6> HIDE DEF s
          <6>1. Abs(model[s].init) \in Nat /\ Abs(model[s].init) <= s
            BY <2>0, <5>1, LinksOfLine DEF HasInit
          <6>2. Abs(model[s].init) < s \/ Abs(model[s].init) = s
            BY <2>0, <5>1, <6>1
          <6> QED
            BY <2>0, <5>1, <6>1, <6>2, EarlierSlots
        <5>3. /\ DOMAIN cur' \subseteq DOMAIN cur \cup {s}
              /\ \/ stack' = <<>>
                 \/ HasInit(s) /\ stack' = <<Abs(model[s].init)>>
          BY <3>7, <4>3 DEF ReadStateAssignment, With, NeedsInitCheck
        <5> QED
          BY <2>0, <2>3, <5>1, <5>2, <5>3, CalledOne DEF Called
      <4> QED
        BY <4>2, <4>3
    <3>8. ASSUME NEW t \in Token \cup {EOF}, ReadInputAssignment(t) PROVE HasSlot(model, i)
      BY <2>0, <2>3, <3>8, CalledOne DEF ReadInputAssignment, Called, With
    <3>9. CASE /\ cur' = cur
               /\ stack' = stack \/ stack' = <<>>
      BY <2>0, <2>3, <3>9, CalledOne DEF Called
    <3>10. CASE \/ ParseModel \/ StatesInitialized \/ FinishStep \/ CheckClaims
                \/ FileEnds \/ Terminated \/ UNCHANGED vars
      BY <3>9, <3>10 DEF ParseModel, StatesInitialized, FinishStep, CheckClaims, FileEnds,
         Terminated, vars
    <3>11. ASSUME NEW t \in Token \cup {EOF}, ReadToken(t), ~ReadStateAssignment(t),
                  ~ReadInputAssignment(t)
           PROVE  HasSlot(model, i)
      BY <3>9, <3>11 DEF ReadToken, ReadWitness, ReadClaim, ReadStateHeader, ReadStateEnd,
         ReadInputHeader, ReadSkipped, ReadInputEnd, ReadNoAssignment
    <3> QED
      BY <3>1, <3>2, <3>3, <3>4, <3>5, <3>6, <3>7, <3>8, <3>10, <3>11 DEF Next, Step
  <2> QED
    BY <2>1, <2>2, <2>3 DEF Supported
<1> QED
  BY <1>1, <1>2, ProgressInvariant, FilledInvariant, PlacedInvariant, PTL DEF Spec

----------------------------------------------------------------------------
(* Widths.                                                                 *)

CurFits == \A i \in DOMAIN cur : cur[i] \in ValuesOfSort(model, model[i])
PendingFits == pc = "initCheck" => WidthsOk(pending, Checked)

\* Values are of their lines' sorts, also those of the next states, and those of
\* an assignment that waits for an initial value.
Fitting ==
    /\ CurFits
    /\ \A s \in DOMAIN nxt : s \in StateIds(model) /\ nxt[s] \in ValuesOfSort(model, model[s])
    /\ PendingFits

\* A combination takes its elements from the sets it is given.
LEMMA CombinationsFit ==
    ASSUME NEW V, NEW f \in Combinations(V), NEW i \in DOMAIN V PROVE f[i] \in V[i]
<1> DEFINE arrays == {j \in DOMAIN V : IsArray(model[j])}
<1>1. PICK a \in Selections(V, arrays), b \in Selections(V, DOMAIN V \ arrays) :
        f = [j \in DOMAIN V |-> IF j \in arrays THEN a[j] ELSE b[j]]
  BY DEF Combinations
<1>2. /\ \A j \in arrays : a[j] \in V[j]
      /\ \A j \in DOMAIN V \ arrays : b[j] \in V[j]
  BY DEF Selections
<1> HIDE DEF arrays
<1> QED
  BY <1>1, <1>2

\* Lines with the same widths have the same values.
LEMMA SameValues ==
    ASSUME NEW T, NEW m, NEW l, SameWidths(T, m, l),
           IsBitvec(m) <=> ~IsArray(m), IsBitvec(l) <=> ~IsArray(l)
    PROVE  ValuesOfSort(T, m) = ValuesOfSort(T, l)
BY DEF SameWidths, ValuesOfSort

\* A new value has the width of its line.
LEMMA FreshFits ==
    ASSUME model \in Models, WellSorted(model), NEW i \in ValueLines(model),
           NEW x \in FreshValues(model[i])
    PROVE  x \in ValuesOfSort(model, model[i])
<1>1. CASE IsArray(model[i])
  <2>1. \/ x = NewArray
        \/ \E n \in Seeds : x = [NewArray EXCEPT !.random_seed = n]
    BY <1>1 DEF FreshValues, RandomValues, ZeroValue
  <2>2. x \in ArraysOver(ElementWidthOf(model, model[i]))
    BY <2>1, NewFits, BoundsAssumption
  <2> QED
    BY <1>1, <2>2 DEF ValuesOfSort
<1>2. CASE ~IsArray(model[i])
  <2>1. Width(model[i]) \in 1 .. MaxBitWidth
    BY <1>2, SortsOf, ModelWired, MaxBitWidthAssumption
  <2>2. 0 \in Values(Width(model[i]))
    BY <2>1, ValuesOf
  <2>3. x \in Values(Width(model[i]))
    BY <1>2, <2>2 DEF FreshValues, RandomValues, ZeroValue
  <2> QED
    BY <1>2, <2>3 DEF ValuesOfSort
<1> QED
  BY <1>1, <1>2

\* What is assigned to a state has the width of the state.
LEMMA AssignedFits ==
    ASSUME model \in Models, WellSorted(model), CurFits, NEW s \in ValueLines(model),
           NEW t, WidthsOk(t, s)
    PROVE  /\ Assigned(t, s) \in ValuesOfSort(model, model[s])
           /\ IsArray(model[s]) => ArrayAt(s) \in ValuesOfSort(model, model[s])
<1> DEFINE w == ElementWidth(s)
<1>0. IsBitvec(model[s]) <=> ~IsArray(model[s])
  BY SortsOf, ModelWired
<1>1. CASE IsBitvec(model[s])
  BY <1>0, <1>1 DEF Assigned, WidthsOk, ValuesOfSort
<1>2. CASE IsArray(model[s])
  <2>1. w \in 1 .. MaxBitWidth
    BY <1>2, SortsOf, ModelWired, MaxBitWidthAssumption DEF ElementWidth
  <2>2. ArrayAt(s) \in ArraysOver(w)
    <3>1. s \in DOMAIN cur => cur[s] \in ArraysOver(w)
      BY <1>2 DEF CurFits, ValuesOfSort, ElementWidth
    <3> QED
      BY <3>1, NewFits DEF ArrayAt
  <2>3. t.val \in Values(w) /\ 0 \in Int
    BY <1>0, <1>2 DEF WidthsOk
  <2>4. SetConstInit(ArrayAt(s), t.val) \in ArraysOver(w)
    BY <2>1, <2>2, <2>3, ArraysFit
  <2>5. IndexOf(t) # AllIndices => t.idx \in Int
    <3>1. IndexWidth(s) \in 1 .. MaxBitWidth
      <4>1. WidthsKnown(model, model[s]) /\ MaxBitWidth \in Nat
        BY ModelWired, MaxBitWidthAssumption DEF WellSorted
      <4> QED
        BY <1>0, <1>2, <4>1 DEF WidthsKnown, IndexWidth
    <3>2. Values(IndexWidth(s)) \subseteq Int
      BY <3>1, ValuesOf
    <3> QED
      BY <1>0, <1>2, <3>2 DEF WidthsOk
  <2>6. IndexOf(t) # AllIndices => Write(ArrayAt(s), t.idx, t.val) \in ArraysOver(w)
    BY <2>1, <2>2, <2>3, <2>5, ArraysFit
  <2>7. Assigned(t, s) \in ArraysOver(w)
    BY <1>0, <1>2, <2>4, <2>6 DEF Assigned
  <2> QED
    BY <1>2, <2>2, <2>7 DEF ValuesOfSort, ElementWidth
<1> QED
  BY <1>0, <1>1, <1>2

\* An initial value has the width of its state.
LEMMA InitialFits ==
    ASSUME model \in Models, WellSorted(model), CurFits, NEW s \in StateIds(model), HasInit(s),
           Abs(model[s].init) \in DOMAIN cur
    PROVE  InitValue(model, cur, s) \in ValuesOfSort(model, model[s])
<1> DEFINE a == model[s].init
           x == ArgValue(model, cur, a)
<1>1. /\ s \in DOMAIN model /\ s \in ValueLines(model) /\ a # 0 /\ a \in Int
      /\ Abs(a) \in ValueLines(model)
  BY ModelWired, LinksOfLine DEF HasInit, Wired, Line
<1>2. /\ IsBitvec(model[s]) <=> ~IsArray(model[s])
      /\ IsBitvec(model[Abs(a)]) <=> ~IsArray(model[Abs(a)])
  BY <1>1, SortsOf, ModelWired
<1>3. x \in ValuesOfSort(model, model[Abs(a)])
  BY <1>1, ArgFits, ModelWired DEF CurFits
<1>4. \/ SameWidths(model, model[s], model[Abs(a)])
      \/ IsArray(model[s]) /\ IsElement(model, model[Abs(a)], model[s])
  BY <1>1 DEF WellSorted
<1>5. InitValue(model, cur, s) = IF IsArray(model[s]) /\ IsBitvec(model[Abs(a)])
                                 THEN SetConstInit(NewArray, x) ELSE x
  BY DEF InitValue
<1> HIDE DEF a, x
<1>6. CASE IsArray(model[s]) /\ IsBitvec(model[Abs(a)])
  <2> DEFINE w == ElementWidthOf(model, model[s])
  <2>1. w \in 1 .. MaxBitWidth /\ 0 \in Int
    BY <1>1, <1>6, SortsOf, ModelWired, MaxBitWidthAssumption
  <2>2. x \in Values(w)
    BY <1>2, <1>3, <1>4, <1>6 DEF ValuesOfSort, IsElement, SameWidths
  <2>3. SetConstInit(NewArray, x) \in ArraysOver(w)
    <3>1. NewArray \in ArraysOver(w)
      BY NewFits
    <3> HIDE DEF w
    <3> QED
      BY <2>1, <2>2, <3>1, ArraysFit
  <2> QED
    BY <1>5, <1>6, <2>3 DEF ValuesOfSort
<1>7. CASE ~(IsArray(model[s]) /\ IsBitvec(model[Abs(a)]))
  <2>1. SameWidths(model, model[s], model[Abs(a)])
    BY <1>2, <1>4, <1>7 DEF IsElement
  <2> QED
    BY <1>2, <1>3, <1>5, <1>7, <2>1, SameValues
<1> QED
  BY <1>6, <1>7

\* So has a next value.
LEMMA NextFits ==
    ASSUME model \in Models, WellSorted(model), CurFits, ToSimulate = {},
           NEW s \in StateIds(model), HasNext(s)
    PROVE  ArgValue(model, cur, model[s].next) \in ValuesOfSort(model, model[s])
<1> DEFINE a == model[s].next
<1>1. /\ s \in DOMAIN model /\ s \in ValueLines(model) /\ a # 0 /\ a \in Int
      /\ Abs(a) \in ValueLines(model)
      /\ \E j \in DOMAIN model : Abs(a) < j
  BY ModelWired, LinksOfLine DEF HasNext, Wired, Line
<1>2. Abs(a) \in DOMAIN cur
  <2>1. HasSlot(model, Abs(a))
    <3>1. Abs(a) \in Nat
      BY <1>1, ModelWired
    <3> QED
      BY <1>1, <3>1, EarlierSlots
  <2> QED
    BY <1>1, <2>1 DEF ToSimulate, Unset
<1>3. /\ IsBitvec(model[s]) <=> ~IsArray(model[s])
      /\ IsBitvec(model[Abs(a)]) <=> ~IsArray(model[Abs(a)])
  BY <1>1, SortsOf, ModelWired
<1>4. ArgValue(model, cur, a) \in ValuesOfSort(model, model[Abs(a)])
  BY <1>1, <1>2, ArgFits, ModelWired DEF CurFits
<1>5. SameWidths(model, model[s], model[Abs(a)])
  BY <1>1 DEF WellSorted
<1> QED
  BY <1>3, <1>4, <1>5, SameValues

\* One more value.
LEMMA WithFits ==
    ASSUME CurFits, model' = model, NEW i, NEW x \in ValuesOfSort(model, model[i]),
           cur' = With(cur, i, x)
    PROVE  CurFits'
BY DEF CurFits, With, ValuesOfSort, ElementWidthOf

LEMMA SameFits == ASSUME CurFits, UNCHANGED <<model, cur>> PROVE CurFits'
BY DEF CurFits, ValuesOfSort, ElementWidthOf

\* Evaluating lines and initialising.
LEMMA ComputingKeepsFits ==
    ASSUME Progress, Filled, Placed, Initialising, Supported, WellSorted(model), Fitting,
           ParseModel \/ Simulate \/ InitState \/ InitStateFromLine
             \/ StatesInitialized \/ InitInputs \/ SimulateLine \/ CheckInit \/ CheckClaims
    PROVE  CurFits'
<1> USE DEF Goto, Fail, Call, At, control, results, witness
<1>0. /\ model \in Models /\ CurFits /\ Wired(model)
      /\ stack # <<>> => pc \in Evaluating
      /\ stack \in Seq(ValueLines(model))
      /\ ValueLines(model) \subseteq DOMAIN model
      /\ StateIds(model) \subseteq ValueLines(model)
      /\ InputIds(model) \subseteq ValueLines(model)
      /\ Operators(model) \subseteq ValueLines(model)
  BY ModelWired DEF Filled, Placed, Fitting
<1>1. CASE \/ ParseModel \/ SimulateReturn \/ SimulateRecur \/ SimulateDie
           \/ StatesInitialized \/ SimulateLine \/ CheckClaims
  <2>1. UNCHANGED <<model, cur>>
    BY <1>1 DEF ParseModel, SimulateReturn, SimulateRecur, SimulateDie, StatesInitialized,
       SimulateLine, CheckClaims
  <2> QED
    BY <1>0, <2>1, SameFits
<1>2. CASE SimulateCompute
  <2> DEFINE h == Head(stack)
  <2>1. /\ model' = model /\ h \in Operators(model) /\ stack # <<>>
        /\ ArgsSet(model, cur, h)
        /\ cur' = With(cur, h, Compute(model, cur, h))
    BY <1>2 DEF SimulateCompute
  <2> HIDE DEF h
  <2>2. h \in DOMAIN model /\ model[h].tag \notin Unsupported
    <3>1. pc \notin {"model"} \cup Final
      BY <1>0, <2>1 DEF Evaluating, Final, Crashes
    <3> QED
      BY <1>0, <2>1, <3>1 DEF Supported
  <2>3. ASSUME NEW n \in DOMAIN model[h].args
        PROVE  cur[Abs(model[h].args[n])] \in ValuesOfSort(model, Arg(model, model[h], n))
    BY <1>0, <2>1 DEF ArgsSet, CurFits, Arg
  <2>4. Compute(model, cur, h) \in ValuesOfSort(model, model[h])
    BY <1>0, <2>1, <2>2, <2>3, ComputeFits
  <2> QED
    BY <1>0, <2>1, <2>4, WithFits
<1>3. CASE InitState
  <2>1. FirstUnset \in ValueLines(model)
    BY <1>0, <1>3, FirstUnsetOf DEF InitState
  <2>2. model' = model
    BY <1>3 DEF InitState
  <2>3. CASE HasInit(FirstUnset)
    BY <1>0, <1>3, <2>2, <2>3, SameFits DEF InitState
  <2>4. CASE ~HasInit(FirstUnset)
    <3>1. PICK x \in FreshValues(model[FirstUnset]) : cur' = With(cur, FirstUnset, x)
      BY <1>3, <2>4 DEF InitState
    <3>2. x \in ValuesOfSort(model, model[FirstUnset])
      BY <1>0, <2>1, FreshFits
    <3> QED
      BY <1>0, <2>2, <3>1, <3>2, WithFits
  <2> QED
    BY <2>3, <2>4
<1>4. CASE InitStateFromLine
  <2>1. /\ pc = "initEval" /\ stack = <<>> /\ model' = model
        /\ cur' = With(cur, FirstUnset, InitValue(model, cur, FirstUnset))
    BY <1>4 DEF InitStateFromLine
  <2>2. /\ FirstUnset \in StateIds(model) /\ HasInit(FirstUnset)
        /\ Abs(model[FirstUnset].init) \in DOMAIN cur
    BY <2>1, CalledOne DEF Initialising, Target, Called
  <2>3. InitValue(model, cur, FirstUnset) \in ValuesOfSort(model, model[FirstUnset])
    BY <1>0, <2>2, InitialFits
  <2> QED
    BY <1>0, <2>1, <2>3, WithFits
<1>5. CASE InitInputs
  <2>1. model' = model
    BY <1>5 DEF InitInputs
  <2>2. CASE UNCHANGED cur
    BY <1>0, <2>1, <2>2, SameFits
  <2>3. CASE ~UNCHANGED cur
    <3> DEFINE U == Unset(InputIds(model))
               V == [i \in U |-> FreshValues(model[i])]
    <3>1. PICK f \in Combinations(V) :
            cur' = [i \in DOMAIN cur \cup U |-> IF i \in U THEN f[i] ELSE cur[i]]
      BY <1>5, <2>3 DEF InitInputs
    <3>2. U \subseteq ValueLines(model) /\ DOMAIN V = U /\ \A i \in U : V[i] = FreshValues(model[i])
      BY <1>0 DEF Unset
    <3> HIDE DEF U, V
    <3>3. ASSUME NEW i \in U PROVE f[i] \in ValuesOfSort(model, model[i])
      <4>1. f[i] \in FreshValues(model[i])
        BY <3>1, <3>2, CombinationsFit
      <4> QED
        BY <1>0, <3>2, <4>1, FreshFits
    <3> QED
      BY <1>0, <2>1, <3>1, <3>3 DEF CurFits, ValuesOfSort, ElementWidthOf
  <2> QED
    BY <2>2, <2>3
<1>6. CASE CheckInit
  <2>1. model' = model /\ pc = "initCheck"
    BY <1>6 DEF CheckInit
  <2>2. CASE UNCHANGED cur
    BY <1>0, <2>1, <2>2, SameFits
  <2>3. CASE ~UNCHANGED cur
    <3>1. cur' = With(cur, Checked, Assigned(pending, Checked))
      BY <1>6, <2>3 DEF CheckInit, Checked
    <3>2. Checked \in ValueLines(model) /\ WidthsOk(pending, Checked)
      BY <1>0, <2>1 DEF Placed, Fitting, PendingFits
    <3>3. Assigned(pending, Checked) \in ValuesOfSort(model, model[Checked])
      BY <1>0, <3>2, AssignedFits
    <3> QED
      BY <1>0, <2>1, <3>1, <3>3, WithFits
  <2> QED
    BY <2>2, <2>3
<1> QED
  BY <1>1, <1>2, <1>3, <1>4, <1>5, <1>6 DEF Simulate

\* The end of a frame and the transition.
LEMMA FramesKeepFitting ==
    ASSUME Progress, Filled, WellSorted(model), Fitting, FinishStep \/ Transition
    PROVE  Fitting'
<1> USE DEF Goto, control, results, witness
<1>0. model \in Models /\ CurFits
  BY DEF Filled, Fitting
<1>1. CASE FinishStep
  <2>1. /\ UNCHANGED <<model, cur>> /\ pc' # "initCheck" /\ ToSimulate = {}
        /\ nxt' = nxt \/ nxt' \in NextStates
    BY <1>1 DEF FinishStep
  <2>2. CurFits'
    BY <1>0, <2>1, SameFits
  <2>3. CASE nxt' = nxt
    BY <2>1, <2>2, <2>3 DEF Fitting, PendingFits, ValuesOfSort, ElementWidthOf
  <2>4. CASE nxt' \in NextStates
    <3> DEFINE V == [s \in StateIds(model) |->
                       IF HasNext(s) THEN {ArgValue(model, cur, model[s].next)}
                       ELSE FreshValues(model[s])]
    <3>1. nxt' \in Combinations(V) /\ DOMAIN V = StateIds(model)
      BY <2>4 DEF NextStates
    <3>2. DOMAIN nxt' = StateIds(model)
      BY <2>4, NextStatesDomain
    <3>3. ASSUME NEW s \in StateIds(model)
          PROVE  nxt'[s] \in ValuesOfSort(model, model[s])
      <4>1. nxt'[s] \in V[s]
        <5> HIDE DEF V
        <5> QED
          BY <3>1, CombinationsFit
      <4>2. CASE HasNext(s)
        BY <1>0, <2>1, <4>1, <4>2, NextFits
      <4>3. CASE ~HasNext(s)
        <5>1. nxt'[s] \in FreshValues(model[s]) /\ s \in ValueLines(model)
          BY <1>0, <4>1, <4>3, ModelWired
        <5> QED
          BY <1>0, <5>1, FreshFits
      <4> QED
        BY <4>2, <4>3
    <3> QED
      BY <2>1, <2>2, <3>2, <3>3 DEF Fitting, PendingFits, ValuesOfSort, ElementWidthOf
  <2> QED
    BY <2>1, <2>3, <2>4
<1>2. CASE Transition
  <2>1. /\ model' = model /\ pc' # "initCheck" /\ pc = "transition"
        /\ cur' = [s \in StateIds(model) |-> nxt[s]] /\ nxt' = NoValues
    BY <1>2 DEF Transition
  <2>2. DOMAIN nxt = StateIds(model) /\ DOMAIN NoValues = {}
    BY <2>1 DEF Progress, NoValues
  <2> QED
    BY <2>1, <2>2 DEF Fitting, PendingFits, CurFits, ValuesOfSort, ElementWidthOf
<1> QED
  BY <1>1, <1>2

\* Reading.
LEMMA ReadingKeepsFitting ==
    ASSUME Filled, Placed, WellSorted(model), Fitting,
           NEW t \in Token \cup {EOF}, ReadToken(t)
    PROVE  CurFits' /\ PendingFits'
<1> USE DEF Goto, Fail, Call, At
<1>0. /\ model \in Models /\ CurFits
      /\ UNCHANGED <<model, mode, k, nxt>>
      /\ StateIds(model) \subseteq ValueLines(model)
      /\ InputIds(model) \subseteq ValueLines(model)
      /\ ValueLines(model) \subseteq DOMAIN model
  BY ReadingOf, ModelWired DEF Filled, Fitting
<1>1. CASE ReadStateAssignment(t)
  <2> DEFINE s == Nth(StateIds(model), t.n)
  <2>1. CASE UNCHANGED cur /\ pc' # "initCheck"
    BY <1>0, <2>1, SameFits DEF PendingFits
  <2>2. CASE ~(UNCHANGED cur /\ pc' # "initCheck")
    <3>1. /\ t.kind = "assign" /\ ~(t.n >= Cardinality(StateIds(model)))
          /\ WidthsOk(t, s)
          /\ \/ UNCHANGED cur
             \/ cur' = With(cur, s, Assigned(t, s))
             \/ IsArray(model[s]) /\ cur' = With(cur, s, ArrayAt(s))
          /\ pc' = "initCheck" => pending' = t
      BY <1>1, <2>2 DEF ReadStateAssignment
    <3>2. s \in ValueLines(model)
      BY <1>0, <3>1, AssignedLine
    <3>3. PendingFits'
      BY <1>0, <3>1 DEF PendingFits, Checked, WidthsOk, IndexWidth, ElementWidth, IndexWidthOf,
         ElementWidthOf
    <3> HIDE DEF s
    <3>4. /\ Assigned(t, s) \in ValuesOfSort(model, model[s])
          /\ IsArray(model[s]) => ArrayAt(s) \in ValuesOfSort(model, model[s])
      BY <1>0, <3>1, <3>2, AssignedFits
    <3>5. CurFits'
      BY <1>0, <3>1, <3>4, SameFits, WithFits
    <3> QED
      BY <3>3, <3>5
  <2> QED
    BY <2>1, <2>2
<1>2. CASE ReadInputAssignment(t)
  <2> DEFINE i == Nth(InputIds(model), t.n)
  <2>0. pc' # "initCheck"
    BY <1>2 DEF ReadInputAssignment
  <2>1. CASE UNCHANGED cur
    BY <1>0, <2>0, <2>1, SameFits DEF PendingFits
  <2>2. CASE ~UNCHANGED cur
    <3>1. /\ t.kind = "assign" /\ ~(t.n >= Cardinality(InputIds(model)))
          /\ WidthsOk(t, i) /\ ~IsArray(model[i])
          /\ cur' = With(cur, i, t.val)
      BY <1>2, <2>2 DEF ReadInputAssignment
    <3>2. i \in ValueLines(model)
      BY <1>0, <3>1, AssignedLine
    <3> HIDE DEF i
    <3>3. t.val \in ValuesOfSort(model, model[i])
      BY <1>0, <3>1, <3>2, SortsOf, ModelWired DEF WidthsOk, ValuesOfSort
    <3> QED
      BY <1>0, <2>0, <3>1, <3>3, WithFits DEF PendingFits
  <2> QED
    BY <2>1, <2>2
<1>3. CASE \/ ReadWitness(t) \/ ReadClaim(t) \/ ReadStateHeader(t) \/ ReadStateEnd(t)
           \/ ReadInputHeader(t) \/ ReadSkipped(t) \/ ReadInputEnd(t)
  <2>1. UNCHANGED cur /\ pc' # "initCheck"
    BY <1>3 DEF ReadWitness, HeaderLabel, ReadClaim, ReadStateHeader, ReadStateEnd,
       ReadInputHeader, ReadSkipped, ReadInputEnd, ReadNoAssignment
  <2> QED
    BY <1>0, <2>1, SameFits DEF PendingFits
<1> QED
  BY <1>1, <1>2, <1>3 DEF ReadToken

\* Spec => [](WellSorted(model) => Fitting): no line, initialisation, assignment or
\* transition makes a value of another width.
THEOREM FittingInvariant == Spec => [](WellSorted(model) => Fitting)
<1>1. Init => Fitting
  BY DEF Init, NoValues, Fitting, CurFits, PendingFits
<1>2. /\ Progress /\ Filled /\ Placed /\ Initialising /\ Supported /\ [Next]_vars
      /\ (WellSorted(model) => Fitting)
      => (WellSorted(model) => Fitting)'
  <2> SUFFICES ASSUME Progress, Filled, Placed, Initialising, Supported, [Next]_vars,
                      WellSorted(model) => Fitting, WellSorted(model)'
               PROVE  Fitting'
    OBVIOUS
  <2>1. model' = model /\ (~FinishStep /\ ~Transition => nxt' = nxt)
    <3>1. CASE FinishStep \/ Transition
      BY <3>1 DEF FinishStep, Transition, control
    <3> QED
      BY <3>1, StepsWithin DEF Within, Unchanging
  <2>2. WellSorted(model) /\ Fitting
    BY <2>1
  <2>3. ASSUME CurFits', PendingFits', nxt' = nxt PROVE Fitting'
    BY <2>1, <2>2, <2>3 DEF Fitting, StateIds, LinesOf, ValuesOfSort, ElementWidthOf
  <2>4. CASE FinishStep \/ Transition
    BY <2>2, <2>4, FramesKeepFitting
  <2>5. CASE FileEnds \/ Terminated \/ UNCHANGED vars
    <3>1. UNCHANGED <<model, cur, nxt, pc, pending>>
      BY <2>5 DEF FileEnds, Terminated, vars, control, witness
    <3>2. CurFits'
      BY <2>2, <3>1, SameFits DEF Fitting
    <3>3. PendingFits'
      BY <2>2, <3>1 DEF Fitting, PendingFits, Checked, WidthsOk, IndexWidth, ElementWidth,
         IndexWidthOf, ElementWidthOf
    <3> QED
      BY <2>3, <3>1, <3>2, <3>3
  <2>6. ASSUME NEW t \in Token \cup {EOF}, ReadToken(t) PROVE Fitting'
    BY <2>2, <2>3, <2>6, ReadingKeepsFitting, ReadingOf
  <2>7. CASE /\ \/ ParseModel \/ Simulate \/ InitState \/ InitStateFromLine \/ StatesInitialized
                \/ InitInputs \/ SimulateLine \/ CheckInit \/ CheckClaims
             /\ ~FinishStep /\ ~Transition
    <3>1. CurFits'
      BY <2>2, <2>7, ComputingKeepsFits
    <3>2. pc' = "initCheck" => pc = "initCheck" /\ pending' = pending
      BY <2>7 DEF ParseModel, Simulate, SimulateReturn, SimulateRecur, SimulateCompute,
         SimulateDie, InitState, InitStateFromLine, StatesInitialized, InitInputs, SimulateLine,
         CheckInit, CheckClaims, Goto, Fail, Call, At, witness
    <3>3. PendingFits'
      BY <2>1, <2>2, <3>2 DEF Fitting, PendingFits, Checked, WidthsOk, IndexWidth, ElementWidth,
         IndexWidthOf, ElementWidthOf
    <3> QED
      BY <2>1, <2>3, <2>7, <3>1, <3>3
  <2> QED
    BY <2>4, <2>5, <2>6, <2>7 DEF Next, Step
<1> QED
  BY <1>1, <1>2, ProgressInvariant, FilledInvariant, PlacedInvariant, InitialisingInvariant,
     SupportedInvariant, PTL DEF Spec

\* The mode never changes, and the ends of file and witness are noted.
Noted == mode \in Modes /\ eof \in BOOLEAN /\ ended \in BOOLEAN

\* Spec => []Noted
THEOREM NotedInvariant == Spec => []Noted
<1>1. Init => Noted
  BY DEF Init, Noted
<1>2. Noted /\ [Next]_vars => Noted'
  <2> SUFFICES ASSUME Noted, [Next]_vars PROVE Noted'
    OBVIOUS
  <2> USE DEF Noted, control, witness
  <2>1. CASE ParseModel \/ Simulate \/ InitState \/ InitStateFromLine \/ StatesInitialized
    BY <2>1 DEF ParseModel, Simulate, SimulateReturn, SimulateRecur, SimulateCompute,
       SimulateDie, InitState, InitStateFromLine, StatesInitialized
  <2>2. CASE InitInputs \/ SimulateLine \/ FinishStep \/ Transition \/ CheckInit \/ CheckClaims
    BY <2>2 DEF InitInputs, SimulateLine, FinishStep, Transition, CheckInit, CheckClaims
  <2>3. CASE FileEnds \/ Terminated \/ UNCHANGED vars
    BY <2>3 DEF FileEnds, Terminated, vars
  <2>4. ASSUME NEW t \in Token \cup {EOF}, ReadToken(t) PROVE Noted'
    BY <2>4 DEF ReadToken, ReadWitness, ReadClaim, ReadStateHeader, ReadStateAssignment,
       ReadStateEnd, ReadInputHeader, ReadSkipped, ReadInputAssignment, ReadInputEnd,
       ReadNoAssignment, Consume, PutBack
  <2> QED
    BY <2>1, <2>2, <2>3, <2>4 DEF Next, Step
<1> QED
  BY <1>1, <1>2, PTL DEF Spec

\* Spec => []Claimed
THEOREM ClaimedInvariant == Spec => []Claimed
<1>1. Init => Claimed
  BY DEF Init, Claimed
<1> QED
  BY <1>1, NextKeepsClaimed, ProgressInvariant, CountsInvariant, PTL DEF Spec

\* Spec => [](WellSorted(model) => TypeOK): in current_state there are values of the
\* lines' widths only, and none past its end.
THEOREM Typing == Spec => [](WellSorted(model) => TypeOK)
<1>1. /\ Progress /\ Counts /\ Placed /\ Claimed /\ Supported /\ Noted
      /\ (WellSorted(model) => Fitting)
      => (WellSorted(model) => TypeOK)
  <2> SUFFICES ASSUME Progress, Counts, Placed, Claimed, Supported, Noted, Fitting
               PROVE  TypeOK
    OBVIOUS
  <2>1. model \in Models /\ mode \in Modes /\ pc \in Labels /\ k \in Nat
    BY DEF Counts, Noted, Progress
  <2>2. DOMAIN cur \subseteq {i \in ValueLines(model) : HasSlot(model, i)}
    BY DEF Placed, Supported
  <2>3. ASSUME NEW i \in DOMAIN cur, IsBitvec(model[i])
        PROVE  cur[i] \in Values(Width(model[i]))
    <3>1. cur[i] \in ValuesOfSort(model, model[i])
      BY DEF Fitting, CurFits
    <3> QED
      BY <2>3, <3>1 DEF ValuesOfSort, IsArray, IsBitvec
  <2>4. /\ DOMAIN nxt \subseteq StateIds(model)
        /\ stack \in Seq(ValueLines(model))
        /\ eof \in BOOLEAN /\ ended \in BOOLEAN /\ counted \in BOOLEAN
        /\ claims \subseteq Bads
        /\ reached \in [Bads -> Int]
    BY DEF Fitting, Placed, Noted, Progress, Claimed, Counts
  <2>5. unreached \in Nat
    <3>1. IsFiniteSet({b \in Bads : reached[b] < 0})
      BY <2>1, FiniteBads, FS_Subset
    <3> QED
      BY <3>1, FS_CardinalityType DEF Counts, ReachedExact
  <2>6. violated \in Int /\ time \in Int
    <3>1. time \in Int
      BY <2>1 DEF Progress, Over
    <3> QED
      BY <3>1 DEF Counts, ReachedExact
  <2> QED
    BY <2>1, <2>2, <2>3, <2>4, <2>5, <2>6 DEF TypeOK
<1> QED
  BY <1>1, ProgressInvariant, CountsInvariant, PlacedInvariant, ClaimedInvariant,
     SupportedInvariant, NotedInvariant, FittingInvariant, PTL

----------------------------------------------------------------------------
(* Initial values and values handed over, as the transition system wants   *)
(* them.                                                                   *)

\* The value of the state is the one its init line determines.
FromInit(s) == Abs(model[s].init) \in DOMAIN cur /\ cur[s] = InitValue(model, cur, s)

\* In the first frame an initialised state that has a value has its initial value,
\* except while it is compared; then it has none yet or is an array, still empty.
InitialKept ==
    k = 0 /\ pc \notin Final =>
        /\ \A s \in DOMAIN cur \cap StateIds(model) :
              HasInit(s) /\ ~(pc = "initCheck" /\ s = Checked) => FromInit(s)
        /\ pc = "initCheck" =>
             /\ IsArray(model[Checked]) => ~ArrayInit(Checked)
             /\ \A q \in DOMAIN cur \cap StateIds(model) : q <= Checked
             /\ Checked \in DOMAIN cur =>
                  /\ IsArray(model[Checked])
                  /\ cur[Checked] = NewArray \/ FromInit(Checked)

\* In a later frame a state with a next line has the value of that line in the
\* frame before; it is kept in next_state until the transition.
Handed ==
    /\ pc = "transition" =>
         \A s \in StateIds(model) : HasNext(s) => nxt[s] = ArgValue(model, val, model[s].next)
    /\ k > 0 /\ ~Over /\ pc # "transition" =>
         \A s \in StateIds(model) : HasNext(s) =>
            s \in DOMAIN cur /\ cur[s] = ArgValue(model, val, model[s].next)

\* An initial value stays what it is while the line it is taken from keeps its value.
LEMMA FromInitKept ==
    ASSUME model' = model, NEW s, FromInit(s), s \in DOMAIN cur, cur'[s] = cur[s],
           Abs(model[s].init) \in DOMAIN cur',
           cur'[Abs(model[s].init)] = cur[Abs(model[s].init)]
    PROVE  FromInit(s)'
<1>1. ArgValue(model', cur', model'[s].init) = ArgValue(model, cur, model[s].init)
  BY DEF ArgValue
<1>2. InitValue(model', cur', s) = InitValue(model, cur, s)
  BY <1>1 DEF InitValue
<1> QED
  BY <1>2 DEF FromInit

\* A step that adds values of other lines, or of states as their init lines want.
LEMMA InitialGrows ==
    ASSUME InitialKept, model' = model, k' = k, pc' \notin Final => pc \notin Final,
           pc' # "initCheck",
           pc = "initCheck" => pc' \in Final,
           \A i \in DOMAIN cur : i \in DOMAIN cur' /\ cur'[i] = cur[i],
           \A s \in (DOMAIN cur' \ DOMAIN cur) \cap StateIds(model) : HasInit(s) => FromInit(s)'
    PROVE  InitialKept'
<1> SUFFICES ASSUME k' = 0, pc' \notin Final,
                    NEW s \in DOMAIN cur' \cap StateIds(model), HasInit(s)
             PROVE  FromInit(s)'
  BY DEF InitialKept, HasInit
<1>1. CASE s \in DOMAIN cur
  <2>1. FromInit(s)
    BY <1>1 DEF InitialKept
  <2> QED
    BY <1>1, <2>1, FromInitKept DEF FromInit
<1>2. CASE s \notin DOMAIN cur
  BY <1>2
<1> QED
  BY <1>1, <1>2

\* Evaluating lines.
LEMMA SimulateKeepsInitial ==
    ASSUME Filled, Placed, InitialKept, Simulate PROVE InitialKept'
<1> USE DEF control, results, witness, Simulate, SimulateReturn, SimulateRecur, SimulateCompute,
            SimulateDie, Goto, Fail
<1>1. /\ UNCHANGED <<model, k, pending>> /\ pc \in Evaluating /\ pc' \in {pc, "error"}
      /\ Operators(model) \cap StateIds(model) = {} /\ stack # <<>>
  BY ModelWired DEF Filled
<1>2. /\ \A i \in DOMAIN cur : i \in DOMAIN cur' /\ cur'[i] = cur[i]
      /\ DOMAIN cur' \ DOMAIN cur \subseteq Operators(model)
  BY DEF With
<1>3. pc \notin Final /\ "error" \in Final
  BY <1>1 DEF Evaluating, Final, Crashes
<1>4. CASE pc' # "initCheck"
  BY <1>1, <1>2, <1>3, <1>4, InitialGrows
<1>5. CASE pc' = "initCheck"
  <2>1. pc = "initCheck"
    BY <1>1, <1>5
  <2>2. Checked' = Checked /\ Checked \in StateIds(model) /\ StateIds(model)' = StateIds(model)
    BY <1>1, <2>1 DEF Checked, Placed
  <2>3. ASSUME NEW s \in DOMAIN cur, FromInit(s) PROVE FromInit(s)'
    BY <1>1, <1>2, <2>3, FromInitKept DEF FromInit
  <2>4. DOMAIN cur' \cap StateIds(model) = DOMAIN cur \cap StateIds(model)
    BY <1>1, <1>2
  <2> SUFFICES ASSUME k' = 0
               PROVE  /\ \A s \in DOMAIN cur' \cap StateIds(model) :
                            HasInit(s)' /\ s # Checked => FromInit(s)'
                      /\ IsArray(model[Checked]) => ~ArrayInit(Checked)
                      /\ \A q \in DOMAIN cur' \cap StateIds(model) : q <= Checked
                      /\ Checked \in DOMAIN cur' =>
                            /\ IsArray(model[Checked])
                            /\ cur'[Checked] = NewArray \/ FromInit(Checked)'
    BY <1>1, <1>5, <2>2 DEF InitialKept, ArrayInit, HasInit
  <2>5. k = 0 /\ \A s : HasInit(s)' = HasInit(s)
    BY <1>1 DEF HasInit
  <2>6. /\ \A s \in DOMAIN cur \cap StateIds(model) : HasInit(s) /\ s # Checked => FromInit(s)
        /\ IsArray(model[Checked]) => ~ArrayInit(Checked)
        /\ \A q \in DOMAIN cur \cap StateIds(model) : q <= Checked
        /\ Checked \in DOMAIN cur =>
              /\ IsArray(model[Checked])
              /\ cur[Checked] = NewArray \/ FromInit(Checked)
    BY <1>3, <2>1, <2>5 DEF InitialKept
  <2>7. ASSUME NEW s \in DOMAIN cur' \cap StateIds(model), HasInit(s)', s # Checked
        PROVE  FromInit(s)'
    BY <2>3, <2>4, <2>5, <2>6, <2>7
  <2>8. ASSUME Checked \in DOMAIN cur'
        PROVE  IsArray(model[Checked]) /\ (cur'[Checked] = NewArray \/ FromInit(Checked)')
    <3>1. Checked \in DOMAIN cur
      BY <2>2, <2>4, <2>8
    <3>2. FromInit(Checked) => FromInit(Checked)'
      <4> DEFINE s == Checked
      <4>1. ASSUME FromInit(s) PROVE FromInit(s)'
        <5>1. s' = s /\ s \in DOMAIN cur
          BY <2>2, <3>1
        <5>2. ArgValue(model', cur', model'[s].init) = ArgValue(model, cur, model[s].init)
          BY <1>1, <1>2, <4>1 DEF ArgValue, FromInit
        <5>3. InitValue(model', cur', s) = InitValue(model, cur, s)
          BY <1>1, <5>2 DEF InitValue
        <5> HIDE DEF s
        <5> QED
          BY <1>1, <1>2, <4>1, <5>1, <5>3 DEF FromInit
      <4> QED
        BY <4>1
    <3> QED
      BY <1>2, <2>2, <2>6, <3>1, <3>2
  <2> QED
    BY <2>4, <2>6, <2>7, <2>8
<1> QED
  BY <1>4, <1>5

\* What passes the comparison is the initial value.
LEMMA ComparedIsInitial ==
    ASSUME Filled, Placed, Initialising, WellSorted(model), Fitting, InitialKept,
           CheckInit, pc' \notin Final
    PROVE  /\ Abs(model[Checked].init) \in DOMAIN cur \ {Checked}
           /\ cur' = With(cur, Checked, InitValue(model, cur, Checked))
<1> DEFINE s == Checked
           t == pending
           a == model[s].init
           x == ArgValue(model, cur, a)
           whole == IsArray(model[s]) /\ IndexOf(t) = AllIndices
<1>1. /\ model \in Models /\ pc = "initCheck" /\ stack = <<>> /\ k = 0 /\ pc \notin Final
      /\ s \in StateIds(model) /\ HasInit(s)
  BY DEF CheckInit, At, Filled, Placed, Final, Crashes
<1>2. Abs(a) \in DOMAIN cur
  BY <1>1, CalledOne DEF Initialising, Target, Called
<1>3. /\ s \in DOMAIN model /\ s \in ValueLines(model) /\ a # 0 /\ a \in Int
      /\ Abs(a) \in ValueLines(model)
  BY <1>1, ModelWired, LinksOfLine DEF HasInit, Wired, Line
<1>4. /\ IsBitvec(model[s]) <=> ~IsArray(model[s])
      /\ IsBitvec(model[Abs(a)]) <=> ~IsArray(model[Abs(a)])
      /\ IsBitvec(model[Abs(a)]) => Width(model[Abs(a)]) \in 1 .. MaxBitWidth
  BY <1>1, <1>3, SortsOf, ModelWired, MaxBitWidthAssumption
<1>5. x \in ValuesOfSort(model, model[Abs(a)])
  BY <1>1, <1>2, <1>3, ArgFits, ModelWired DEF Fitting, CurFits
<1>6. /\ IsArray(model[s]) => ~IsArray(model[Abs(a)])
      /\ s \in DOMAIN cur => IsArray(model[s]) /\ (cur[s] = NewArray \/ FromInit(s))
  BY <1>1 DEF InitialKept, ArrayInit
<1>7. IsBitvec(model[Abs(a)])
  <2>1. IsBitvec(model[s]) => IsBitvec(model[Abs(a)])
    BY <1>3, <1>4 DEF WellSorted, SameWidths
  <2> QED
    BY <1>4, <1>6, <2>1
<1>8. x # None
  <2>1. x \in Values(Width(model[Abs(a)]))
    BY <1>4, <1>5, <1>7 DEF ValuesOfSort
  <2>2. x \in Nat
    BY <1>4, <1>7, <2>1, ValuesOf
  <2> QED
    BY <2>2 DEF None
<1>9. /\ ~(IsArray(model[s]) /\ whole # IsBitvec(model[Abs(a)]))
      /\ (IF IsBitvec(model[s]) \/ whole THEN x ELSE Check(x, t.idx)) \in {t.val, None}
      /\ cur' = With(cur, s, Assigned(t, s))
  BY DEF CheckInit, Goto, Fail, Final, Crashes, Checked
<1>10. x = t.val /\ (IsArray(model[s]) => whole)
  <2>1. IsArray(model[s]) => whole
    BY <1>7, <1>9
  <2> QED
    BY <1>4, <1>8, <1>9, <2>1
<1>11. Assigned(t, s) = InitValue(model, cur, s)
  <2>1. CASE IsBitvec(model[s])
    BY <1>4, <1>10, <2>1 DEF Assigned, InitValue
  <2>2. CASE IsArray(model[s])
    <3>1. InitValue(model, cur, s) = SetConstInit(NewArray, x)
      BY <1>7, <2>2 DEF InitValue
    <3>2. ArrayAt(s) \in {NewArray, SetConstInit(NewArray, x)}
      BY <1>6, <3>1 DEF ArrayAt, FromInit
    <3>3. SetConstInit(ArrayAt(s), x) = SetConstInit(NewArray, x)
      BY <3>2 DEF SetConstInit, Copy, NewArray
    <3>4. Assigned(t, s) = SetConstInit(ArrayAt(s), t.val)
      BY <1>4, <1>10, <2>2 DEF Assigned
    <3> QED
      BY <1>10, <3>1, <3>3, <3>4
  <2> QED
    BY <1>4, <2>1, <2>2
<1>12. Abs(a) # s
  BY <1>2, <1>4, <1>6, <1>7
<1> QED
  BY <1>2, <1>9, <1>11, <1>12

\* A new value of a state that no other assigned state precedes.
LEMMA LastAssigned ==
    ASSUME model \in Models, model' = model, NEW s \in StateIds(model),
           NEW p \in DOMAIN cur \cap StateIds(model), p # s, p <= s, HasInit(p), FromInit(p),
           NEW x, cur' = With(cur, s, x)
    PROVE  FromInit(p)'
<1>1. /\ p \in Nat /\ s \in Nat /\ Abs(model[p].init) \in Nat
      /\ Abs(model[p].init) <= p
  BY ModelWired, LinksOfLine DEF HasInit
<1>2. Abs(model[p].init) # s /\ Abs(model[p].init) \in DOMAIN cur
  BY <1>1 DEF FromInit
<1> QED
  BY <1>2, FromInitKept DEF With

\* The comparison.
LEMMA CheckKeepsInitial ==
    ASSUME Filled, Placed, Initialising, WellSorted(model), Fitting, InitialKept, CheckInit
    PROVE  InitialKept'
<1>1. /\ model \in Models /\ pc = "initCheck" /\ model' = model /\ pc' # "initCheck"
      /\ pc \notin Final /\ Checked \in StateIds(model) /\ k = 0 /\ HasInit(Checked)
  BY DEF CheckInit, At, Filled, Placed, Final, Crashes, Goto, Fail, control
<1> SUFFICES ASSUME pc' \notin Final,
                    NEW p \in DOMAIN cur' \cap StateIds(model), HasInit(p)
             PROVE  FromInit(p)'
  BY <1>1 DEF InitialKept, HasInit
<1> DEFINE s == Checked
           a == Abs(model[s].init)
           x == InitValue(model, cur, s)
<1>2. a \in DOMAIN cur \ {s} /\ cur' = With(cur, s, x)
  BY ComparedIsInitial
<1> HIDE DEF s
<1>3. CASE p = s
  <2>1. cur'[a] = cur[a] /\ a \in DOMAIN cur' /\ cur'[s] = x
    BY <1>2 DEF With
  <2>2. ArgValue(model', cur', model'[s].init) = ArgValue(model, cur, model[s].init)
    BY <1>1, <2>1 DEF ArgValue
  <2>3. InitValue(model', cur', s) = x
    BY <1>1, <2>2 DEF InitValue
  <2> QED
    BY <1>1, <1>3, <2>1, <2>3 DEF FromInit
<1>4. CASE p # s
  <2>1. p \in DOMAIN cur
    BY <1>2, <1>4 DEF With
  <2>2. FromInit(p) /\ p <= s
    BY <1>1, <1>4, <2>1 DEF InitialKept, s
  <2>3. s \in StateIds(model)
    BY <1>1 DEF s
  <2> QED
    BY <1>1, <1>2, <1>4, <2>1, <2>2, <2>3, LastAssigned
<1> QED
  BY <1>3, <1>4

\* The assignments of an orderly witness.
LEMMA AssignmentKeepsInitial ==
    ASSUME Progress, Filled, Placed, Orderly, Comparable(model), InitialKept,
           NEW t \in Token \cup {EOF}, ReadToken(t), ReadStateAssignment(t)
    PROVE  InitialKept'
<1>0. PICK s : s = Nth(StateIds(model), t.n)
  OBVIOUS
<1>1. /\ model \in Models /\ UNCHANGED <<model, k>> /\ k \in Nat
      /\ pc = "stateAssign" /\ pc \notin Final /\ t.kind = "assign" /\ Follows(t)
      /\ StateIds(model) \subseteq DOMAIN model
  BY ReadingOf, ModelWired
     DEF Filled, Progress, ReadStateAssignment, At, Final, Crashes
<1> SUFFICES ASSUME k = 0, pc' \notin Final PROVE InitialKept'
  BY <1>1 DEF InitialKept
<1>2. /\ ~(t.n >= Cardinality(StateIds(model)))
      /\ \/ /\ NeedsInitCheck(s) /\ pc' = "initCheck" /\ pending' = t
            /\ cur' = IF IsArray(model[s]) THEN With(cur, s, ArrayAt(s)) ELSE cur
         \/ /\ ~NeedsInitCheck(s) /\ pc' = "stateAssign"
            /\ cur' = With(cur, s, Assigned(t, s))
  BY <1>0 DEF ReadStateAssignment, Goto, Fail, Call, Final, Crashes
<1>3. s \in StateIds(model) /\ t.n < Cardinality(StateIds(model))
  BY <1>0, <1>1, <1>2, AssignedLine
<1>4. /\ \A q \in DOMAIN cur \cap StateIds(model) : q <= s /\ (q = s => IsArray(model[s]))
      /\ IsArray(model[s]) => ~ArrayInit(s)
  BY <1>0, <1>1, <1>3 DEF Follows
<1>5. pc' = "initCheck" => Checked' = s
  BY <1>0, <1>1, <1>2 DEF Checked
<1>6. \A p \in DOMAIN cur \cap StateIds(model) : HasInit(p) => FromInit(p)
  BY <1>1 DEF InitialKept
<1>7. CASE pc' = "initCheck"
  <2>1. /\ \A i \in DOMAIN cur : i \in DOMAIN cur' /\ cur'[i] = cur[i]
        /\ DOMAIN cur' \subseteq DOMAIN cur \cup {s}
        /\ s \in DOMAIN cur' \ DOMAIN cur => IsArray(model[s]) /\ cur'[s] = NewArray
    BY <1>2, <1>7 DEF With, ArrayAt
  <2>2. ASSUME NEW p \in DOMAIN cur, FromInit(p) PROVE FromInit(p)'
    BY <1>1, <2>1, <2>2, FromInitKept DEF FromInit
  <2>3. HasInit(s) /\ s \in Nat
    BY <1>1, <1>2, <1>3, <1>7, ModelWired DEF NeedsInitCheck
  <2>4. \A p \in DOMAIN cur' \cap StateIds(model) : HasInit(p) /\ p # s => FromInit(p)'
    BY <1>6, <2>1, <2>2
  <2>5. \A q \in DOMAIN cur' \cap StateIds(model) : q <= s
    BY <1>4, <2>1, <2>3
  <2>6. s \in DOMAIN cur' => IsArray(model[s]) /\ (cur'[s] = NewArray \/ FromInit(s)')
    BY <1>3, <1>4, <1>6, <2>1, <2>2, <2>3
  <2>7. FromInit(Checked)' <=> FromInit(s)'
    BY <1>5, <1>7 DEF FromInit
  <2> QED
    BY <1>1, <1>4, <1>5, <1>7, <2>4, <2>5, <2>6, <2>7
    DEF InitialKept, HasInit, ArrayInit, StateIds, LinesOf
<1>8. CASE pc' # "initCheck"
  <2>1. ~HasInit(s) /\ cur' = With(cur, s, Assigned(t, s))
    BY <1>1, <1>2, <1>3, <1>8 DEF NeedsInitCheck, Comparable, HasInit, HasNext
  <2>2. ASSUME NEW p \in DOMAIN cur' \cap StateIds(model), HasInit(p) PROVE FromInit(p)'
    <3>1. p # s /\ p \in DOMAIN cur /\ p <= s /\ FromInit(p)
      BY <1>4, <1>6, <2>1, <2>2 DEF With
    <3> QED
      BY <1>1, <1>3, <2>1, <2>2, <3>1, LastAssigned
  <2> QED
    BY <1>1, <1>8, <2>2 DEF InitialKept, HasInit
<1> QED
  BY <1>7, <1>8

\* A model with slots for all values, and a witness that follows the order.
Faithful == Comparable(model) /\ WellSorted(model) /\ InOrder

\* Spec => [](Faithful => InitialKept)
THEOREM InitialInvariant == Spec => [](Faithful => InitialKept)
<1>1. Init => InitialKept
  BY DEF Init, NoValues, InitialKept
<1>2. /\ Progress /\ Filled /\ Placed /\ Initialising /\ (WellSorted(model) => Fitting)
      /\ (Faithful => InitialKept) /\ [Next]_vars
      => (Faithful => InitialKept)'
  <2> SUFFICES ASSUME Progress, Filled, Placed, Initialising, WellSorted(model) => Fitting,
                      Faithful => InitialKept, [Next]_vars, Faithful'
               PROVE  InitialKept'
    OBVIOUS
  <2> USE DEF Goto, Fail, Call, At, control, results, witness
  <2>1. model' = model /\ mode' = mode
    <3>1. CASE FinishStep \/ Transition
      BY <3>1 DEF FinishStep, Transition
    <3> QED
      BY <3>1, StepsWithin DEF Within, Unchanging
  <2>2. Faithful /\ Fitting /\ InitialKept /\ model \in Models
    BY <2>1 DEF Faithful, InOrder, Filled
  <2>3. CASE Simulate
    BY <2>2, <2>3, SimulateKeepsInitial
  <2>4. CASE CheckInit
    BY <2>2, <2>4, CheckKeepsInitial DEF Faithful
  <2>5. ASSUME NEW t \in Token \cup {EOF}, ReadToken(t), ReadStateAssignment(t)
        PROVE  InitialKept'
    BY <2>2, <2>5, ReadingOf, AssignmentKeepsInitial DEF Faithful, InOrder
  <2>6. CASE \/ ParseModel \/ StatesInitialized \/ SimulateLine \/ CheckClaims
    <3>1. /\ UNCHANGED <<cur, k>> /\ pc' # "initCheck" /\ pc # "initCheck" /\ pc \notin Final
      BY <2>6 DEF ParseModel, StatesInitialized, SimulateLine, CheckClaims, Final, Crashes
    <3> QED
      BY <2>1, <2>2, <3>1, InitialGrows
  <2>7. CASE FinishStep
    <3>1. /\ cur' = cur /\ pc' # "initCheck" /\ pc = "simulate" /\ k' \in {k, k + 1} /\ k \in Nat
      BY <2>7 DEF FinishStep, Progress
    <3>2. CASE k' = k
      BY <2>1, <2>2, <3>1, <3>2, InitialGrows DEF Final, Crashes
    <3>3. CASE k' # k
      BY <3>1, <3>3 DEF InitialKept
    <3> QED
      BY <3>2, <3>3
  <2>8. CASE Transition
    BY <2>8 DEF Transition, Placed, InitialKept
  <2>9. CASE InitState
    <3>1. /\ k' = k /\ pc' # "initCheck" /\ pc = "initStates" /\ pc \notin Final
          /\ FirstUnset \notin DOMAIN cur
      BY <2>2, <2>9, FirstUnsetOf DEF InitState, Final, Crashes
    <3>2. \/ cur' = cur
          \/ ~HasInit(FirstUnset) /\ \E x : cur' = With(cur, FirstUnset, x)
      BY <2>9 DEF InitState
    <3> QED
      BY <2>1, <2>2, <3>1, <3>2, InitialGrows DEF With
  <2>10. CASE InitStateFromLine
    <3> DEFINE s == FirstUnset
               a == Abs(model[s].init)
    <3>1. /\ k' = k /\ pc' # "initCheck" /\ pc = "initEval" /\ pc \notin Final /\ stack = <<>>
          /\ cur' = With(cur, s, InitValue(model, cur, s))
      BY <2>10 DEF InitStateFromLine, Final, Crashes
    <3>2. s \notin DOMAIN cur /\ a \in DOMAIN cur
      BY <2>2, <3>1, FirstUnsetOf, CalledOne DEF Placed, Initialising, Target, Called
    <3> HIDE DEF s
    <3>3. /\ cur'[a] = cur[a] /\ a \in DOMAIN cur' /\ cur'[s] = InitValue(model, cur, s)
          /\ \A i \in DOMAIN cur : i \in DOMAIN cur' /\ cur'[i] = cur[i]
          /\ DOMAIN cur' \ DOMAIN cur = {s}
      BY <3>1, <3>2 DEF With
    <3>4. ArgValue(model', cur', model'[s].init) = ArgValue(model, cur, model[s].init)
      BY <2>1, <3>3 DEF ArgValue
    <3>5. InitValue(model', cur', s) = InitValue(model, cur, s)
      BY <2>1, <3>4 DEF InitValue
    <3>6. \A p \in (DOMAIN cur' \ DOMAIN cur) \cap StateIds(model) : FromInit(p)'
      BY <2>1, <3>3, <3>5 DEF FromInit
    <3> QED
      BY <2>1, <2>2, <3>1, <3>3, <3>6, InitialGrows
  <2>11. CASE InitInputs
    <3>1. /\ k' = k /\ pc' # "initCheck" /\ pc = "initInputs" /\ pc \notin Final
          /\ \A i \in DOMAIN cur : i \in DOMAIN cur' /\ cur'[i] = cur[i]
          /\ DOMAIN cur' \ DOMAIN cur \subseteq InputIds(model)
      BY <2>11 DEF InitInputs, Final, Crashes, Unset
    <3>2. InputIds(model) \cap StateIds(model) = {}
      BY DEF InputIds, StateIds, LinesOf
    <3> QED
      BY <2>1, <2>2, <3>1, <3>2, InitialGrows
  <2>12. CASE FileEnds \/ Terminated \/ UNCHANGED vars
    BY <2>2, <2>12 DEF FileEnds, Terminated, vars, InitialKept, HasInit, ArrayInit, Checked,
       FromInit
  <2>13. ASSUME NEW t \in Token \cup {EOF}, ReadToken(t), ReadInputAssignment(t)
         PROVE  InitialKept'
    <3> DEFINE i == Nth(InputIds(model), t.n)
    <3>1. /\ k' = k /\ pc' # "initCheck" /\ pc = "inputAssign" /\ pc \notin Final
          /\ t.kind = "assign"
          /\ \/ cur' = cur
             \/ /\ ~(t.n >= Cardinality(InputIds(model)))
                /\ i \notin DOMAIN cur /\ cur' = With(cur, i, t.val)
      BY <2>13 DEF ReadInputAssignment, Final, Crashes
    <3>2. CASE cur' = cur
      BY <2>1, <2>2, <3>1, <3>2, InitialGrows
    <3>3. CASE cur' # cur
      <4>1. i \in InputIds(model)
        BY <2>2, <3>1, <3>3, AssignedLine, ModelWired
      <4>2. i \notin StateIds(model)
        BY <4>1 DEF InputIds, StateIds, LinesOf
      <4> HIDE DEF i
      <4>3. /\ \A j \in DOMAIN cur : j \in DOMAIN cur' /\ cur'[j] = cur[j]
            /\ DOMAIN cur' \ DOMAIN cur \subseteq {i}
        BY <3>1, <3>3 DEF With
      <4> QED
        BY <2>1, <2>2, <3>1, <4>2, <4>3, InitialGrows
    <3> QED
      BY <3>2, <3>3
  <2>14. ASSUME NEW t \in Token \cup {EOF}, ReadToken(t), ~ReadStateAssignment(t),
                ~ReadInputAssignment(t)
         PROVE  InitialKept'
    <3>1. /\ UNCHANGED <<cur, k>> /\ pc' # "initCheck" /\ pc # "initCheck" /\ pc \notin Final
      BY <2>14 DEF ReadToken, ReadWitness, HeaderLabel, ReadClaim, ReadStateHeader, ReadStateEnd,
         ReadInputHeader, ReadSkipped, ReadInputEnd, ReadNoAssignment, Final, Crashes
    <3> QED
      BY <2>1, <2>2, <3>1, InitialGrows
  <2> QED
    BY <2>3, <2>4, <2>5, <2>6, <2>7, <2>8, <2>9, <2>10, <2>11, <2>12, <2>13, <2>14 DEF Next, Step
<1> QED
  BY <1>1, <1>2, ProgressInvariant, FilledInvariant, PlacedInvariant, InitialisingInvariant,
     FittingInvariant, PTL DEF Spec

\* Within a frame the values handed over stay.
LEMMA HandedStays ==
    ASSUME Handed, UNCHANGED <<model, k, nxt, val>>, k \in Nat, Over => Over', pc # "transition",
           pc' # "transition",
           k > 0 => \A s \in DOMAIN cur \cap StateIds(model) : HasNext(s) =>
                       s \in DOMAIN cur' /\ cur'[s] = cur[s]
    PROVE  Handed'
<1> SUFFICES ASSUME k > 0, ~Over', NEW s \in StateIds(model), HasNext(s)
             PROVE  s \in DOMAIN cur' /\ cur'[s] = ArgValue(model, val, model[s].next)
  BY DEF Handed, HasNext
<1>1. s \in DOMAIN cur /\ cur[s] = ArgValue(model, val, model[s].next)
  BY DEF Handed
<1> QED
  BY <1>1

\* The end of a frame and the transition hand over.
LEMMA FramesHandOver ==
    ASSUME Progress, Handed, FinishStep \/ Transition PROVE Handed'
<1> USE DEF Goto, control, results, witness
<1>1. CASE FinishStep
  <2>1. /\ model' = model
        /\ \/ pc' \in {"crash_negated", "claims", "ok"}
           \/ pc' = "transition" /\ val' = cur /\ nxt' \in NextStates
    BY <1>1 DEF FinishStep
  <2>2. CASE pc' \in {"crash_negated", "claims", "ok"}
    <3>1. Over' /\ pc' # "transition"
      BY <2>2 DEF Over, Final, Crashes
    <3> QED
      BY <3>1 DEF Handed
  <2>3. CASE pc' = "transition"
    <3> DEFINE V == [s \in StateIds(model) |->
                       IF HasNext(s) THEN {ArgValue(model, cur, model[s].next)}
                       ELSE FreshValues(model[s])]
    <3>1. nxt' \in Combinations(V) /\ DOMAIN V = StateIds(model) /\ val' = cur
      BY <2>1, <2>3 DEF NextStates
    <3>2. ASSUME NEW s \in StateIds(model), HasNext(s)
          PROVE  nxt'[s] = ArgValue(model, cur, model[s].next)
      <4>1. nxt'[s] \in V[s]
        <5> HIDE DEF V
        <5> QED
          BY <3>1, CombinationsFit
      <4> QED
        BY <3>2, <4>1
    <3> QED
      BY <2>1, <2>3, <3>1, <3>2 DEF Handed, HasNext
  <2> QED
    BY <2>1, <2>2, <2>3
<1>2. CASE Transition
  <2>1. /\ UNCHANGED <<model, val>> /\ pc = "transition" /\ pc' # "transition"
        /\ cur' = [s \in StateIds(model) |-> nxt[s]]
    BY <1>2 DEF Transition
  <2> QED
    BY <2>1 DEF Handed, HasNext
<1> QED
  BY <1>1, <1>2

\* In a later frame an assignment repeats the value handed over.
LEMMA AssignmentRepeats ==
    ASSUME Filled, Placed, Orderly, WellSorted(model), Fitting, k > 0,
           NEW t \in Token \cup {EOF}, ReadToken(t), ReadStateAssignment(t),
           NEW q \in DOMAIN cur \cap StateIds(model), HasNext(q)
    PROVE  q \in DOMAIN cur' /\ cur'[q] = cur[q]
<1>0. PICK s : s = Nth(StateIds(model), t.n)
  OBVIOUS
<1>1. /\ model \in Models /\ k # 0
      /\ pc = "stateAssign" /\ t.kind = "assign" /\ Follows(t)
      /\ StateIds(model) \subseteq ValueLines(model)
      /\ StateIds(model) \subseteq DOMAIN model
  BY ReadingOf, ModelWired DEF Filled, ReadStateAssignment, At
<1>2. CASE cur' = cur
  BY <1>2
<1>3. CASE cur' # cur
  <2>1. /\ ~(t.n >= Cardinality(StateIds(model)))
        /\ Compatible(t, s) /\ cur' = With(cur, s, Assigned(t, s))
    BY <1>0, <1>1, <1>3 DEF ReadStateAssignment, NeedsInitCheck
  <2>2. s \in StateIds(model) /\ t.n < Cardinality(StateIds(model))
    BY <1>0, <1>1, <2>1, AssignedLine
  <2>3. ~IsArray(model[s])
    BY <1>0, <1>1, <2>2 DEF Follows
  <2>4. IsBitvec(model[s]) /\ Width(model[s]) \in 1 .. MaxBitWidth
    BY <1>1, <2>2, <2>3, SortsOf, ModelWired, MaxBitWidthAssumption
  <2>5. CASE q = s
    <3>1. cur[s] \in {t.val, None}
      BY <2>1, <2>3, <2>4, <2>5 DEF Compatible, Known
    <3>2. cur[s] \in Values(Width(model[s]))
      BY <2>3, <2>5 DEF Fitting, CurFits, ValuesOfSort
    <3>3. cur[s] \in Nat
      BY <2>4, <3>2, ValuesOf
    <3>4. cur[s] = t.val
      BY <3>1, <3>3 DEF None
    <3> QED
      BY <2>1, <2>3, <2>4, <2>5, <3>4 DEF Assigned, With
  <2>6. CASE q # s
    BY <2>1, <2>6 DEF With
  <2> QED
    BY <2>5, <2>6
<1> QED
  BY <1>2, <1>3

\* Spec => [](Faithful => Handed)
THEOREM HandedInvariant == Spec => [](Faithful => Handed)
<1>1. Init => Handed
  BY DEF Init, Handed
<1>2. /\ Progress /\ Filled /\ Placed /\ (WellSorted(model) => Fitting)
      /\ (Faithful => Handed) /\ [Next]_vars
      => (Faithful => Handed)'
  <2> SUFFICES ASSUME Progress, Filled, Placed, WellSorted(model) => Fitting,
                      Faithful => Handed, [Next]_vars, Faithful'
               PROVE  Handed'
    OBVIOUS
  <2> USE DEF Goto, Fail, Call, At, control, results, witness
  <2>1. CASE FinishStep \/ Transition
    <3>1. Faithful
      BY <2>1 DEF FinishStep, Transition, Faithful, InOrder
    <3> QED
      BY <2>1, <3>1, FramesHandOver
  <2>2. CASE ~(FinishStep \/ Transition)
    <3>1. Within
      BY <2>2, StepsWithin
    <3>2. Faithful /\ Fitting /\ Handed /\ model \in Models /\ k \in Nat
      BY <3>1 DEF Within, Unchanging, Faithful, InOrder, Filled, Progress
    <3>3. UNCHANGED <<model, k, nxt, val>> /\ (Over => Over')
      BY <3>1 DEF Within, Unchanging, Progress, Over, Underway, Final, Crashes
    <3>4. CASE FileEnds \/ Terminated \/ UNCHANGED vars
      <4>1. UNCHANGED <<cur, pc>> /\ counted' = counted
        BY <3>4 DEF FileEnds, Terminated, vars
      <4> QED
        BY <3>2, <3>3, <4>1 DEF Handed, Over, HasNext
    <3>5. CASE Step
      <4>1. pc # "transition" /\ pc' # "transition"
        <5>1. CASE ~\E t \in Token \cup {EOF} : ReadToken(t)
          BY <2>2, <3>2, <3>5, <5>1 DEF Step, ParseModel, Simulate, SimulateReturn,
             SimulateRecur, SimulateCompute, SimulateDie, InitState, InitStateFromLine,
             StatesInitialized, InitInputs, SimulateLine, CheckInit, CheckClaims, Filled,
             Evaluating
        <5>2. CASE \E t \in Token \cup {EOF} : ReadToken(t)
          BY <5>2 DEF ReadToken, ReadWitness, HeaderLabel, ReadClaim, ReadStateHeader,
             ReadStateAssignment, ReadStateEnd, ReadInputHeader, ReadSkipped,
             ReadInputAssignment, ReadInputEnd, ReadNoAssignment
        <5> QED
          BY <5>1, <5>2
      <4>2. ASSUME k > 0, NEW q \in DOMAIN cur \cap StateIds(model), HasNext(q)
            PROVE  q \in DOMAIN cur' /\ cur'[q] = cur[q]
        <5>1. CASE CheckInit \/ InitState \/ InitStateFromLine
          BY <4>2, <5>1 DEF CheckInit, InitState, InitStateFromLine, Filled
        <5>2. CASE ParseModel \/ Simulate \/ StatesInitialized \/ SimulateLine \/ CheckClaims
          BY <5>2 DEF ParseModel, Simulate, SimulateReturn, SimulateRecur, SimulateCompute,
             SimulateDie, StatesInitialized, SimulateLine, CheckClaims, With
        <5>3. CASE InitInputs
          BY <5>3 DEF InitInputs, Unset
        <5>4. ASSUME NEW t \in Token \cup {EOF}, ReadToken(t), ReadStateAssignment(t)
              PROVE  q \in DOMAIN cur' /\ cur'[q] = cur[q]
          BY <3>2, <4>2, <5>4, ReadingOf, AssignmentRepeats DEF Faithful, InOrder
        <5>5. ASSUME NEW t \in Token \cup {EOF}, ReadToken(t), ~ReadStateAssignment(t)
              PROVE  q \in DOMAIN cur' /\ cur'[q] = cur[q]
          <6>1. CASE ReadInputAssignment(t)
            BY <6>1 DEF ReadInputAssignment, With
          <6>2. CASE ~ReadInputAssignment(t)
            BY <5>5, <6>2 DEF ReadToken, ReadWitness, ReadClaim, ReadStateHeader,
               ReadStateEnd, ReadInputHeader, ReadSkipped, ReadInputEnd
          <6> QED
            BY <6>1, <6>2
        <5> QED
          BY <2>2, <3>5, <5>1, <5>2, <5>3, <5>4, <5>5 DEF Step
      <4> QED
        BY <3>2, <3>3, <4>1, <4>2, HandedStays
    <3> QED
      BY <3>4, <3>5 DEF Next
  <2> QED
    BY <2>1, <2>2
<1> QED
  BY <1>1, <1>2, ProgressInvariant, FilledInvariant, PlacedInvariant, FittingInvariant,
     PTL DEF Spec

----------------------------------------------------------------------------
(* TransitionSystem.                                                       *)
(*                                                                         *)
(* Its instance TS has its own copy of every operator of Btor2Semantics;   *)
(* each is the same.                                                       *)

\* The operators of lines.
LEMMA SameBasics ==
    /\ \A a : TS!Abs(a) = Abs(a)
    /\ \A l : TS!IsArray(l) = IsArray(l)
    /\ \A l : TS!IsBitvec(l) = IsBitvec(l)
    /\ \A l : TS!Width(l) = Width(l)
    /\ \A T, l, n : TS!Arg(T, l, n) = Arg(T, l, n)
    /\ \A T, l : TS!IndexWidthOf(T, l) = IndexWidthOf(T, l)
    /\ \A T, l : TS!ElementWidthOf(T, l) = ElementWidthOf(T, l)
    /\ \A p : TS!Truth(p) = Truth(p)
    /\ TS!None = None
    /\ TS!Constants = Constants
    /\ TS!UnaryTags = UnaryTags
BY DEF TS!Abs, TS!IsArray, TS!IsBitvec, TS!Width, TS!Arg, TS!IndexWidthOf, TS!ElementWidthOf,
   TS!Truth, TS!None, TS!Constants, TS!UnaryTags, TS!Unary, TS!Reductions, TS!Extensions,
   Abs, IsArray, IsBitvec, Width, Arg, IndexWidthOf, ElementWidthOf,
   Truth, None, Constants, UnaryTags, Unary, Reductions, Extensions

\* Those of bit-vectors: arithmetic and shifts,
LEMMA SameArithmetic ==
    /\ \A w : TS!Values(w) = Values(w)
    /\ \A w, a : /\ TS!Fit(w, a) = Fit(w, a) /\ TS!Bit(w, a) = Bit(w, a)
                 /\ TS!Sign(w, a) = Sign(w, a)
                 /\ TS!SumBelow(w, a) = SumBelow(w, a)
                 /\ TS!bv_not(w, a) = bv_not(w, a) /\ TS!bv_neg(w, a) = bv_neg(w, a)
                 /\ TS!bv_inc(w, a) = bv_inc(w, a) /\ TS!bv_dec(w, a) = bv_dec(w, a)
                 /\ TS!Magnitude(w, a) = Magnitude(w, a)
    /\ \A w, a, b : /\ TS!bv_add(w, a, b) = bv_add(w, a, b)
                    /\ TS!bv_sub(w, a, b) = bv_sub(w, a, b)
                    /\ TS!bv_mul(w, a, b) = bv_mul(w, a, b)
                    /\ TS!bv_udiv(w, a, b) = bv_udiv(w, a, b)
                    /\ TS!bv_urem(w, a, b) = bv_urem(w, a, b)
                    /\ TS!bv_concat(w, a, b) = bv_concat(w, a, b)
                    /\ TS!bv_slice(w, a, b) = bv_slice(w, a, b)
                    /\ TS!bv_sext(w, a, b) = bv_sext(w, a, b)
                    /\ TS!bv_sll(w, a, b) = bv_sll(w, a, b)
                    /\ TS!bv_srl(w, a, b) = bv_srl(w, a, b)
                    /\ TS!bv_sra(w, a, b) = bv_sra(w, a, b)
BY DEF TS!Values, TS!Fit, TS!Bit, TS!Sign, TS!SumBelow, TS!bv_not, TS!bv_neg, TS!bv_inc, TS!bv_dec,
   TS!Magnitude, TS!bv_add, TS!bv_sub, TS!bv_mul, TS!bv_udiv, TS!bv_urem, TS!bv_concat,
   TS!bv_slice, TS!bv_sext, TS!bv_sll, TS!bv_srl, TS!bv_sra,
   Values, Fit, Bit, Sign, SumBelow, bv_not, bv_neg, bv_inc, bv_dec,
   Magnitude, bv_add, bv_sub, bv_mul, bv_udiv, bv_urem, bv_concat,
   bv_slice, bv_sext, bv_sll, bv_srl, bv_sra

\* the bitwise ones,
LEMMA SameBitwise ==
    \A w, a, b : /\ TS!bv_and(w, a, b) = bv_and(w, a, b)
                 /\ TS!bv_or(w, a, b) = bv_or(w, a, b)
                 /\ TS!bv_xor(w, a, b) = bv_xor(w, a, b)
<1> TAKE w, a, b
<1>1. TS!bv_and(w, a, b) = bv_and(w, a, b)
  BY DEF TS!bv_and, TS!Bitwise, TS!Bit, TS!SumBelow, bv_and, Bitwise, Bit, SumBelow
<1>2. TS!bv_or(w, a, b) = bv_or(w, a, b)
  BY DEF TS!bv_or, TS!Bitwise, TS!Bit, TS!SumBelow, bv_or, Bitwise, Bit, SumBelow
<1>3. TS!bv_xor(w, a, b) = bv_xor(w, a, b)
  BY DEF TS!bv_xor, TS!Bitwise, TS!Bit, TS!SumBelow, bv_xor, Bitwise, Bit, SumBelow
<1> QED
  BY <1>1, <1>2, <1>3

\* and those made of others.
LEMMA SameOthers ==
    /\ \A w, a : /\ TS!bv_redand(w, a) = bv_redand(w, a)
                 /\ TS!bv_redor(w, a) = bv_redor(w, a)
                 /\ TS!bv_redxor(w, a) = bv_redxor(w, a)
                 /\ TS!bv_ult(w, a) = bv_ult(w, a)
                 /\ TS!bv_ulte(w, a) = bv_ulte(w, a)
    /\ \A w, a, b : /\ TS!bv_nand(w, a, b) = bv_nand(w, a, b)
                 /\ TS!bv_nor(w, a, b) = bv_nor(w, a, b)
                 /\ TS!bv_xnor(w, a, b) = bv_xnor(w, a, b)
                 /\ TS!bv_implies(w, a, b) = bv_implies(w, a, b)
                 /\ TS!bv_slt(w, a, b) = bv_slt(w, a, b)
                 /\ TS!bv_slte(w, a, b) = bv_slte(w, a, b)
                 /\ TS!bv_rol(w, a, b) = bv_rol(w, a, b)
                 /\ TS!bv_ror(w, a, b) = bv_ror(w, a, b)
                 /\ TS!bv_sdiv(w, a, b) = bv_sdiv(w, a, b)
                 /\ TS!bv_srem(w, a, b) = bv_srem(w, a, b)
                 /\ TS!bv_smod(w, a, b) = bv_smod(w, a, b)
<1> USE SameArithmetic, SameBitwise, SameBasics
<1>1. \A w, a : /\ TS!bv_redand(w, a) = bv_redand(w, a)
                 /\ TS!bv_redor(w, a) = bv_redor(w, a)
                 /\ TS!bv_redxor(w, a) = bv_redxor(w, a)
                 /\ TS!bv_ult(w, a) = bv_ult(w, a)
                 /\ TS!bv_ulte(w, a) = bv_ulte(w, a)
  BY DEF TS!bv_redand, TS!bv_redor, TS!bv_redxor, TS!bv_ult, TS!bv_ulte,
     bv_redand, bv_redor, bv_redxor, bv_ult, bv_ulte
<1>2. \A w, a, b : /\ TS!bv_nand(w, a, b) = bv_nand(w, a, b)
                 /\ TS!bv_nor(w, a, b) = bv_nor(w, a, b)
                 /\ TS!bv_xnor(w, a, b) = bv_xnor(w, a, b)
                 /\ TS!bv_implies(w, a, b) = bv_implies(w, a, b)
                 /\ TS!bv_rol(w, a, b) = bv_rol(w, a, b)
                 /\ TS!bv_ror(w, a, b) = bv_ror(w, a, b)
  BY DEF TS!bv_nand, TS!bv_nor, TS!bv_xnor, TS!bv_implies, TS!bv_rol, TS!bv_ror,
     bv_nand, bv_nor, bv_xnor, bv_implies, bv_rol, bv_ror
<1>3. \A w, a, b : /\ TS!bv_slt(w, a, b) = bv_slt(w, a, b)
                 /\ TS!bv_slte(w, a, b) = bv_slte(w, a, b)
                 /\ TS!bv_sdiv(w, a, b) = bv_sdiv(w, a, b)
                 /\ TS!bv_srem(w, a, b) = bv_srem(w, a, b)
                 /\ TS!bv_smod(w, a, b) = bv_smod(w, a, b)
  BY <1>1 DEF TS!bv_slt, TS!bv_slte, TS!bv_sdiv, TS!bv_srem, TS!bv_smod,
     bv_slt, bv_slte, bv_sdiv, bv_srem, bv_smod
<1> QED
  BY <1>1, <1>2, <1>3

\* Those of arrays.
LEMMA SameArrays ==
    /\ TS!NewArray = NewArray
    /\ \A m : TS!Copy(m) = Copy(m)
    /\ \A m, x : TS!SetConstInit(m, x) = SetConstInit(m, x)
    /\ \A m, i, w : TS!Element(m, i, w) = Element(m, i, w)
    /\ \A m, i, x : TS!Write(m, i, x) = Write(m, i, x)
    /\ \A m, n, v, w : TS!Equal(m, n, v, w) = Equal(m, n, v, w)
    /\ \A c, t, e : TS!Choose(c, t, e) = Choose(c, t, e)
<1>1. /\ TS!NewArray = NewArray
      /\ \A f, i, x : TS!With(f, i, x) = With(f, i, x)
      /\ \A m : TS!Copy(m) = Copy(m)
  BY SameBasics DEF TS!NewArray, TS!NoData, TS!With, TS!Copy, NewArray, NoData, With, Copy
<1>2. \A m, x : TS!SetConstInit(m, x) = SetConstInit(m, x)
  BY <1>1 DEF TS!SetConstInit, SetConstInit
<1>3. \A m, i, w : TS!Element(m, i, w) = Element(m, i, w)
  BY SameBasics DEF TS!Element, TS!Default, TS!get_random_init, Element, Default, get_random_init
<1>4. \A m, i, x : TS!Write(m, i, x) = Write(m, i, x)
  BY <1>1 DEF TS!Write, Write
<1>5. \A m, n, v, w : TS!Equal(m, n, v, w) = Equal(m, n, v, w)
  <2>1. \A m, n, w : TS!DataIsSubset(m, n, w) = DataIsSubset(m, n, w)
    BY <1>3 DEF TS!DataIsSubset, DataIsSubset
  <2> TAKE m, n, v, w
  <2>2. /\ TS!DataIsSubset(m, n, w) = DataIsSubset(m, n, w)
        /\ TS!DataIsSubset(n, m, w) = DataIsSubset(n, m, w)
        /\ TS!None = None
    BY <2>1, SameBasics
  <2>3. \A S : TS!Cardinality(S) = Cardinality(S)
    BY DEF TS!Cardinality, Cardinality
  <2> QED
    BY <2>2, <2>3 DEF TS!Equal, Equal
<1>6. \A c, t, e : TS!Choose(c, t, e) = Choose(c, t, e)
  BY <1>1 DEF TS!Choose, Choose
<1> QED
  BY <1>1, <1>2, <1>3, <1>4, <1>5, <1>6

\* And so what lines compute.
LEMMA SameCompute ==
    /\ \A T, v, a : TS!ArgValue(T, v, a) = ArgValue(T, v, a)
    /\ \A T, v, s : TS!InitValue(T, v, s) = InitValue(T, v, s)
    /\ \A T, v, i : TS!Compute(T, v, i) = Compute(T, v, i)
<1>1. \A T, v, a : TS!ArgValue(T, v, a) = ArgValue(T, v, a)
  BY SameBasics, SameArithmetic, SameArrays DEF TS!ArgValue, ArgValue
<1>2. \A T, v, s : TS!InitValue(T, v, s) = InitValue(T, v, s)
  BY <1>1, SameBasics, SameArrays DEF TS!InitValue, InitValue
<1>3. \A l : TS!ConstantValue(l) = ConstantValue(l)
  BY SameBasics, SameArithmetic DEF TS!ConstantValue, ConstantValue
<1>4. \A l, w, x : TS!UnaryValue(l, w, x) = UnaryValue(l, w, x)
  <2> TAKE l, w, x
  <2>1. /\ TS!bv_not(w, x) = bv_not(w, x) /\ TS!bv_neg(w, x) = bv_neg(w, x)
        /\ TS!bv_inc(w, x) = bv_inc(w, x) /\ TS!bv_dec(w, x) = bv_dec(w, x)
        /\ TS!bv_slice(x, l.imm[1], l.imm[2]) = bv_slice(x, l.imm[1], l.imm[2])
        /\ TS!bv_sext(w, x, Width(l) - w) = bv_sext(w, x, Width(l) - w)
        /\ TS!Width(l) = Width(l)
    BY SameArithmetic, SameBasics
  <2>2. /\ TS!bv_redand(w, x) = bv_redand(w, x) /\ TS!bv_redor(w, x) = bv_redor(w, x)
        /\ TS!bv_redxor(w, x) = bv_redxor(w, x)
    BY SameOthers
  <2> QED
    BY <2>1, <2>2 DEF TS!UnaryValue, UnaryValue
<1>5. \A l, v, x, y : TS!BinaryValue(l, v, x, y) = BinaryValue(l, v, x, y)
  <2> TAKE l, v, x, y
  <2>1. /\ TS!bv_add(v, x, y) = bv_add(v, x, y) /\ TS!bv_sub(v, x, y) = bv_sub(v, x, y)
        /\ TS!bv_mul(v, x, y) = bv_mul(v, x, y)
        /\ TS!bv_udiv(v, x, y) = bv_udiv(v, x, y) /\ TS!bv_urem(v, x, y) = bv_urem(v, x, y)
        /\ TS!bv_concat(v, x, y) = bv_concat(v, x, y)
        /\ TS!bv_sll(v, x, y) = bv_sll(v, x, y) /\ TS!bv_srl(v, x, y) = bv_srl(v, x, y)
        /\ TS!bv_sra(v, x, y) = bv_sra(v, x, y)
    BY SameArithmetic
  <2>2. /\ TS!bv_and(v, x, y) = bv_and(v, x, y) /\ TS!bv_or(v, x, y) = bv_or(v, x, y)
        /\ TS!bv_xor(v, x, y) = bv_xor(v, x, y)
    BY SameBitwise
  <2>3. /\ TS!bv_ult(x, y) = bv_ult(x, y) /\ TS!bv_ulte(x, y) = bv_ulte(x, y)
        /\ TS!bv_ult(y, x) = bv_ult(y, x) /\ TS!bv_ulte(y, x) = bv_ulte(y, x)
        /\ TS!bv_slt(v, x, y) = bv_slt(v, x, y) /\ TS!bv_slte(v, x, y) = bv_slte(v, x, y)
        /\ TS!bv_slt(v, y, x) = bv_slt(v, y, x) /\ TS!bv_slte(v, y, x) = bv_slte(v, y, x)
    BY SameOthers
  <2>4. /\ TS!bv_nand(v, x, y) = bv_nand(v, x, y) /\ TS!bv_nor(v, x, y) = bv_nor(v, x, y)
        /\ TS!bv_xnor(v, x, y) = bv_xnor(v, x, y) /\ TS!bv_implies(v, x, y) = bv_implies(v, x, y)
        /\ TS!bv_rol(v, x, y) = bv_rol(v, x, y) /\ TS!bv_ror(v, x, y) = bv_ror(v, x, y)
        /\ TS!bv_sdiv(v, x, y) = bv_sdiv(v, x, y) /\ TS!bv_srem(v, x, y) = bv_srem(v, x, y)
        /\ TS!bv_smod(v, x, y) = bv_smod(v, x, y)
    BY SameOthers
  <2> QED
    BY <2>1, <2>2, <2>3, <2>4 DEF TS!BinaryValue, BinaryValue
<1>6. \A T, l, x, y : TS!EqualValue(T, l, x, y) = EqualValue(T, l, x, y)
  BY SameBasics, SameArrays DEF TS!EqualValue, EqualValue
<1>7. \A l, c, x, y : TS!IteValue(l, c, x, y) = IteValue(l, c, x, y)
  BY SameBasics, SameArrays DEF TS!IteValue, IteValue
<1>8. \A T, l, x : TS!OperatorValue(T, l, x) = OperatorValue(T, l, x)
  <2> TAKE T, l, x
  <2> QED
    BY <1>3, <1>4, <1>5, <1>6, <1>7, SameBasics, SameArrays DEF TS!OperatorValue, OperatorValue
<1>9. \A T, v, i : TS!Compute(T, v, i) = Compute(T, v, i)
  BY <1>1, <1>8 DEF TS!Compute, Compute
<1> QED
  BY <1>1, <1>2, <1>9

\* Which lines there are.
LEMMA SameLines ==
    \A T : /\ TS!ValueLines(T) = ValueLines(T) /\ TS!Leaves(T) = Leaves(T)
           /\ TS!Operators(T) = Operators(T) /\ TS!StateIds(T) = StateIds(T)
           /\ \A tag : TS!LinesOf(T, tag) = LinesOf(T, tag)
BY DEF TS!ValueLines, TS!Leaves, TS!Operators, TS!StateIds, TS!LinesOf, TS!NonArguments,
   ValueLines, Leaves, Operators, StateIds, LinesOf, NonArguments

\* The value at an index that is not negative is that of the argument.
LEMMA PlainArgument ==
    ASSUME model \in Models, WellSorted(model), NEW l \in Constraints \cup Bads, ~IsNegated(l)
    PROVE  TS!Holds(model, cur, l) <=> ValueAt(l) # 0
<1> DEFINE a == model[l].args[1]
<1>1. l \in DOMAIN model /\ model[l].tag \in Properties
  BY DEF Constraints, Bads, LinesOf, Properties
<1>2. 1 \in DOMAIN model[l].args
  <2>1. model[l].args \in Seq(Int) /\ Len(model[l].args) = 1
    BY <1>1, ArityOf, ModelWired DEF Wired, Line, Properties
  <2> QED
    BY <2>1
<1>3. a \in Int /\ ~(a < 0) /\ Abs(a) = a
  BY <1>1, <1>2, ArgumentsOf DEF IsNegated, Abs
<1>4. ~IsArray(model[a])
  <2>1. SortsOk(model, model[l])
    BY <1>1 DEF WellSorted
  <2>2. IsBool(Arg(model, model[l], 1))
    BY <1>1, <1>2, <2>1 DEF SortsOk
  <2> QED
    BY <1>3, <2>2 DEF IsBool, IsBitvec, IsArray, Arg
<1>5. ArgValue(model, cur, a) = cur[a]
  BY <1>3, <1>4 DEF ArgValue
<1> QED
  BY <1>5, SameCompute DEF TS!Holds, ValueAt

\* All that InOrder and a model that is Comparable and WellSorted let one rely on
\* when a frame has been simulated.
FrameReady ==
    /\ Faithful /\ model \in Models
    /\ Progress /\ Counts /\ Filled /\ Placed /\ CacheCoherent
    /\ Fitting /\ InitialKept /\ Handed

\* The values of a frame are one of the transition system.
LEMMA FrameOfSystem ==
    ASSUME FrameReady, FinishStep, ~NegativeIndex
    PROVE  /\ TS!Consistent(model, cur)
           /\ TS!WithinSorts(model, cur)
           /\ IF time = -1 THEN TS!Initial(model, cur) ELSE TS!Successor(model, val, cur)
<1>1. /\ model \in Models /\ pc = "simulate" /\ pc \notin Final /\ ~Over /\ ToSimulate = {}
      /\ k \in Nat /\ time = k - 1
  BY DEF FrameReady, FinishStep, Progress, Over, Final, Crashes
<1>2. DOMAIN cur = ValueLines(model)
  <2>1. DOMAIN cur \subseteq ValueLines(model)
    BY DEF FrameReady, Placed
  <2>2. ValueLines(model) \subseteq DOMAIN cur
    BY <1>1 DEF ToSimulate, Unset, FrameReady, Faithful, Comparable
  <2> QED
    BY <2>1, <2>2
<1>3. TS!Consistent(model, cur)
  <2>1. ASSUME NEW i \in Operators(model) PROVE cur[i] = Compute(model, cur, i)
    BY <1>2 DEF FrameReady, CacheCoherent, Operators
  <2> QED
    BY <1>2, <2>1, SameLines, SameCompute DEF TS!Consistent
<1>4. TS!WithinSorts(model, cur)
  <2>1. ASSUME NEW i \in Leaves(model), IsBitvec(model[i])
        PROVE  cur[i] \in Values(Width(model[i]))
    <3>1. i \in DOMAIN cur
      BY <1>1, <1>2, ModelWired
    <3>2. cur[i] \in ValuesOfSort(model, model[i])
      BY <3>1 DEF FrameReady, Fitting, CurFits
    <3> QED
      BY <2>1, <3>2 DEF ValuesOfSort, IsArray, IsBitvec
  <2> QED
    BY <2>1, SameLines, SameBasics, SameArithmetic DEF TS!WithinSorts
<1>5. StateIds(model) \subseteq DOMAIN cur
  BY <1>1, <1>2, ModelWired
<1>6. ASSUME time = -1 PROVE TS!Initial(model, cur)
  <2>1. k = 0
    BY <1>1, <1>6
  <2>2. ASSUME NEW s \in StateIds(model), model[s].init # 0
        PROVE  cur[s] = InitValue(model, cur, s)
    BY <1>1, <1>5, <2>1, <2>2 DEF FrameReady, InitialKept, HasInit, FromInit
  <2> QED
    BY <2>2, SameLines, SameCompute DEF TS!Initial
<1>7. ASSUME time # -1 PROVE TS!Successor(model, val, cur)
  <2>1. k > 0
    BY <1>1, <1>7
  <2>2. ASSUME NEW s \in StateIds(model), model[s].next # 0
        PROVE  cur[s] = ArgValue(model, val, model[s].next)
    BY <1>1, <2>1, <2>2 DEF FrameReady, Handed, HasNext
  <2> QED
    BY <2>2, SameLines, SameCompute DEF TS!Successor
<1> QED
  BY <1>3, <1>4, <1>6, <1>7

\* So is what is recorded of constraints and bad state properties.
LEMMA RecordsOfSystem ==
    ASSUME FrameReady, FinishStep, ~NegativeIndex
    PROVE  /\ violated' = IF violated = -1 /\ TS!Violates(model, cur) THEN k ELSE violated
           /\ reached' = [b \in DOMAIN reached |->
                            IF violated' = -1 /\ reached[b] = -1 /\ TS!Holds(model, cur, b)
                            THEN k ELSE reached[b]]
<1>1. /\ model \in Models /\ WellSorted(model) /\ k \in Nat /\ time = k - 1
      /\ reached \in [Bads -> Int] /\ violated \in -1 .. time
      /\ \A b \in Bads : reached[b] \in -1 .. time
  BY DEF FrameReady, Faithful, FinishStep, Progress, Counts, ReachedExact, Over, Final, Crashes
<1>2. /\ violated' = ViolatedNow
      /\ reached' = [b \in Bads |-> IF b \in HitBads(ViolatedNow) THEN k ELSE reached[b]]
  BY DEF FinishStep
<1>3. violated < 0 <=> violated = -1
  BY <1>1
<1>4. ASSUME violated = -1
      PROVE  /\ TS!Violates(model, cur) <=> \E c \in Constraints : ValueAt(c) = 0
             /\ TS!Violates(model, cur) \/ \A b \in Pending : ~IsNegated(b)
  <2>1. \A c \in Constraints : ~IsNegated(c)
    BY <1>3, <1>4 DEF NegativeIndex
  <2>2. \A c \in Constraints : TS!Holds(model, cur, c) <=> ValueAt(c) # 0
    BY <1>1, <2>1, PlainArgument
  <2>3. TS!Violates(model, cur) <=> \E c \in Constraints : ~TS!Holds(model, cur, c)
    BY SameLines DEF TS!Violates, Constraints
  <2> QED
    BY <1>3, <1>4, <2>2, <2>3 DEF NegativeIndex
<1>5. violated' = IF violated = -1 /\ TS!Violates(model, cur) THEN k ELSE violated
  BY <1>2, <1>3, <1>4 DEF ViolatedNow
<1>6. violated' = -1 <=> violated = -1 /\ ~TS!Violates(model, cur)
  BY <1>1, <1>5
<1>7. ViolatedNow < 0 <=> violated' = -1
  BY <1>1, <1>2, <1>5
<1>8. ASSUME NEW b \in Bads
      PROVE  b \in HitBads(ViolatedNow) <=>
               violated' = -1 /\ reached[b] = -1 /\ TS!Holds(model, cur, b)
  <2>1. reached[b] < 0 <=> reached[b] = -1
    BY <1>1
  <2>2. b \in HitBads(ViolatedNow) <=> violated' = -1 /\ b \in Pending /\ ValueAt(b) # 0
    BY <1>7 DEF HitBads
  <2>3. violated' = -1 /\ b \in Pending => (TS!Holds(model, cur, b) <=> ValueAt(b) # 0)
    BY <1>1, <1>4, <1>6, PlainArgument
  <2> QED
    BY <2>1, <2>2, <2>3 DEF Pending
<1>9. reached' = [b \in DOMAIN reached |->
                    IF violated' = -1 /\ reached[b] = -1 /\ TS!Holds(model, cur, b)
                    THEN k ELSE reached[b]]
  BY <1>1, <1>2, <1>8
<1> QED
  BY <1>5, <1>9

\* A step is a frame of the transition system or none.
LEMMA StepsRefine ==
    ASSUME FrameReady, [Next]_vars PROVE [TS!Frame]_TS!vars
<1> USE DEF results, control
<1>1. CASE FinishStep /\ ~NegativeIndex
  <2>1. /\ model' = model /\ time' = k /\ val' = cur /\ k \in Nat /\ time = k - 1
    BY <1>1 DEF FinishStep, FrameReady, Progress, Over, Final, Crashes
  <2>2. time' = time + 1
    BY <2>1
  <2> QED
    BY <1>1, <2>1, <2>2, FrameOfSystem, RecordsOfSystem DEF TS!Frame
<1>2. CASE FinishStep /\ NegativeIndex
  BY <1>2 DEF FinishStep, TS!vars
<1>3. CASE Transition
  BY <1>3 DEF Transition, TS!vars
<1>4. CASE ~FinishStep /\ ~Transition
  BY <1>4, StepsWithin DEF FrameReady, Within, Unchanging, TS!vars
<1> QED
  BY <1>1, <1>2, <1>3, <1>4

\* Spec => Implements: what btorsim simulates is a run of the transition system, if
\* the models are Comparable and have values that fit, and the witnesses assign in
\* order.  Nothing is assumed of seeds, random values and numbers of frames.
THEOREM Refinement ==
    ASSUME \A T \in Models : Comparable(T) /\ WellSorted(T),
           Orderly \/ Modes \subseteq {"random"}
    PROVE  Spec => Implements
<1>1. Init => TS!Init
  BY DEF Init, TS!Init, TS!NoValues, NoValues, TS!LinesOf, LinesOf
<1>2. Filled /\ Noted => Faithful
  BY DEF Filled, Noted, Faithful, InOrder
<1>3. /\ Filled /\ Noted /\ Progress /\ Counts /\ Placed
      /\ (InOrder => CacheCoherent)
      /\ (WellSorted(model) => Fitting)
      /\ (Faithful => InitialKept) /\ (Faithful => Handed)
      => FrameReady
  BY <1>2 DEF Filled, FrameReady, Faithful
<1>4. FrameReady /\ [Next]_vars => [TS!Frame]_TS!vars
  BY StepsRefine
<1> QED
  BY <1>1, <1>3, <1>4, FilledInvariant, NotedInvariant, ProgressInvariant, CountsInvariant,
     PlacedInvariant, Coherence, FittingInvariant, InitialInvariant, HandedInvariant, PTL
     DEF Spec, Implements, TS!Spec

=============================================================================
