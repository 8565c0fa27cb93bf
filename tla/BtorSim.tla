------------------------------- MODULE BtorSim -------------------------------
(***************************************************************************)
(* btorsim.cpp: the simulator and witness checker.                         *)
(*                                                                         *)
(* After the model is read the program either simulates a number of random *)
(* steps, or reads a witness token by token and follows it.  In each time  *)
(* frame it evaluates every line of the model by recursion over arguments, *)
(* caching values in current_state, and keeps the next state.  The         *)
(* recursion of simulate is the explicit stack of ids here.                *)
(*                                                                         *)
(* One process runs this; what is open is the model, the contents of the   *)
(* witness (every token of the constant set Token may come next, until the *)
(* file ends) and the random values.                                       *)
(***************************************************************************)
EXTENDS Btor2Semantics

CONSTANTS
    Models,       \* the tables btor2parser may have read
    Modes,        \* {"check"}, {"random"} or both: main's checking_mode
    Token,        \* the tokens of a witness
    Seeds,        \* what btorsim_rng_rand may return as a seed for an array
    RandomSteps,  \* the option -r, 20 by default
    MaxFrames,    \* bound: a witness has at most this many frames
    Orderly       \* bound: see Offered

ASSUME BoundsAssumption == /\ RandomSteps \in Nat
                           /\ MaxFrames \in Nat \ {0}
                           /\ Orderly \in BOOLEAN
                           /\ Seeds \subseteq Nat

\* A table is finite and wired up as the parser leaves it; the numbers in a
\* witness are not negative.
ASSUME ModelsAssumption ==
    \A T \in Models : Wired(T) /\ IsFiniteSet(DOMAIN T)
ASSUME TokenAssumption ==
    \A t \in Token : t.kind \in {"claim", "assign"} => t.n \in Nat

VARIABLES
    model,      \* the lines of the model
    mode,       \* "check" or "random"
    pc,         \* what the program does next, or how it ended
    k,          \* the time frame
    cur,        \* current_state, of the lines that have a value
    nxt,        \* next_state, likewise
    stack,      \* the ids simulate has been called with, the innermost first
    peek,       \* the token put back by prev_char, or NoToken
    pending,    \* the state assignment whose initial value is being computed
    eof,        \* the witness file has no more tokens
    ended,      \* found_end_of_witness
    counted,    \* count_witnesses > 0
    claims,     \* claimed_bad_witnesses, as ids of bad lines
    reached,    \* reached_bads: bad line -> time frame, or -1
    unreached,  \* num_unreached_bads
    violated,   \* constraints_violated
    time, val   \* history: the last frame simulated and its values

control == <<model, mode>>
witness == <<peek, eof, pending, ended, counted, claims>>
results == <<reached, unreached, violated, time, val>>
vars == <<control, pc, k, cur, nxt, stack, witness, results>>

NoValues == [i \in {} |-> 0]
NoToken  == [kind |-> "none"]
EOF      == [kind |-> "EOF"]

\* Indices and values of assignments that are no numbers of a fixed width.
NoIndex    == -1
AllIndices == -2

\* The ends of the program.  A crash is an assertion that fails, or in a build
\* without assertions undefined behaviour, which no step follows.
Crashes == {"crash_slot", "crash_negated", "crash_array_init", "crash_array_input"}
Final == {"ok", "error"} \cup Crashes

Reading == {"witness", "props", "stateHeader", "stateAssign", "inputHeader",
            "inputSkip", "inputAssign"}

Init ==
    /\ model \in Models
    /\ mode \in Modes
    /\ pc = "model"
    /\ k = 0
    /\ cur = NoValues /\ nxt = NoValues
    /\ stack = <<>>
    /\ peek = NoToken /\ pending = NoToken
    /\ eof = FALSE /\ ended = FALSE /\ counted = FALSE
    /\ claims = {}
    /\ reached = [b \in LinesOf(model, "bad") |-> -1]
    /\ unreached = Cardinality(LinesOf(model, "bad"))
    /\ violated = -1
    /\ time = -1 /\ val = NoValues

----------------------------------------------------------------------------
(* The model as btorsim indexes it.                                        *)

\* parse_model: num_format_lines is btor2parser_max_id, so that current_state
\* and next_state have no slot for the last line.
num_format_lines(T) == CHOOSE n \in DOMAIN T : \A i \in DOMAIN T : i <= n
HasSlot(T, i) == i < num_format_lines(T)

\* The element of S with n smaller ones: states[n], inputs[n], bads[n].
Nth(S, n) == CHOOSE i \in S : Cardinality({j \in S : j < i}) = n

Least(S) == CHOOSE i \in S : \A j \in S : i <= j

HasInit(s) == model[s].init # 0
HasNext(s) == model[s].next # 0
ArrayInit(s) == HasInit(s) /\ IsArray(model[Abs(model[s].init)])

Goto(label) == pc' = label /\ stack' = <<>>

\* die and parse_error: exit with status 1
Fail == Goto("error")

Unset(S) == S \ DOMAIN cur

\* The state initialize_states comes to next; those the witness set are left alone.
FirstUnset_descending ==
    CHOOSE s \in Unset(StateIds(model)) : \A r \in Unset(StateIds(model)) : s >= r
FirstUnset == Least(Unset(StateIds(model)))

RandomValues(l) ==
    IF IsArray(l) THEN {[NewArray EXCEPT !.random_seed = s] : s \in Seeds}
    ELSE Values(Width(l))

\* The functions that choose an element of V[i] for each i in X, and for each line
\* V has, where bit-vectors and arrays are values of different kinds.
Selections(V, X) == {f \in [X -> UNION {V[i] : i \in X}] : \A i \in X : f[i] \in V[i]}
Combinations(V) ==
    LET arrays == {i \in DOMAIN V : IsArray(model[i])}
    IN  {[i \in DOMAIN V |-> IF i \in arrays THEN a[i] ELSE b[i]] :
           a \in Selections(V, arrays), b \in Selections(V, DOMAIN V \ arrays)}

FreshValues(l) == IF mode = "random" THEN RandomValues(l) ELSE {ZeroValue(l)}

----------------------------------------------------------------------------
\* parse_model, which dies on unsupported lines, and setup_states, which asserts
\* that every state has a slot.
ParseModel ==
    /\ pc = "model"
    /\ Goto(IF \E i \in DOMAIN model : model[i].tag \in Unsupported THEN "error"
            ELSE IF \E s \in StateIds(model) : ~HasSlot(model, s) THEN "crash_slot"
            ELSE IF mode = "random" THEN "initStates" ELSE "witness")
    /\ UNCHANGED <<control, k, cur, nxt, witness, results>>

(* simulate: returns at once if the id has a value, and otherwise computes *)
(* one after recurring over the arguments.                                 *)

Call(id, label) == pc' = label /\ stack' = <<Abs(id)>>

SimulateReturn ==
    /\ stack # <<>>
    /\ Head(stack) \in DOMAIN cur
    /\ stack' = Tail(stack)
    /\ UNCHANGED <<control, pc, k, cur, nxt, witness, results>>

\* The first argument without a value.
MissingArg(i) ==
    LET args == model[i].args
        missing == {n \in DOMAIN args : Abs(args[n]) \notin DOMAIN cur}
    IN  Abs(args[Least(missing)])

SimulateRecur ==
    /\ stack # <<>>
    /\ Head(stack) \notin DOMAIN cur
    /\ ~ArgsSet(model, cur, Head(stack))
    /\ stack' = <<MissingArg(Head(stack))>> \o stack
    /\ UNCHANGED <<control, pc, k, cur, nxt, witness, results>>

SimulateCompute ==
    /\ stack # <<>>
    /\ Head(stack) \notin DOMAIN cur
    /\ Head(stack) \in Operators(model)
    /\ ArgsSet(model, cur, Head(stack))
    /\ cur' = With(cur, Head(stack), Compute(model, cur, Head(stack)))
    /\ stack' = Tail(stack)
    /\ UNCHANGED <<control, pc, k, nxt, witness, results>>

\* A state or an input without a value: "can not randomly simulate operator".
SimulateDie ==
    /\ stack # <<>>
    /\ Head(stack) \notin DOMAIN cur
    /\ Head(stack) \in Leaves(model)
    /\ Fail
    /\ UNCHANGED <<control, k, cur, nxt, witness, results>>

Simulate == SimulateReturn \/ SimulateRecur \/ SimulateCompute \/ SimulateDie

----------------------------------------------------------------------------
(* Initial states and inputs of a frame.                                   *)

\* initialize_states, one state
InitState ==
    /\ pc = "initStates" /\ stack = <<>>
    /\ Unset(StateIds(model)) # {}
    /\ LET s == FirstUnset
       IN  IF HasInit(s)
           THEN Call(model[s].init, "initEval") /\ UNCHANGED cur
           ELSE /\ \E x \in FreshValues(model[s]) : cur' = With(cur, s, x)
                /\ UNCHANGED <<pc, stack>>
    /\ UNCHANGED <<control, k, nxt, witness, results>>

InitStateFromLine ==
    /\ pc = "initEval" /\ stack = <<>>
    /\ LET s == FirstUnset
       IN  cur' = With(cur, s, InitValue(model, cur, s))
    /\ Goto("initStates")
    /\ UNCHANGED <<control, k, nxt, witness, results>>

StatesInitialized ==
    /\ pc = "initStates" /\ stack = <<>>
    /\ Unset(StateIds(model)) = {}
    /\ Goto("initInputs")
    /\ UNCHANGED <<control, k, cur, nxt, witness, results>>

\* initialize_inputs: the whole loop
InitInputs ==
    /\ pc = "initInputs" /\ stack = <<>>
    /\ IF \E i \in InputIds(model) : ~HasSlot(model, i)
       THEN Goto("crash_slot") /\ UNCHANGED cur
       ELSE LET U == Unset(InputIds(model))
            IN  /\ \E f \in Combinations([i \in U |-> FreshValues(model[i])]) :
                      cur' = [i \in DOMAIN cur \cup U |->
                                IF i \in U THEN f[i] ELSE cur[i]]
                /\ Goto("simulate")
    /\ UNCHANGED <<control, k, nxt, witness, results>>

----------------------------------------------------------------------------
(* simulate_step.                                                          *)

ToSimulate == {i \in Unset(ValueLines(model)) : HasSlot(model, i)}

SimulateLine ==
    /\ pc = "simulate" /\ stack = <<>>
    /\ ToSimulate # {}
    /\ Call(Least(ToSimulate), "simulate")
    /\ UNCHANGED <<control, k, cur, nxt, witness, results>>

\* The next state of each state; a copy of the value of its next line.
NextStates ==
    Combinations([s \in StateIds(model) |->
               IF HasNext(s) THEN {ArgValue(model, cur, model[s].next)}
               ELSE FreshValues(model[s])])

\* Constraints and bads index current_state by their argument as it stands:
\* a negated argument is a negative index.
ValueAt(l) == cur[model[l].args[1]]
IsNegated(l) == model[l].args[1] < 0
Constraints == LinesOf(model, "constraint")
Bads        == LinesOf(model, "bad")
Pending     == {b \in Bads : reached[b] < 0}

\* The frame in which a constraint was violated first, after this one.
ViolatedNow ==
    IF violated < 0 /\ \E c \in Constraints : ValueAt(c) = 0 THEN k ELSE violated

\* The bads reached in this frame; v is the value of constraints_violated.
HitBads_before_constraints(v) ==
    IF violated < 0 THEN {b \in Pending : ValueAt(b) # 0} ELSE {}
HitBads(v) == IF v < 0 THEN {b \in Pending : ValueAt(b) # 0} ELSE {}

\* The evaluation of constraints and bads meets a negative index.
NegativeIndex ==
    /\ violated < 0
    /\ \/ \E c \in Constraints : IsNegated(c)
       \/ /\ \A c \in Constraints : ValueAt(c) # 0
          /\ \E b \in Pending : IsNegated(b)

\* The rest of simulate_step, and the loop around it in random_simulation or
\* parse_sat_witness.
FinishStep ==
    /\ pc = "simulate" /\ stack = <<>>
    /\ ToSimulate = {}
    /\ IF NegativeIndex
       THEN Goto("crash_negated") /\ UNCHANGED <<k, nxt, results>>
       ELSE LET hit == HitBads(ViolatedNow)
                last == IF mode = "check" THEN ended
                        ELSE \/ k = RandomSteps
                             \/ ViolatedNow >= 0
                             \/ unreached = Cardinality(hit)
                end == IF mode = "check" THEN "claims" ELSE "ok"
            IN  /\ nxt' \in NextStates
                /\ violated' = ViolatedNow
                /\ reached' = [b \in Bads |-> IF b \in hit THEN k ELSE reached[b]]
                /\ unreached' = unreached - Cardinality(hit)
                /\ time' = k
                /\ val' = cur
                /\ Goto(IF last THEN end ELSE "transition")
                /\ k' = IF last THEN k ELSE k + 1
    /\ UNCHANGED <<control, cur, witness>>

\* transition: all values are dropped, the next states become the current ones
Transition_of_states ==
    /\ pc = "transition" /\ stack = <<>>
    /\ cur' = [i \in DOMAIN cur |-> IF i \in StateIds(model) THEN nxt[i] ELSE cur[i]]
    /\ nxt' = NoValues
    /\ Goto(IF mode = "check" THEN "stateHeader" ELSE "initInputs")
    /\ UNCHANGED <<control, k, witness, results>>
Transition_keeping_next ==
    /\ pc = "transition" /\ stack = <<>>
    /\ cur' = [s \in StateIds(model) |-> nxt[s]]
    /\ UNCHANGED nxt
    /\ Goto(IF mode = "check" THEN "stateHeader" ELSE "initInputs")
    /\ UNCHANGED <<control, k, witness, results>>
Transition ==
    /\ pc = "transition" /\ stack = <<>>
    /\ cur' = [s \in StateIds(model) |-> nxt[s]]
    /\ nxt' = NoValues
    /\ Goto(IF mode = "check" THEN "stateHeader" ELSE "initInputs")
    /\ UNCHANGED <<control, k, witness, results>>

----------------------------------------------------------------------------
(* Reading a witness.                                                      *)

FileEnds ==
    /\ pc \in Reading /\ stack = <<>>
    /\ ~eof
    /\ eof' = TRUE
    /\ UNCHANGED <<control, pc, k, cur, nxt, stack, peek, pending, ended, counted,
                   claims, results>>

\* An orderly witness assigns the states of the first frame in their order, each
\* bit-vector once; an array only there, and unless its init line is an array.
Follows(t) ==
    t.kind = "assign" /\ t.n < Cardinality(StateIds(model)) =>
      LET s == Nth(StateIds(model), t.n)
      IN  /\ k = 0 => \A q \in DOMAIN cur \cap StateIds(model) :
                        q <= s /\ (q = s => IsArray(model[s]))
          /\ IsArray(model[s]) => k = 0 /\ ~ArrayInit(s)

\* The last frame of a bounded witness is not followed by another one.
Offered(t) ==
    /\ pc \in {"inputAssign", "inputSkip"} /\ k + 1 = MaxFrames =>
         t.kind \notin {"#", "@"}
    /\ pc = "stateAssign" /\ Orderly => Follows(t)

NextToken(t) ==
    \/ peek # NoToken /\ t = peek
    \/ peek = NoToken /\ eof /\ t = EOF
    \/ peek = NoToken /\ ~eof /\ t \in Token /\ Offered(t)

At(label) == pc = label /\ stack = <<>>
Consume == peek' = NoToken /\ UNCHANGED eof
PutBack(t) == peek' = t /\ UNCHANGED eof

\* parse_and_check_witness: where the first token of a witness leads; any line
\* that starts none is a comment.
HeaderLabel_at_end(t) == IF t.kind = "sat" THEN "props" ELSE "witness"
HeaderLabel(t) ==
    CASE t = EOF -> "ok"
      [] t.kind = "unsat" -> "error"
      [] t.kind \in {"sat", "#"} /\ counted -> "error"
      [] t.kind = "sat" /\ ~counted -> "props"
      [] t.kind = "#" /\ ~counted   -> "stateHeader"
      [] OTHER -> "witness"

ReadWitness(t) ==
    /\ At("witness")
    /\ ended' = (t = EOF /\ ended)
    /\ counted' = (counted \/ t.kind \in {"sat", "unsat", "#"})
    /\ IF t.kind = "#" THEN PutBack(t) ELSE Consume
    /\ Goto(HeaderLabel(t))
    /\ UNCHANGED <<control, k, cur, nxt, pending, claims, results>>

\* The header of a 'sat' witness: the claimed properties, up to a newline.
ReadClaim(t) ==
    /\ At("props")
    /\ Consume
    /\ IF t.kind = "claim" /\ t.n < Cardinality(Bads)
       THEN claims' = claims \cup {Nth(Bads, t.n)} /\ Goto("props")
       ELSE Goto(IF t.kind = "newline" THEN "stateHeader" ELSE "error")
            /\ UNCHANGED claims
    /\ UNCHANGED <<control, k, cur, nxt, pending, ended, counted, results>>

\* parse_state_part: the header is optional, its number is not.
ReadStateHeader(t) ==
    /\ At("stateHeader")
    /\ IF t.kind = "#"
       THEN Consume /\ (IF t.n = k THEN Goto("stateAssign") ELSE Fail)
       ELSE PutBack(t) /\ Goto("inputHeader")
    /\ UNCHANGED <<control, k, cur, nxt, pending, ended, counted, claims, results>>

\* parse_assignment returns no assignment: after '.', or before a header.
ReadNoAssignment(t, label) ==
    \/ /\ t.kind = "."
       /\ Consume /\ ended' = TRUE /\ Goto(label)
    \/ /\ t.kind \in {"@", "#"}
       /\ PutBack(t) /\ UNCHANGED ended /\ Goto(label)
    \/ /\ t.kind \notin {".", "@", "#", "assign"}
       /\ Consume /\ UNCHANGED ended /\ Fail

IndexWidth(s)   == IndexWidthOf(model, model[s])
ElementWidth(s) == ElementWidthOf(model, model[s])

\* "<pos> <value>" for an array is read as "<pos> [*] <value>".
IndexOf(t) == IF t.idx = NoIndex THEN AllIndices ELSE t.idx

\* The widths of the constant and of the index are those of the sort.
WidthsOk_index_only(t, s) ==
    IsArray(model[s]) /\ IndexOf(t) # AllIndices => t.idx \in Values(IndexWidth(s))
WidthsOk(t, s) ==
    IF IsBitvec(model[s]) THEN t.val \in Values(Width(model[s]))
    ELSE /\ t.val \in Values(ElementWidth(s))
         /\ IndexOf(t) # AllIndices => t.idx \in Values(IndexWidth(s))

ArrayAt(s) == IF s \in DOMAIN cur THEN cur[s] ELSE NewArray

\* The value of the state after the assignment.
Assigned(t, s) ==
    CASE IsBitvec(model[s]) -> t.val
      [] IsArray(model[s]) /\ IndexOf(t) = AllIndices -> SetConstInit(ArrayAt(s), t.val)
      [] OTHER -> Write(ArrayAt(s), t.idx, t.val)

\* After the first frame an assignment repeats what the next line computed; of
\* an array, what is known of it.
Known(t, s) ==
    CASE IsBitvec(model[s]) -> cur[s]
      [] IsArray(model[s]) /\ IndexOf(t) = AllIndices -> cur[s].const_init
      [] OTHER -> Check(cur[s], t.idx)

Compatible_always(t, s) == TRUE
Compatible(t, s) ==
    k > 0 /\ HasNext(s) => Known(t, s) \in {t.val, None}

NeedsInitCheck(s) == k = 0 /\ HasInit(s) /\ HasNext(s)

\* An index before the value of a bit-vector is dropped, in the default build: the
\* assertion that there is none is compiled in with CMAKE_BUILD_TYPE=Debug only.
ReadStateAssignment(t) ==
    /\ At("stateAssign")
    /\ t.kind = "assign"
    /\ Consume
    /\ LET s == Nth(StateIds(model), t.n)
       IN  IF t.n >= Cardinality(StateIds(model))
           THEN Fail /\ UNCHANGED <<cur, pending>>
           ELSE IF ~WidthsOk(t, s)
           THEN Fail /\ UNCHANGED <<cur, pending>>
           ELSE IF NeedsInitCheck(s)
           THEN /\ Call(model[s].init, "initCheck")
                /\ pending' = t
                /\ cur' = IF IsArray(model[s]) THEN With(cur, s, ArrayAt(s)) ELSE cur
           ELSE IF ~Compatible(t, s)
           THEN Fail /\ UNCHANGED <<cur, pending>>
           ELSE /\ Goto("stateAssign")
                /\ cur' = With(cur, s, Assigned(t, s))
                /\ UNCHANGED pending
    /\ UNCHANGED <<control, k, nxt, ended, counted, claims, results>>

ReadStateEnd(t) ==
    /\ At("stateAssign")
    /\ ReadNoAssignment(t, "inputHeader")
    /\ UNCHANGED <<control, k, cur, nxt, pending, counted, claims, results>>

\* The rest of the assignment once simulate has computed the initial value.
\* An array is compared with an array at an index, with a bit-vector as a whole.
CheckInit ==
    /\ At("initCheck")
    /\ LET t == pending
           s == Nth(StateIds(model), t.n)
           arg == model[Abs(model[s].init)]
           x == ArgValue(model, cur, model[s].init)
           whole == IsArray(model[s]) /\ IndexOf(t) = AllIndices
           known == IF IsBitvec(model[s]) \/ whole THEN x ELSE Check(x, t.idx)
       IN  IF IsArray(model[s]) /\ whole # IsBitvec(arg)
           THEN Goto("crash_array_init") /\ UNCHANGED cur
           ELSE IF known \notin {t.val, None}
           THEN Fail /\ UNCHANGED cur
           ELSE Goto("stateAssign") /\ cur' = With(cur, s, Assigned(t, s))
    /\ pending' = NoToken
    /\ UNCHANGED <<control, k, nxt, peek, eof, ended, counted, claims, results>>

\* Whether the digits of n without the first one are a number: there is a digit
\* left, and a zero that leads them is the only one.
FirstTwo[n \in Nat] == IF n < 100 THEN n ELSE FirstTwo[n \div 10]
TailIsNumber(n) == n >= 10 /\ (n >= 100 => FirstTwo[n] % 10 # 0)

\* parse_input_part: unless the header is "@k", one more assignment is read and
\* dropped.  Of a line without '@' its first character is lost before that: the
\* rest is an assignment only if the rest of the number is one, and of an empty
\* line nothing is left.
ReadInputHeader(t) ==
    /\ At("inputHeader")
    /\ Consume
    /\ CASE t.kind = "@" -> Goto(IF t.n = k THEN "inputAssign" ELSE "inputSkip")
         [] t.kind = "assign" /\ TailIsNumber(t.n) -> Goto("inputAssign")
         [] t.kind = "newline" -> Goto("inputSkip")
         [] OTHER -> Fail
    /\ UNCHANGED <<control, k, cur, nxt, pending, ended, counted, claims, results>>

ReadSkipped(t) ==
    /\ At("inputSkip")
    /\ \/ t.kind = "assign" /\ Consume /\ UNCHANGED ended /\ Goto("inputAssign")
       \/ ReadNoAssignment(t, "inputAssign")
    /\ UNCHANGED <<control, k, cur, nxt, pending, counted, claims, results>>

ReadInputAssignment(t) ==
    /\ At("inputAssign")
    /\ t.kind = "assign"
    /\ Consume
    /\ LET i == Nth(InputIds(model), t.n)
       IN  IF t.n >= Cardinality(InputIds(model))
           THEN Fail /\ UNCHANGED cur
           ELSE IF ~HasSlot(model, i)
           THEN Goto("crash_slot") /\ UNCHANGED cur
           ELSE IF IsArray(model[i])
           THEN Goto("crash_array_input") /\ UNCHANGED cur
           ELSE IF ~WidthsOk(t, i) \/ i \in DOMAIN cur
           THEN Fail /\ UNCHANGED cur
           ELSE Goto("inputAssign") /\ cur' = With(cur, i, t.val)
    /\ UNCHANGED <<control, k, nxt, pending, ended, counted, claims, results>>

\* The rest of parse_frame follows.
ReadInputEnd_no_states(t) ==
    /\ At("inputAssign")
    /\ ReadNoAssignment(t, "initInputs")
    /\ UNCHANGED <<control, k, cur, nxt, pending, counted, claims, results>>
ReadInputEnd(t) ==
    /\ At("inputAssign")
    /\ ReadNoAssignment(t, IF k = 0 THEN "initStates" ELSE "initInputs")
    /\ UNCHANGED <<control, k, cur, nxt, pending, counted, claims, results>>

\* The end of parse_sat_witness: a claim that was not reached is an error.
CheckClaims_any ==
    /\ At("claims")
    /\ Goto(IF unreached < Cardinality(Bads) THEN "witness" ELSE "error")
    /\ UNCHANGED <<control, k, cur, nxt, witness, results>>
CheckClaims ==
    /\ At("claims")
    /\ Goto(IF \A b \in claims : reached[b] >= 0 THEN "witness" ELSE "error")
    /\ UNCHANGED <<control, k, cur, nxt, witness, results>>

ReadToken(t) ==
    /\ NextToken(t)
    /\ \/ ReadWitness(t)
       \/ ReadClaim(t)
       \/ ReadStateHeader(t)
       \/ ReadStateAssignment(t)
       \/ ReadStateEnd(t)
       \/ ReadInputHeader(t)
       \/ ReadSkipped(t)
       \/ ReadInputAssignment(t)
       \/ ReadInputEnd(t)

----------------------------------------------------------------------------
Terminated == pc \in Final /\ UNCHANGED vars

Step ==
    \/ ParseModel
    \/ Simulate
    \/ InitState \/ InitStateFromLine \/ StatesInitialized \/ InitInputs
    \/ SimulateLine \/ FinishStep \/ Transition
    \/ CheckInit \/ CheckClaims
    \/ \E t \in Token \cup {EOF} : ReadToken(t)

Next == Step \/ FileEnds \/ Terminated

\* The program is sequential, so it runs on; files are finite.
Fairness == WF_vars(Step) /\ SF_vars(FileEnds)

Spec == Init /\ [][Next]_vars /\ Fairness

----------------------------------------------------------------------------
(* Properties.                                                             *)

Labels == Final \cup Reading \cup
          {"model", "initStates", "initEval", "initInputs", "simulate",
           "transition", "initCheck", "claims"}

\* Slots hold values of their line's width, also those read from a witness, and
\* only slots that current_state and next_state have.
TypeOK ==
    /\ model \in Models /\ mode \in Modes /\ pc \in Labels /\ k \in Nat
    /\ DOMAIN cur \subseteq {i \in ValueLines(model) : HasSlot(model, i)}
    /\ \A i \in DOMAIN cur : IsBitvec(model[i]) => cur[i] \in Values(Width(model[i]))
    /\ DOMAIN nxt \subseteq StateIds(model)
    /\ stack \in Seq(ValueLines(model))
    /\ eof \in BOOLEAN /\ ended \in BOOLEAN /\ counted \in BOOLEAN
    /\ claims \subseteq Bads
    /\ reached \in [Bads -> Int]
    /\ unreached \in Nat
    /\ violated \in Int /\ time \in Int

\* A cached value in current_state is the value its arguments determine now: no
\* assignment, initialisation or transition leaves a result behind that was
\* computed from something else.
CacheCoherent ==
    \A i \in DOMAIN cur \cap Operators(model) :
        ArgsSet(model, cur, i) /\ cur[i] = Compute(model, cur, i)

\* When the lines of a frame are evaluated all its states and inputs have a
\* value, so simulate never dies there; when a part of a later frame is read no
\* line has been evaluated yet, and all states have the value handed over.
FrameComplete ==
    /\ pc = "simulate" => Leaves(model) \subseteq DOMAIN cur
    /\ k > 0 /\ pc \in {"stateHeader", "stateAssign", "inputHeader"} =>
         DOMAIN cur = StateIds(model)
    /\ k > 0 /\ pc \in {"inputSkip", "inputAssign", "initInputs"} =>
         /\ StateIds(model) \subseteq DOMAIN cur
         /\ DOMAIN cur \subseteq Leaves(model)

\* The assertions of simulate_step and transition: the next states are empty
\* when they are computed, and all there when they are taken over.
NextStateHandover ==
    /\ pc = "transition" => DOMAIN nxt = StateIds(model)
    /\ pc \in {"initInputs", "simulate"} => DOMAIN nxt = {}

\* A bad state property counts as reached in a frame that was simulated, never
\* in or after the one that violates a constraint, and the counter that stops
\* the random simulation is the number of the others.
ReachedExact ==
    /\ \A b \in Bads : /\ reached[b] \in -1 .. time
                       /\ violated >= 0 => reached[b] < violated
    /\ violated \in -1 .. time
    /\ unreached = Cardinality({b \in Bads : reached[b] < 0})

\* The checker exits with status 0 only if it followed every witness it counted
\* through a frame at least, and everything claimed was reached.
AcceptedIsWitnessed ==
    pc = "ok" /\ mode = "check" =>
        /\ counted => time >= 0
        /\ \A b \in claims : reached[b] \in 0 .. time

\* A model that the simulation can do nothing wrong about: no line is unsupported,
\* no leaf is the last line, no bad and no constraint is negated, and no state is
\* initialised with itself.
Simulatable(T) ==
    /\ \A i \in DOMAIN T : T[i].tag \notin Unsupported
    /\ \A i \in Leaves(T) : HasSlot(T, i)
    /\ \A l \in LinesOf(T, "bad") \cup LinesOf(T, "constraint") : T[l].args[1] > 0
    /\ \A s \in StateIds(T) : Abs(T[s].init) # s

\* The random simulation of such a model never fails: the parser has ordered the
\* initial values, and all leaves get one.
RandomNeverFails ==
    mode = "random" /\ Simulatable(model) => pc \notin {"error"} \cup Crashes

\* A model whose states start from their init lines in every witness that is
\* accepted: the checker compares an assignment with the initial value only if the
\* state has a next line.  No line that simulate_step evaluates is the last.
Comparable(T) ==
    /\ \A i \in ValueLines(T) : HasSlot(T, i)
    /\ \A s \in StateIds(T) : T[s].init # 0 => T[s].next # 0

\* What is simulated is a run of the transition system the model describes.
TS == INSTANCE TransitionSystem
        WITH model <- model, time <- time, val <- val, reached <- reached,
             violated <- violated
Implements == TS!Spec

\* Every run of btorsim ends, whatever the witness.
Termination == <>(pc \in Final)

----------------------------------------------------------------------------
(* What the sources say of the program beyond that.                        *)

\* btorsim.cpp:1482, "incompatible initialized state": the checker refuses an
\* assignment that differs from the initial value of a state with a next line.
InitialStatesRespected ==
    time = 0 => \A s \in StateIds(model) :
        HasInit(s) /\ HasNext(s) => val[s] = InitValue(model, Evaluate(model, val), s)

=============================================================================
