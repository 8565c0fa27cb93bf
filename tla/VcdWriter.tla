------------------------------ MODULE VcdWriter ------------------------------
(***************************************************************************)
(* btorsimvcd.cpp: the trace of a simulation as a VCD file.                *)
(*                                                                         *)
(* btorsim calls add_value_change for the named lines after each frame.    *)
(* The writer keeps a log of time stamps and value changes, of which a     *)
(* viewer shows at any time the last change before it.  What is open is    *)
(* the values of the lines.                                                *)
(***************************************************************************)
EXTENDS ArrayModel, SequencesExt

CONSTANTS
    Vectors, Arrays, Outputs,  \* ids of the named lines: bit-vectors, arrays, outputs
    Clocks,                    \* the info file: clock id -> "posedge", "negedge", "event"
    VectorValues, ArrayValues, \* what the lines may hold
    ElementWidth,              \* of the arrays
    IdChars,                   \* id_end - id_start: an identifier's characters, 94
    Modes,                     \* who runs the frames, among "sat", "unknown", "random":
                               \* parse_sat_witness, parse_unknown_witness,
                               \* random_simulation
    MaxFrames                  \* bound: the simulation has at most this many frames

Named == Vectors \cup Arrays \cup Outputs

\* An id may be anything in an info file; sort_names asserts that it is a named
\* bit-vector.
ASSUME ClocksAssumption ==
    /\ DOMAIN Clocks \subseteq Vectors
    /\ \A c \in DOMAIN Clocks : Clocks[c] \in {"posedge", "negedge", "event"}
ASSUME CharsAssumption == IdChars \in Nat /\ IdChars > 1
ASSUME FramesAssumption == MaxFrames \in Nat \ {0}

\* A line is of one kind, and an array stores finitely many elements.
ASSUME LinesAssumption ==
    /\ Named \subseteq Nat /\ IsFiniteSet(Named)
    /\ Vectors \cap Arrays = {} /\ (Vectors \cup Arrays) \cap Outputs = {}
    /\ \A m \in ArrayValues : DOMAIN m.data \subseteq Nat /\ IsFiniteSet(DOMAIN m.data)

VARIABLES
    mode,
    pc,           \* "simulate", "dump", or "end"
    k, cur,       \* the time frame, and the values of the named lines in it
    left,         \* the lines the loop of simulate_step has still to dump
    prev_value,   \* what each line was last seen to hold, of those seen
    writer,       \* the rest of the writer; see NewWriter
    frames        \* history: the values of all frames dumped

vars == <<mode, pc, k, cur, left, prev_value, writer, frames>>

NoElement == -1   \* the index of a signal that is no array element

\* step: current_step, the last time stamp; identifiers: <<id, index>> ->
\* identifier, bv_identifiers and am_identifiers; log: value_changes
NewWriter == [step |-> -1, identifiers |-> NoData, log |-> <<>>]

Init == /\ mode \in Modes
        /\ pc = "simulate"
        /\ k = 0 /\ cur = NoData /\ left = {}
        /\ prev_value = NoData
        /\ writer = NewWriter
        /\ frames = <<>>

----------------------------------------------------------------------------
(* The log.                                                                *)

\* A time stamp, and the value changes up to the next one.
Stamped(w, t) == [w EXCEPT !.log = Append(@, [time |-> t, changes |-> <<>>])]

\* generate_next_identifier: the digits of current_id, the lowest first
Identifier_one_char(id) == <<id % IdChars>>
Identifier(id) ==
    LET digits[n \in 0 .. id] ==
          IF n < IdChars THEN <<n>> ELSE <<n % IdChars>> \o digits[n \div IdChars]
    IN  digits[id]

\* get_bv_identifier, get_am_identifier
Identified(w, key) ==
    IF key \in DOMAIN w.identifiers THEN w
    ELSE [w EXCEPT !.identifiers =
            With(@, key, Identifier(Cardinality(DOMAIN w.identifiers)))]

Changed(w, key, x) ==
    LET u == Identified(w, key)
    IN  [u EXCEPT !.log[Len(w.log)].changes =
            Append(@, [ident |-> u.identifiers[key], value |-> x])]

\* The changes of the sequence c, pairs of a signal and a value.
AllChanged(w, c) ==
    LET after[n \in 0 .. Len(c)] ==
          IF n = 0 THEN w ELSE Changed(after[n - 1], c[n][1], c[n][2])
    IN  after[Len(c)]

\* The clocks are a std::map, in the order of their ids.
Ascending(S) ==
    CHOOSE s \in SetToSeqs(S) : \A m, n \in DOMAIN s : m < n => s[m] < s[n]

\* What a clock changes to with the time stamp of a step; it is off half a step
\* before, unless it is an event.
On(c) == IF Clocks[c] = "negedge" THEN 0 ELSE 1
ClocksOff(w) ==
    LET s == Ascending({c \in DOMAIN Clocks : Clocks[c] # "event"})
    IN  AllChanged(w, [n \in DOMAIN s |-> <<<<s[n], NoElement>>, 1 - On(s[n])>>])
ClocksOn(w) ==
    LET s == Ascending(DOMAIN Clocks)
    IN  AllChanged(w, [n \in DOMAIN s |-> <<<<s[n], NoElement>>, On(s[n])>>])

update_time_every_call(w, n) ==
    [ClocksOn(Stamped(IF n > 0 THEN ClocksOff(Stamped(w, 10 * n - 5)) ELSE w, 10 * n))
       EXCEPT !.step = n]
update_time_never_off(w, n) ==
    IF w.step >= n THEN w
    ELSE [ClocksOn(Stamped(w, 10 * n)) EXCEPT !.step = n]
update_time_in_ns(w, n) ==
    IF w.step >= n THEN w
    ELSE [ClocksOn(Stamped(IF n > 0 THEN ClocksOff(Stamped(w, 10 * n - 5)) ELSE w,
                           10 * n))
            EXCEPT !.step = 10 * n]
update_time(w, n) ==
    IF w.step >= n THEN w
    ELSE [ClocksOn(Stamped(IF n > 0 THEN ClocksOff(Stamped(w, 10 * n - 5)) ELSE w,
                           10 * n))
            EXCEPT !.step = n]

----------------------------------------------------------------------------
(* add_value_change.                                                       *)

\* A bit-vector is compared with its value before.
NewVector_first(id, x) == id \notin DOMAIN prev_value
NewVector(id, x) == id \notin DOMAIN prev_value \/ prev_value[id] # x

\* Arrays and their elements are compared by address with the copies in
\* prev_value, so that every element the array stores is new.  They are in a
\* std::unordered_map, hence in any order.
NewElements(id, m) == DOMAIN m.data

AddVector(id) ==
    /\ id \in Vectors \ DOMAIN Clocks
    /\ IF NewVector(id, cur[id])
       THEN /\ writer' = Changed(update_time(writer, k), <<id, NoElement>>, cur[id])
            /\ prev_value' = With(prev_value, id, cur[id])
       ELSE UNCHANGED <<writer, prev_value>>

AddArray(id) ==
    /\ id \in Arrays
    /\ \E s \in SetToSeqs(NewElements(id, cur[id])) :
         writer' = AllChanged(update_time(writer, k),
                              [n \in DOMAIN s |-> <<<<id, s[n]>>, cur[id].data[s[n]]>>])
    /\ prev_value' = With(prev_value, id, Copy(cur[id]))

\* Clocks have their changes from update_time; an output has no value.
AddNothing(id) ==
    /\ id \in Outputs \cup DOMAIN Clocks
    /\ UNCHANGED <<writer, prev_value>>

AddValueChange ==
    /\ pc = "dump" /\ left # {}
    /\ LET id == CHOOSE i \in left : \A j \in left : i <= j
       IN  /\ AddVector(id) \/ AddArray(id) \/ AddNothing(id)
           /\ left' = left \ {id}
    /\ UNCHANGED <<mode, pc, k, cur, frames>>

----------------------------------------------------------------------------
(* The calls in btorsim.cpp.                                               *)

\* The values of a frame, before the loop at the end of simulate_step.  Clocks
\* have one too, which is never looked at.
Simulate ==
    /\ pc = "simulate"
    /\ \E v \in [Vectors \ DOMAIN Clocks -> VectorValues], a \in [Arrays -> ArrayValues] :
         cur' = [i \in DOMAIN v \cup Arrays |-> IF i \in Arrays THEN a[i] ELSE v[i]]
    /\ pc' = "dump"
    /\ left' = Named
    /\ UNCHANGED <<mode, k, prev_value, writer, frames>>

\* The loop is done: there is a frame after this one, or there is none.  Only
\* parse_sat_witness then makes the last step visible.
FrameDumped ==
    /\ pc = "dump" /\ left = {}
    /\ frames' = Append(frames, cur)
    /\ \/ /\ k + 1 < MaxFrames
          /\ pc' = "simulate" /\ k' = k + 1 /\ UNCHANGED writer
       \/ /\ pc' = "end" /\ UNCHANGED k
          /\ writer' = IF mode = "sat" THEN update_time(writer, k + 1) ELSE writer
    /\ UNCHANGED <<mode, cur, left, prev_value>>

Terminated == pc = "end" /\ UNCHANGED vars

Next == Simulate \/ AddValueChange \/ FrameDumped \/ Terminated

Spec == Init /\ [][Next]_vars

----------------------------------------------------------------------------
(* What a viewer shows.                                                    *)

Log == writer.log

\* The changes of the signal, as <<step of the log, position in it>>.
ChangesOf(key) ==
    {c \in UNION {{n} \X DOMAIN Log[n].changes : n \in DOMAIN Log} :
       /\ key \in DOMAIN writer.identifiers
       /\ Log[c[1]].changes[c[2]].ident = writer.identifiers[key]}

\* The value of the signal at time t, None before its first change.
Shown(key, t) ==
    LET before == {c \in ChangesOf(key) : Log[c[1]].time <= t}
        last == CHOOSE c \in before : \A d \in before :
                    d[1] < c[1] \/ (d[1] = c[1] /\ d[2] <= c[2])
    IN  IF before = {} THEN None ELSE Log[last[1]].changes[last[2]].value

\* The values in a frame that was dumped.
Frames == 0 .. Len(frames) - 1
InFrame(j, id) == frames[j + 1][id]

----------------------------------------------------------------------------
(* Properties.                                                             *)

\* Types of the variables.
TypeOK ==
    /\ mode \in Modes
    /\ pc \in {"simulate", "dump", "end"}
    /\ k \in 0 .. MaxFrames - 1
    /\ left \subseteq Named
    /\ DOMAIN prev_value \subseteq Vectors \cup Arrays
    /\ writer.step \in -1 .. k + 1
    /\ Len(frames) <= MaxFrames

\* Signals and elements of arrays never share an identifier, or a viewer would
\* take the changes of one for those of the other.
IdentifiersUnique ==
    \A p, q \in DOMAIN writer.identifiers :
        writer.identifiers[p] = writer.identifiers[q] => p = q

\* The log is in the order of time, with no step twice.
TimesAscend == \A m, n \in DOMAIN Log : m < n => Log[m].time < Log[n].time

\* A viewer shows for each frame the values the bit-vectors have in it, although
\* only changes are written, and the elements the arrays store.
VectorsShown(j) ==
    \A id \in Vectors \ DOMAIN Clocks :
        Shown(<<id, NoElement>>, 10 * j) = InFrame(j, id)
ElementsShown(j) ==
    \A id \in Arrays : \A i \in DOMAIN InFrame(j, id).data :
        Shown(<<id, i>>, 10 * j) = InFrame(j, id).data[i]
ValuesShown == \A j \in Frames : VectorsShown(j) /\ ElementsShown(j)

\* Signals change on the edges of the clocks only: a clock is on whenever
\* something changes, and was off since the time stamp of the step before.
ChangesOnEdges ==
    \A n \in DOMAIN Log : \A c \in DOMAIN Clocks :
        LET clock == <<c, NoElement>>
            t == Log[n].time
        IN  t % 10 = 0 =>
              /\ Shown(clock, t) = On(c)
              /\ t > 0 /\ Clocks[c] # "event" => Shown(clock, t - 5) = 1 - On(c)

----------------------------------------------------------------------------
\* btorsimvcd.h:112, "Check if value of state changed at step k, and if yes add
\* to VCD": an element a viewer shows has the value the array has there in that
\* frame, also when the array no longer stores it.
ElementsUpToDate ==
    \A j \in Frames : \A id \in Arrays :
        \A i \in {key[2] : key \in {p \in DOMAIN writer.identifiers : p[1] = id}} :
            Shown(<<id, i>>, 10 * j) \in {None, Element(InFrame(j, id), i, ElementWidth)}

=============================================================================
