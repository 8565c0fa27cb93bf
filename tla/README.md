# btor2tools in TLA+

TLA+ models of the btor2tools: the parser of the BTOR2 word-level model-checking
format (`src/src/btor2parser`), `btorsim`, which simulates BTOR2 models, checks
witnesses and writes VCD traces (`src/src/btorsim`), `btor2aiger`, which turns a model
into an AIGER circuit, `btorsplit`, which splits a file by its properties, and
`catbtor`, which prints a parsed file. TLC checks the models on small instances. TLAPS
proves theorems about all of these programs, the array models and the bit-vector
operations for all values of the constants. File names below are relative to
`src/src/` unless they start with `src/`.

## The system

| component | state it keeps | operations | what makes it correct |
|---|---|---|---|
| `btor2parser/btor2parser.c` | `table` (id -> line), `ntable`, `error`, the file; a `Btor2LineIterator` per client | `btor2parser_new`, `_read_lines`, `_error`, `iter_init`, `iter_next`, `_max_id` | the table is a DAG of well-sorted lines, links of states say what the file says, iteration visits every line once, nothing of this breaks after an error or on a second file |
| `btorsim/btorsim.cpp` | `current_state`, `next_state`, `inits`/`nexts`, `reached_bads`, `constraints_violated`, the token put back, claims of the witness | `parse_model`, `setup_states`, `random_simulation`, `parse_and_check_witness`, `initialize_states`/`_inputs`, `simulate`, `simulate_step`, `transition` | what is simulated is a run of the model, and an accepted witness reaches what it claims |
| `btorsim/btorsimam.cpp` | stored elements, constant initialisation, random seed | `read`, `write`, `copy`, `set_const_init`, `check`, `==`, `btorsim_am_ite` | an element keeps the value it was first read with, a copy is a copy, `==` compares what is read |
| `btorsim/btorsimbv.c` | none (values) | some sixty functions on vectors of 32-bit limbs | each computes the operator of its name |
| `btorsim/btorsimstate.cpp` | a tagged pointer to a bit-vector or an array | `update`, `remove`, `is_set` | part of `btorsim` |
| `btorsim/btorsimvcd.cpp` | previous values, identifiers, last time stamp, the log of changes | `add_value_change`, `update_time`, `write_vcd` | a viewer of the changes sees the values of each frame, signals change on clock edges |
| `btorsim/btorsimrng.c` | two words | `btorsim_rng_rand` | none needed: any value |
| `btor2aiger.cpp` | maps from ids to Boolector nodes, the AIGER circuit, the pairs to constrain initially | `parse_btor2`, `generate_aiger` (inputs, states, constraints, bads, check, initial constraints) | the circuit has the runs of the model, and only what is unsupported is refused |
| `btorsplit.cpp` | the lines of a file, the line numbers of its properties | `split_file` for each argument | each output has one property and all it needs, and no file is lost |
| `catbtor.c` | none | prints the lines of the iterator | what it prints reads back as the same table |

One process runs one thread, so nothing is interleaved with anything; `btorsim`
calls the parser once, holds pointers to its lines from then on, and recurs over
them. What is hard here:

* **protocols between passes**: initial values are computed in one pass over the
  states, before any input has a value, which rests on the order the parser
  enforces; a frame of a witness sets states and inputs in three places before
  the evaluation that assumes all are set;
* **a cache** (`current_state`) that `simulate` fills while a witness is read, and
  that assignments and the transition between frames must keep consistent;
* **partial failure**: the parser links a state and stores a line before the
  checks that may still refuse it, and clients may look at the table later;
* **boundaries**: the largest id taken for a count, negative ids, shifts and
  rotations by the width and more, the smallest signed number;
* **changes instead of values**: the VCD writer compares with copies of earlier
  values, and time stamps and clock edges come with the first change of a frame;
* **one meaning spread over passes**: whether a state becomes an input or a latch,
  and with which reset, depends on three conditions met in two passes, and the
  circuit is checked in between;
* **files written while others are read**: an output of `btorsplit` may be the input
  of its next argument, or the output of an earlier run;
* **input of any form**: a witness is read token by token with one token put
  back, and headers, comments and the end of the file may stand anywhere.

`PROJECT.json` lists these hazards at their lines, with the property that would
notice each one, or why none does yet.

## Modules

| module | models | lines of the code |
|---|---|---|
| `Btor2Format` | what `parse_*_bfr` and `check_sorts_bfr` ask of one line, given the table | `btor2parser.c` |
| `Btor2Parser` | the parser as a state machine, and its properties | `btor2parser.c` |
| `CatBtor` | what is printed of a line, and the table of the printed file | `catbtor.c` |
| `Btor2ParserProofs` | theorems on `Btor2Parser` and on what `CatBtor` prints | |
| `BitVec` | bit-vector operations, as functions on numbers | `btorsimbv.c` |
| `BitVecReference` | what they should compute, in plain arithmetic | `src/README.md`'s tables |
| `BitVecReferenceProofs` | theorems on `BitVecReference` and `LimbVecReference` | |
| `LimbVec` | the same operations on arrays of limbs | `btorsimbv.c` |
| `ConstantDigits` | whether a constant fits, how its digits become a vector and a vector digits | `btor2parser.c`, `btorsimbv.c` |
| `LimbVecReference` | limbs against numbers, digits against the numbers they stand for | |
| `ArrayModel` | array models, as functions on records | `btorsimam.cpp` |
| `ArrayStore` | array models under any sequence of calls, beside the memories they stand for | `btorsimam.cpp`, the calls in `btorsim.cpp` |
| `ArrayStoreProofs` | theorems on `ArrayStore` | |
| `Btor2Semantics` | the value of a line, given those of its arguments | `simulate`'s switch |
| `TransitionSystem` | abstract specification: the runs of a BTOR2 model | none, it is what a model means |
| `BtorSim` | the simulator and witness checker; refines `TransitionSystem` | `btorsim.cpp` |
| `BtorSimProofs` | theorems on `BtorSim`: its frames, the values in them, and the refinement | |
| `VcdWriter` | the log of time stamps and changes, and what a viewer shows of it | `btorsimvcd.cpp`, the calls in `btorsim.cpp` |
| `VcdWriterProofs` | theorems on `VcdWriter` | |
| `Btor2Aiger` | the translation, pass by pass, and the runs of its circuit; refines `TransitionSystem` | `btor2aiger.cpp` |
| `Btor2AigerProofs` | theorems on `Btor2Aiger`, and the refinement | |
| `BtorSplit` | the splitting of files, over a list of arguments | `btorsplit.cpp` |
| `BtorSplitProofs` | theorems on `BtorSplit` | |
| `Btor2Lemmas` | what the proofs share: least and greatest numbers, lines and sorts of accepted statements, values and their bits, strings of digits, loops | |
| `SmallModels` | small models as files, for the instances of three modules | |
| `MCBtor2Parser`, `MCBtorSim`, `MCVcdWriter`, `MCBtor2Aiger`, `MCBtorSplit` | instances for TLC | |

`Btor2Format` is shared: `SmallModels` writes models as files and builds their tables
with the parser's own definitions, and an assumption TLC evaluates (`FilesAccepted`)
says that the parser accepts them. So `BtorSim` and `Btor2Aiger` run only on tables
the parser can produce, and `BtorSplit` on files it accepts (and some it does not).

A definition `X_what` directly before `X` is a plausible bug in `X`. Nothing uses
these; replacing the body of `X` by one of them breaks the property `PROJECT.json`
lists with it, which shows that the run can notice such a bug.

### The parser

`lines` is the table without its null entries and `ntable` its size; a line is a
record of tag, id, sort (the tagged union, with `word` for the field that is the
width of a bit-vector sort or the id of the index sort), arguments, and the `init`
and `next` links of states. A statement is a line of a file after scanning: its
id, tag, sort id, arguments, numbers, and where it breaks the grammar, if it does
(`lex`: in the head, the body, or after the body). One action reads one line:
`RejectHead`, `RejectBody`, `RejectSorts`, `RejectTail` and `AcceptLine` are the
places where `readl_bfr` and the macro `PARSE` fail or not, with what each leaves
behind: after `RejectBody` the table is filled up to the id but the line is not
stored, after `RejectSorts` and `RejectTail` it is. `ReadLines` starts a file, also
after an error or a complete file, `IterInit` and `IterNext` are the iterator.
Of each group of operators with the same checks the code has one branch, and the
model one set (`Unary`, `Predicates`, ...). `catbtor` is a client that iterates and prints,
so `CatBtor` adds no step: its output is a function of the lines seen (`Output`).

### btorsim

`cur` and `nxt` are `current_state` and `next_state`, as functions on the ids that
have a value. The recursion of `simulate` is the explicit `stack` of the ids it was
called with, so that each call, each hit in the cache and each computed value is
a step, and `pc` says where it returns to. A witness is a sequence of tokens
(`sat`, claims, headers `#n` and `@n`, assignments, `.`, comments, empty lines),
any of which may come next until the file ends; `peek` is the token put back.
`FinishStep` is the end of `simulate_step` with the loop around it. Assertions that
fail are final states `crash_...`: in a release build, which has no assertions, they
are undefined behaviour. `time` and `val` are history: the last simulated frame
and all its values, from which `TransitionSystem`'s variables are read off.

### Array models

A record has the elements stored so far, the constant initialisation and the random
seed. `ArrayStore` calls the operations in any order on two arrays and keeps beside each
of them the memory it stands for (`mem`), which is no function of the record: a copy of an
array has the same memory, a write changes one element of it. `fixed` are the
elements that some call has shown or set; of a random array only these are determined, for
the program makes up the others when they are asked for. `FixedReadsAsMemory` is about
them, and holds; `ReadsAsMemory` is about all elements, which is what a copy promises,
and fails after `copy`, `write` and `ite`, as they drop the seed.

### The VCD writer

`writer` is the object: the last time stamp (`step`), the identifiers, and the log
(`value_changes`) as a sequence of time stamps with the changes under each. One
action is one call of `add_value_change`, in the loop at the end of `simulate_step`;
the values of a frame are any values, since `BtorSim` says which ones are computed.
`prev_value` keeps the copies the code compares with; a bit-vector is compared by
value, arrays and elements by address, so that every stored element is written
again, in any order, since the elements are in an unordered map. `Shown` is a viewer: the last change before a time, which the properties
compare with `frames`, the history of the values dumped. In the code only the
checker makes the time of the last frame visible, and only for a `sat` witness
(`FrameDumped`): `Modes` are the three callers.

### btor2aiger

What Boolector does is external: it makes a literal for each bit of each line, whose
value is the line's, and may or may not find an initial value constant. So a
literal is a bit of a line here (`Lit`), `Valuations` are the values of all lines,
and `folded` is any set of initial bits that are constant, with the bits of constant
lines among them. `pc` is the loop of `generate_aiger`, with one action per
element. `aiger_check` asks whether each literal depends on inputs and latches only
(`IsDefined`). After that the circuit runs as AIGER defines it (`Frame`): latches
start from their resets, constraints hold in each frame, and the "init latch" of
`generate_aiger` is one in the first frame and zero in the others.

### btorsplit

A file is a sequence of lines, each a statement or a comment, and whether its text
has the word `bad`, which is all that `split_file` looks for. A file name is what it
is before the last dot, with the numbers `btorsplit` appended, so that names of
outputs and of arguments may meet. The loop over the set of properties is in any
order, as the set is unordered. `directory` are the files, and outputs are in it at
once for the arguments after. What a file means is the parser's table of it (`TableOf`,
a fold over its lines that skips comments); a file is accepted if each line is, by the
table of those before it: its text is well-formed, its id is the largest yet, and the
checks of `Btor2Format` pass (`Accepts`).

### Values

In `BitVec` bit-vectors are natural numbers with a width (`MaxBitWidth` bounds the set
of values that is enumerated). `WordBits` is the width of `uint32_t`, 32 in the code,
which cuts off the shift of `sll_bv`; the runs take 15, the largest for which TLC's
numbers suffice, and it makes no difference below that width. Array elements and
indices are numbers too. A pseudo-random element is computed from seed and index as
in `get_random_init`; a random bit-vector is any bit-vector.

In `LimbVec` a vector is a width and a sequence of limbs of `LimbBits` bits (32 in the
code), the highest first, as `btorsimbv.c` has it: `set_rem_bits_to_zero`, shifts with
a neighbour's bits, carries from limb to limb, the 64-bit product of two limbs and the
long division bit by bit. In `ConstantDigits` a constant is a sequence of digits with
a sign. `Number` and `Vector` relate the three.

## Runs

| run | bounds | shows |
|---|---|---|
| `MCBtor2Parser` | four profiles: `links` has one sort, ids up to 6 with a choice of gaps, six tags, one negated argument; the others up to three sorts, two or three leaves and one node, one operator of each signature; any number of files, read and iterated any number of times | `TypeOK`, `ReferencesResolved`, `StateLinks`, `InitConesOrdered`, `IterationExact`, `LinesStable`, `LinesWellSorted`, `OutputReadsBack` |
| `LimbVecReference` | all widths to 6, all operands, limbs of two bits | the operations on numbers against arithmetic, those on limbs against those on numbers, constants against the numbers they are |
| `ArrayStore` | two arrays, four elements of one bit, seeds 0 to 2 | an element that was read or written keeps its value, in copies too; `==` is sound |
| `MCBtorSim_check` | ten models, three with memories and four on which the program fails; random simulation of up to six frames, and every orderly witness of up to three frames, which may end after any token | cache, frames, handover, counting, acceptance, the refinement of `TransitionSystem`, and `Termination` |
| `MCVcdWriter` | a bit-vector, an array of two bits, an output and a clock of each kind; three frames with any values | a viewer sees each frame's values, changes are on clock edges, identifiers differ, times ascend |
| `MCBtor2Aiger` | nine models, every set of constants found; circuits of up to four frames | only the unsupported is refused, the circuit refines `TransitionSystem` and has the model's frames but those of the finding below |
| `MCBtorSplit` | one or two files of five contents, six lists of arguments, files in the way, with and without `-f` | outputs are models with one property each, nothing is overwritten |

Bounds. In the profile `links` six ids are enough for two states, an input, an
operator between them, and an init and a next line of either in both orders, which
is what a link can go wrong with; a property of three lines has four of them to play
with. In the other profiles the checks look at one line and its arguments, so that
one line after its arguments shows every case, as long as sorts differ in each
component. With limbs of two bits, widths to 6 have one, two and three limbs and each
number of remaining bits, and a limb has a neighbour on both sides. In
`MCBtorSim_check` three frames are the least in which a value can survive two
transitions; the models' initialised states have a next line, since without one the
checker does not look at the initial value. A witness is *orderly* when it assigns
the states of frame 0 in their order, each bit-vector once, and arrays only there and
not if they are initialised by an array. Outside of that the checker does not keep to
`TransitionSystem`: see the findings and deviations below. So this run shows nothing of
assignments to arrays that have an array as their initial value, nor of later ones to
arrays. Positions 10 and 100 are there since an input part without its header loses a
digit of the first one; the four failing models have an input that is a memory, an
overflow predicate, a state in the last line and a negated `bad`. In `MCVcdWriter` two
characters for identifiers make them two digits long at the third signal, and three
frames let an element be stored, vanish and come back. In `MCBtor2Aiger` the models
have a state for each combination of init, next and constant initial value, one with
half of its bits constant, and negated arguments; four frames let the counter of two
bits take all its values. In `MCBtorSplit` three properties are the least in which one is in the
middle, and an argument may be its own output.

Fairness is needed by `Termination` only: `WF_vars(Step)`, since the program is
sequential and runs on while it can, and `SF_vars(FileEnds)`, since a file is
finite, so that its end is met if reading goes on forever. Strong, because the
program is between two tokens again and again but not all the time. Deadlock is
checked everywhere but in `MCBtor2Aiger`, where a circuit stops at the bound of frames
or when no next frame keeps the constraints: the parser always has a next call, and
`btorsim`, the VCD writer and `btorsplit` stutter in their final states only
(`Terminated`).

Five further runs expect a violation. Each is a disagreement between the code and
what its documentation or its comments say:

* `MCBtor2Parser_tables`: `OperatorTables`, the operators' signatures in `src/README.md`,
  is more than `check_sorts_bfr` asks for. It accepts a `slice` with bounds that lie
  outside of the operand (`btor2parser.c:625`, `README:129`), an `eq` or `neq` of a sort that is
  an array sort whose index sort has id 1 (`:592`, the union read without its tag;
  `README:144`), an `ite` of another sort than its branches (`:672`, `README:157`) and a `write`
  of another array sort than its array (`:739`, `README:158`).
* `ArrayStore_copies`: an element of a random array that was not read yet is zero in a copy
  of the array, as `copy` drops the random seed (`btorsimam.cpp:105`), so it is no
  "copy of the array" (`btorsimam.h:92`).
* `MCBtorSim_reassigned`: a witness that assigns a state twice in frame 0 leaves the
  first value in the cache of init expressions, and a state that contradicts its
  init line passes (`btorsim.cpp:1482`, `:1549`).
* `MCVcdWriter_elements`: an element that an array no longer stores keeps its old value
  in the trace, as only stored elements are looked at (`btorsimvcd.cpp:336`).
* `MCBtor2Aiger_same`: a latch whose initial value is not constant gets no reset, which
  AIGER takes for zero, so that the initial constraint leaves only the runs that start
  with zero (`btor2aiger.cpp:426`).

Deviations that the models have because the code does, without a run of their own:

* parser: a state may be initialised with itself,
  though `check_state_init` asserts the opposite (`btor2parser.c:1243`, `:1301`), and
  `initialize_states` dies on it (so `InitConesOrdered` has `j <= i`, not `j < i`); an array
  initialised with an array is not compared with it (`:536`);
  the first character of a `constd` is dropped whatever it is, `-` alone is accepted and
  `-0` in width one is not (`:1181`);
* bit-vectors: a rotation by more than the width shifts everything out
  (`btorsimbv.c:1757`); `sll` by 2^32 does not shift, as `sll_bv` takes a `uint32_t`
  (`:1687`); `btorsim_bv_is_ones` shifts by 32 in widths that are a multiple of 32
  (`:1012`), a random vector of such a width too (`:109`);
* arrays: reads are stored in a copy (`btorsim.cpp:742`); `a == b` and `b == a` differ if one has all elements stored
  (`btorsimam.cpp:151`, `Equal`);
* witnesses: `current_state` has no entry for the largest id, which `setup_states` reads
  if it is a state (`btorsim.cpp:316`, `:1900`), and none before its first, which a `bad`
  or `constraint` line with a negated argument reads (`:1024`, `:1045`), though
  `btor2parser.h:201` says that ids "might be negative"; `MCBtorSim_check` has a model for
  each, which ends in a state of its own (`crash_slot`, `crash_negated`), and
  `RandomNeverFails` excludes them (`Simulatable`); comments in a part of a witness are
  refused (`:1305`), an input part without header is accepted with its first assignment
  dropped (`:1577`), array assignments to inputs use a null pointer (`:1665`), an element
  assignment to an array initialised by a bit-vector fails an assertion (`:1497`), an
  assignment to a state with an init and no next line is not compared with the initial
  value (`:1472`);
* VCD: in random simulation and after an `unknown` witness nobody makes the time after the last frame visible, which
  `btorsimvcd.h:108` says is needed; clocks do not tick in a frame in which no named
  signal changes; a clock without a name fails an assertion in `sort_names`;
* `btor2aiger`: `parse_btor2` copies the arguments of a `justice` line to an array of
  three before it dies on the line;
* `btorsplit`: a line with `bad` in its symbol or a comment counts as a property
  (`btorsplit.cpp:79`), a name without suffix throws, files are split from two
  properties on only, and whether writing succeeds is not looked at;
* `catbtor` prints a `justice` line without the number of its arguments, so that its
  output cannot be read again.

## Proofs

`Btor2ParserProofs` proves, for every set of statements (`StatementAssumption` says
only that they are statements; widths and ids are unbounded):

* `Typing`: `Spec => []TypeOK`. The step that needs care is that every stored id is
  below `ntable`, since each line is stored at the end of the table.
* `References`: `Spec => []ReferencesResolved`. Not inductive: an argument must not
  be an `output` line, which the parser refuses only because these have no sort. The
  inductive invariant `RefInv` adds that (`OutputsUnsorted`) and the types.
* `StatesLinked`: `Spec => []StateLinks`, by way of `LinksInvariant`, which adds that a
  link has two arguments. Storing a line links at most one state, to which no line
  was linked before (`Unlinked`), keeps the links of all others (`LinkedKept`), and
  makes no link to the new line itself (`NewUnlinked`).
* `Stability`: `Spec => LinesStable`, from `RefInv` and the invariant `Phases`: while a
  file is read there is neither an error nor an iteration.
* `Iteration`: `Spec => []IterationExact`, from `TypeOK` and `Phases`, with the lemma
  `NextLineFound` on what the search for the next line returns.
* `InitialOrder`: `Spec => []InitConesOrdered`. What an initial value is computed from is
  a set closed under arguments (`HoldsCone`), which needs no recursion. The parser
  finds such a set without inputs, and compares only the id of the line itself with
  the state's; as arguments come first (`RefInv`), the part of the set up to the state
  is closed too (`InitBodyOrdered`), and storing lines never changes arguments.

* `WellSortedLines`: `Spec => []LinesWellSorted`, which is less than the tables of operators:
  of `slice`, the equalities, `ite` and `write` it speaks of the operands only, as
  `OperatorTables` fails. `check_sorts_bfr` compares widths and
  ids of sort lines, the property speaks of types, which are terms of any depth. That
  `TypeOf` has a value at all, that it has one only, and that `cmp_sort_ids` compares
  types (`SameSortTypes`) are arguments by a least line at which it fails, since an array
  sort names earlier lines. The invariant is `Checked`: each line would pass the check in
  the table as it is now. Storing a line keeps it (`SortsKept`), as the check looks at
  earlier lines only and neither their sorts nor their types change.
* `OutputReads`: `Spec => []OutputReadsBack`, by the inductive invariant `Readable`: what is
  printed of a line would be accepted in the table as it was when the line was stored
  (`TableAt`: the earlier lines, and of their links those made by then) and makes the
  table after it. At the end of an iteration the lines printed are all lines in the
  order of their ids (`IterationExact`, `NothingBetween`), so that the fold of the property
  goes through these tables (`RereadSteps`).
* `CountedInvariant` and `Wiring`: the number of arguments is that of the tag, and with the
  invariants above each table is `Wired`. That is what `btorsim` and `btor2aiger` take
  from it without a check, and it is the assumption on models in the proofs below.

`CountedInvariant` and `Wiring` are about every table; the other ones name properties that
`MCBtor2Parser` checks, too. The run uses `MCSpec`, which keeps
the files of a behaviour to one profile; its steps are steps of `Next`.

`ArrayStoreProofs` proves the four properties of the run `ArrayStore` for all index
and element widths and all seeds (`StoreAssumption`: the widths are positive, and
powers of two are positive numbers, a fact of arithmetic the provers lack):

* `StoreInvariant`: `Spec => []IInv`, where `IInv` adds to `FixedReadsAsMemory` that each slot
  holds an array model (`Model`), and that an array with a seed has stored every element
  that is fixed (`Stored`). That is needed since a copy loses the seed: only
  elements that are stored survive it. The lemmas `ReadKeeps`,
  `WriteSets`, `CopyKeeps` and `NewModel` say what each call does to the elements, `CallSets`
  that every call puts an array into a slot that fits the memory beside it.
* `Typing`, `Reads`: `TypeOK` and `FixedReadsAsMemory` follow.
* `Equality`: `EqualIsSound`, by `EqualDenotes`: if not all elements are stored the
  defaults agree, and if all are then every element was compared (a counting
  argument on finite sets).
* `EqualityAfterRead`: `EqualAfterRead`.

The first part of `BtorSimProofs` proves four properties of the run `MCBtorSim_check` for
all models, tokens, seeds and numbers of frames, negated arguments and disorderly
witnesses included (`ModelsAssumption`: a table is finite and `Wired`, which `Wiring`
proves of the parser's tables; `TokenAssumption`: positions of claims are natural
numbers):

* `ProgressInvariant`: `Spec => []Progress`, which relates `pc` to `k`, `time`, `nxt` and
  `counted`: until the last frame is over, the last simulated one is the one before
  `k`; next states wait in `transition` only; a witness that is being followed has
  been counted, so that no other one is after it. Nearly all steps stay within a
  frame (`StepsWithin`), only `FinishStep` and `Transition` do not.
* `Handover`: `NextStateHandover` follows.
* `Reaching`: `ReachedExact`, from `Progress` and the types of `reached` (`Counts`): a bad
  reached in this frame was pending before (a counting argument on finite sets).
* `Acceptance`: `AcceptedIsWitnessed`, from `Progress`, `Counts` and `Claimed`: when the
  checker looks for a witness or ends, nothing is claimed that was not reached.
  That claims are bads rests on `RankExists` of `Btor2Lemmas`: a finite set of
  numbers has an n-th element.
* `Completeness`: `FrameComplete`, by the inductive invariant `FilledInvariant`, which says
  for each `pc` which states and inputs have a value at least and at most: a frame is
  filled in three places (state part, input part, initialisation), and the recursion
  of `simulate` adds values of other lines only.

`Btor2Lemmas` holds what the proofs of both programs need of values, for all widths
(`PowersAssumption` states the powers of two up to the largest width, arithmetic the
provers lack): what `Compute` makes of values that fit fits the sort of its line
(`ConsistentFits`), operation by operation, the bitwise ones and the sum of bits
included; and `Evaluate` gives each line the value its arguments determine
(`EvaluateDetermines`). Both are inductions over the table, in the form that a least
line that is an exception leads to a contradiction.

The second part of `BtorSimProofs` proves the other properties of that run but
`Termination`. The chain of invariants, each proved with those before it:

* `Placed`: only lines with a value are called, get one or are assigned.
* `Settled`, for witnesses that assign the states of the first frame in order (`InOrder`):
  what has been computed by then precedes every state that can still be assigned, so
  that no cached value is stale. From it `Coherence`: `CacheCoherent`. The hypothesis
  is needed: `MCBtorSim_reassigned` is the counterexample.
* `Initialising`: while an initial value is computed the recursion stays in a cone
  without inputs and later states. From it `RandomRuns`: `RandomNeverFails` for models
  that are `Simulatable` (nothing unsupported, no negated property, no leaf in the last
  line and no state initialised with itself: see the deviations above).
* `Supported`, `Fitting`: lines have a slot in `current_state`, and no evaluation,
  assignment or transition makes a value of another sort. From it `Typing`: `TypeOK`
  for models that are `WellSorted`, which adds to the parser's check what that leaves
  open (`ite`, `write`, `slice`, `eq`: the run `MCBtor2Parser_tables`).
* `InitialKept`, `Handed`: a state of the first frame has its initial value once it is
  read, and later ones the value of its next line in the frame before, through all
  three places where a frame is filled.
* `Refinement`: `Implements`, if all models are `WellSorted` and `Comparable` (each
  initialised state has a next line, and all lines have slots) and witnesses are
  orderly, or there are none. Each step of `BtorSim` is a step of `TransitionSystem` or
  a stutter: a frame of `TransitionSystem` is the `FinishStep` of `BtorSim`.

That the models of the run satisfy these hypotheses is an assumption TLC evaluates
(`SimulatedAssumption`).

`Btor2AigerProofs` proves for all `Wired` models (`ModelsAssumption`), all sets of bits
found constant and any number of frames:

* `Failures`: `FailsOnlyUnsupported`. The invariant `IInv` says that each leaf is
  added by the loop it belongs to or still pending (`Covered`), by which loop
  (`Sorted`), and that literals are bits of lines with values (`Used`). At the check
  nothing is pending, so the set of all lines with values is one that `IsDefined` asks
  for.
* `CircuitInvariant`: what is in the circuit is what the model asks for (`Made`), and all
  of that is in it or belongs to lines the loops have still to visit (`Complete`).
* `Typing`: `TypeOK`, for models whose lines have values (`Valued`: `WellSorted`, and no
  overflow predicate, which `Btor2Semantics` has no value for; TLC evaluates it for the
  models of the run, `ValuedAssumption`).
* `Frames`: `FramesKept`, and `Refinement`: `Implements`, both from `FrameAgrees`: a
  valuation is a frame of the circuit exactly if it is one of the model, but for the
  bits of the finding `MCBtor2Aiger_same`. Its lemmas do constraints, resets, initial
  constraints and next values bit by bit; numbers are equal if their bits are
  (`BitsDetermine`), which is why values must stay within their widths.

`VcdWriterProofs` proves all properties of the run `MCVcdWriter` for any lines, clocks,
values, frames and number of characters (`CharsAssumption`: more than one;
`LinesAssumption`: ids are numbers of one kind of line each, arrays store finitely many
elements; `ClocksAssumption` as the code asserts it). `WriterInvariant` is the inductive
invariant, in parts:

* `Numbered`: identifiers are the digits of different numbers, of which each is the
  identifier of one number only (`IdentifierUnique`, by the least number that shares its
  digits with another one). From it `Identifiers`.
* `Timed`, `TimesInOrder`: the log ends with the time of the last step, and ascends. From
  them `Times`.
* `EdgesOk`: clocks are on at each step and off half a step before. From it `Edges`.
* `Past`, `Present`, `PrevShown`: frames dumped are shown, and so are the lines of the
  present one that are done; a bit-vector is shown as it was last seen from the last
  step on, which is why nothing needs to be written when it has not changed. From them
  `ValuesAreShown`. Time is what keeps them apart: changes are made at the last time stamp
  (`Extends`), which is after all earlier frames, and of signals of one line (`Keeps`).

`Shows` says of a signal which change is the last before a time, and `ShowsShown` that
this is the one the viewer, `Shown`, finds.

`BtorSplitProofs` proves both properties of the run `MCBtorSplit` for any directory,
arguments and contents (`DirectoriesAssumption`, `ArgumentsAssumption`: files are
sequences of lines, arguments of names):

* `FilesKept`: `Spec => NothingOverwritten`.
* `Outputs`: `Spec => []OutputsSound`. The invariant is `SplitInv`: the files written so far
  are the outputs of the properties that have got theirs, under the first numbers,
  and numbers make different names (`NamesDiffer`). What an output means is a comparison
  of two folds, over the file and over the lines selected from it (`SelectionRight`). At
  each line the second table is the first without the properties dropped
  (`Without`), since nothing refers to a property (`Clean`), so that sorts compare the
  same (`SameSortWithout`), the checks of a line pass (`BodyWithout`, `SortsWithout`), and
  the line is stored and links the same (`ExtendedWithout`). That no line kept has
  the id of one dropped is where the ascending ids are needed (`IdsAscend`).

`BitVecReferenceProofs` proves the eight properties of the run
`LimbVecReference`, for all widths and operands. First the four about operations on
numbers. What bounds the widths is `MaxBitWidth` alone, up to which `PowersAssumption`
states the powers of two; two theorems need them for twice the width of the operands
(concatenations and extensions, and the product that a shift to the left cuts off), and
rotations a width below 2^`WordBits` (32 in the code).

* `ResultsAlwaysFit`: `ResultsFit`, each operation by the lemma of `Btor2Lemmas` for it.
* `RotationsRotate`: `RotationBelowWidth`, that rotations by at most the width move each bit
  as they should: one of two shifts makes each bit of a rotation, and the other one has
  zero there (`BitsOfShifts`, `BitsOfRotations`).
* `SignsAndPartsRight`: `SignedOrderAndParts`. The code compares signs first and then
  unsigned, and shifts the complement of a negative number, so the proof goes by the
  signs of the operands, and by quotients (`QuotientAndRest`) for shifts and slices.
* `DivisionRight`: `SignedDivision`, by the signs of both operands, the smallest number
  among them, which is its own negative; division by zero and width one, where the code
  has a formula of its own, are separate.

Then the three about operations on limbs, for limbs of any width `LimbBits` as well. They
speak of powers up to the width of the operands (twice the width, where results are that
wide) and 2 * `LimbBits` more: that much below `MaxBitWidth` must `MaxWidth` be.

* `LimbBitsAndOrderRight`: `LimbBitsAndOrder`. The limbs of a vector have the bits of its
  number and no others, and are determined by that (`BitOfLimb`, `LimbsDetermined`); masking
  clears the spare ones (`Masking`); limbs that agree above the first that differs leave the
  order to that one (`FirstLimbDecides`).
* `LimbArithmeticRight`: `LimbArithmetic`. The carry into a limb is what the lower ends of
  the operands give beyond it, which makes the sum's limbs those of the number
  (`SumOfLimbs`). For a loop the proof states what it has computed after each round, as a
  function of the round, and shows that a round leads from one such value to the next
  (`LoopComputes`): the product by the bits of one factor below the round (`MulOnLimbs`),
  in the long division the quotient and the rest of the bits brought down so far
  (`DivisionRound`, `LongDivisionOnLimbs`).
* `LimbShiftsAndPartsRight`: `LimbShiftsAndParts`. A limb of the result is made of the bits
  of two neighbours (`MovedUp`, `MovedDown`, `Joined`), whose places `SkippedLimbs` and
  `LimbsOfConcat` compute. The shift taken from a vector of more than 64 bits is its number,
  or too far (`ShiftAmount`). Two more hypotheses are what the code's types give: a width
  below 2^(2 * `LimbBits`), and limbs as wide as the unsigned int a shift to the left is cut
  to; or vectors no wider than it, which is the case TLC checks.

Last the one about constants, also for limbs of any width. What these proofs need of
numbers, of strings of digits and of loops is in the last part of `Btor2Lemmas`.

* `ConstantsReadAndPrintedRight`: `ConstantsReadAndPrinted`. A string of bits is stated as
  the bits of a number (`Str`), and each function on strings by the number it makes:
  sums by their carries (`SumOfStrings`), products by what the two ends of the register
  hold after each round (`RegisterStep`, `MultOnStrings`). The digits of a number are those
  of its quotient and one more (`DigitsAre`), so digits of any length, with zeros in front
  or not, stand for the number that multiplying and adding them up gives (`StandsFor`,
  `DecimalIsBinary`); the length of its string decides whether it fits (`DecimalFits`,
  `HexadecimalFits`). To print, each hexadecimal digit has four bits of the string
  (`PrintedInHexadecimal`), and each round of the decimal loop divides by ten on limbs
  (`RoundOnLimbs`) until nothing is left, which it is before the rounds run out
  (`DecimalRounds`). Its hypotheses are 16 bits more below `MaxBitWidth`, as the products by
  ten are wider than the constant and as ten needs a vector of four bits, and limbs of more
  than one bit, for the four bits of ten to fit in two limbs, the code's uint64_t.

Model-checked only: `Termination`, as liveness under fairness is out of this prover's
reach. Of the array models, `btorsim` and the VCD writer the hypotheses
above say where theorems are about fewer behaviours than the models have.

## Not modelled

* The characters of a BTOR2 file: numbers, symbols, comments, line numbers in
  messages. A statement is what scanning makes of a line.
* Of `btorsimbv.c`: random vectors in a range of bits, hashing, flipping bits, copying
  and allocation.
* The trace `btorsim` prints, options, the info file of AIGER witnesses as a file, fake
  properties; of the VCD writer the header, a tree of modules made from symbols, and
  readable identifiers.
* Of `btor2aiger` the and-gates one by one, which Boolector makes, the options but `-i`,
  and symbols.
* Stacks and memory; the arithmetic of the random number generator, of which any value
  is assumed.

## Plan

1. Done: the parser, bit-vectors on numbers and on limbs, constants, arrays, the
   simulator and witness checker with its refinement, the VCD writer, `btor2aiger` with
   its refinement, `btorsplit`, `catbtor`; the proofs above.
2. Done: the proofs of `BtorSim` and `Btor2Aiger`, with both refinements of
   `TransitionSystem`, of all invariants of the parser, of `catbtor`, of the VCD writer and
   of `btorsplit`, of the operations on numbers and on limbs, and of the conversions of
   constants.
3. The info file of `btorsim` (bads of AIGER witnesses), if its reading can be told apart
   from its formatting.
