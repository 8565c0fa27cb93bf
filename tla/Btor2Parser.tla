----------------------------- MODULE Btor2Parser -----------------------------
(***************************************************************************)
(* btor2parser.c: a Btor2Parser reads one file after the other into its    *)
(* table of lines, and clients iterate over the table.                     *)
(*                                                                         *)
(* The input is arbitrary: each step of read_lines meets any statement of  *)
(* the constant set Statement, or the end of the file.  A parser is used   *)
(* by one thread; a client does not read a second file in the middle of an *)
(* iteration (none of catbtor, btorsim, btor2aiger does).                  *)
(***************************************************************************)
EXTENDS Btor2Format

CONSTANT
    Statement  \* the lines a file may hold, scanned

ASSUME StatementAssumption == Statement \subseteq StatementType

VARIABLES
    lines,    \* bfr->table without its null entries: id -> line
    ntable,   \* bfr->ntable
    reading,  \* btor2parser_read_lines has not returned yet
    error,    \* bfr->error: "none", or the stage that failed
    it,       \* Btor2LineIterator.next: the id of the next line, 0 at the end
    seen      \* the ids btor2parser_iter_next returned since iter_init

vars == <<lines, ntable, reading, error, it, seen>>

NoLines == [i \in {} |-> 0]

TypeOK ==
    /\ DOMAIN lines \subseteq 1 .. ntable - 1
    /\ \A i \in DOMAIN lines : lines[i] \in Line
    /\ ntable \in Nat
    /\ reading \in BOOLEAN
    /\ error \in {"none", "head", "body", "sorts", "tail"}
    /\ it \in Nat
    /\ seen \in Seq(Nat)

\* btor2parser_new
Init == /\ lines = NoLines
        /\ ntable = 0
        /\ reading = FALSE
        /\ error = "none"
        /\ it = 0
        /\ seen = <<>>

----------------------------------------------------------------------------
(* Reading.                                                                *)

\* The call of btor2parser_read_lines: reset_bfr, then the loop of readl_bfr.
ReadLines == /\ ~reading
             /\ reading' = TRUE
             /\ lines' = NoLines
             /\ ntable' = 0
             /\ error' = "none"
             /\ it' = 0
             /\ seen' = <<>>

\* readl_bfr returns 0 at the end of the file, and so does the loop.
EndOfFile == /\ reading
             /\ reading' = FALSE
             /\ UNCHANGED <<lines, ntable, error, it, seen>>

\* perr_bfr: the error is set, and every caller up to the loop returns 0.
Fail(stage) == error' = stage /\ reading' = FALSE

\* The id or the tag is malformed, or the id is not above all earlier ones.
HeadOk_again(s) == s.lex # "head" /\ s.id >= ntable - 1
HeadOk(s) == s.lex # "head" /\ s.id >= ntable

RejectHead(s) == /\ reading
                 /\ ~HeadOk(s)
                 /\ Fail("head")
                 /\ UNCHANGED <<lines, ntable, it, seen>>

\* new_line_bfr has filled the table up to the id, the line is not stored.
RejectBody(s) == /\ reading
                 /\ HeadOk(s)
                 /\ ~BodyOk(lines, s)
                 /\ Fail("body")
                 /\ ntable' = s.id
                 /\ UNCHANGED <<lines, it, seen>>

\* PARSE stores the line first and then checks its sorts and its end.
Store_no_slot(s) ==
    /\ reading
    /\ HeadOk(s)
    /\ BodyOk(lines, s)
    /\ lines' = Extended(lines, s)
    /\ ntable' = s.id
    /\ UNCHANGED <<it, seen>>
Store(s) == /\ reading
            /\ HeadOk(s)
            /\ BodyOk(lines, s)
            /\ lines' = Extended(lines, s)
            /\ ntable' = s.id + 1
            /\ UNCHANGED <<it, seen>>

AcceptLine(s) == /\ Store(s)
                 /\ SortsOk(lines, LineOf(lines, s))
                 /\ s.lex # "tail"
                 /\ UNCHANGED <<reading, error>>

RejectSorts(s) == /\ Store(s)
                  /\ ~SortsOk(lines, LineOf(lines, s))
                  /\ Fail("sorts")

RejectTail(s) == /\ Store(s)
                 /\ SortsOk(lines, LineOf(lines, s))
                 /\ s.lex = "tail"
                 /\ Fail("tail")

ReadLine(s) == \/ RejectHead(s)
               \/ RejectBody(s)
               \/ AcceptLine(s)
               \/ RejectSorts(s)
               \/ RejectTail(s)

----------------------------------------------------------------------------
(* Iterating.                                                              *)

\* find_non_zero_line_bfr
NextLine_after(start) ==
    IF \E i \in DOMAIN lines : i > start
    THEN CHOOSE i \in DOMAIN lines :
           i > start /\ \A j \in DOMAIN lines : j > start => i <= j
    ELSE 0
NextLine(start) ==
    IF \E i \in DOMAIN lines : i >= start
    THEN CHOOSE i \in DOMAIN lines :
           i >= start /\ \A j \in DOMAIN lines : j >= start => i <= j
    ELSE 0

IterInit == /\ ~reading
            /\ it' = IF error # "none" THEN 0 ELSE NextLine(1)
            /\ seen' = <<>>
            /\ UNCHANGED <<lines, ntable, reading, error>>

IterNext == /\ ~reading
            /\ it # 0
            /\ seen' = Append(seen, it)
            /\ it' = NextLine(it + 1)
            /\ UNCHANGED <<lines, ntable, reading, error>>

Next == \/ ReadLines
        \/ EndOfFile
        \/ \E s \in Statement : ReadLine(s)
        \/ IterInit
        \/ IterNext

Spec == Init /\ [][Next]_vars

----------------------------------------------------------------------------
(* What the users of the table rely on.                                    *)

\* The id i of the table resolves: its arguments and its sort are earlier lines
\* of the right kind, and the sort it carries is the one of its sort line.
Resolved(T, i) ==
    LET l == T[i]
    IN  /\ l.id = i
        /\ \A k \in DOMAIN l.args :
             /\ Abs(l.args[k]) \in DOMAIN T
             /\ Abs(l.args[k]) < i
             /\ Arg(T, l, k).tag \notin NonArguments \cup {"output"}
        /\ l.tag \in SortedTags =>
             /\ l.sort.id \in DOMAIN T
             /\ l.sort.id < i
             /\ T[l.sort.id].tag = "sort"
             /\ T[l.sort.id].sort = l.sort
        /\ l.tag = "sort" => l.sort.id = i
        /\ l.tag = "sort" /\ IsArray(l) =>
             \A j \in {l.sort.word, l.sort.element} :
                j \in DOMAIN T /\ j < i /\ T[j].tag = "sort"

\* All lines of the table resolve, so it is a DAG in the order of the ids, and
\* btorsim may recur over arguments without a check.  Also of the lines that
\* stay in the table after an error.
ReferencesResolved == \A i \in DOMAIN lines : Resolved(lines, i)

\* The init (next) lines of the state i in the table, and that the value is what
\* they say.
LinksOf(T, tag, i) == {j \in DOMAIN T : T[j].tag = tag /\ T[j].args[1] = i}

Linked(T, tag, i, value) ==
    \/ value = 0 /\ LinksOf(T, tag, i) = {}
    \/ \E j \in LinksOf(T, tag, i) :
          LinksOf(T, tag, i) = {j} /\ T[j].args[2] = value

\* The fields init and next of a state say what its init and next lines say,
\* and there is at most one of each per state: what btorsim reads from a state
\* is what the file states, however its lines are ordered.
StateLinks ==
    \A i \in DOMAIN lines :
        /\ Linked(lines, "init", i, lines[i].init)
        /\ Linked(lines, "next", i, lines[i].next)

\* An initial value depends on no input and on no state that comes after the
\* initialised one: btorsim computes initial values in one pass over the
\* states, in the order of their ids, before any input has a value.
InitConesOrdered ==
    \A i \in DOMAIN lines :
       lines[i].init # 0 =>
         \E S \in SUBSET {j \in DOMAIN lines : lines[j].tag # "input" /\ j <= i} :
            HoldsCone(lines, Abs(lines[i].init), S)

\* The type a sort line denotes, and the types of a line and its arguments.
TypeOf(T, sid) ==
    LET type[i \in SortLines(T)] ==
          IF T[i].sort.tag = "bitvec"
          THEN <<"bitvec", T[i].sort.word>>
          ELSE <<"array", type[T[i].sort.word], type[T[i].sort.element]>>
    IN  type[sid]

B(n) == <<"bitvec", n>>
A(index, element) == <<"array", index, element>>

ResultType(l) == TypeOf(lines, l.sort.id)
ArgTypes(l) == [k \in DOMAIN l.args |-> TypeOf(lines, Arg(lines, l, k).sort.id)]

\* The signatures of src/README.md:128-147, for the operators of which
\* check_sorts_bfr checks the whole signature; a next line has one sort throughout.
Signature(l) ==
    LET r == ResultType(l)
        x == ArgTypes(l)
    IN  /\ l.tag \in Unary => r[1] = "bitvec" /\ x = <<r>>
        /\ l.tag \in Reductions => r = B(1) /\ x[1][1] = "bitvec"
        /\ l.tag \in Binary => r[1] = "bitvec" /\ x = <<r, r>>
        /\ l.tag \in Predicates =>
             r = B(1) /\ x[1] = x[2] /\ x[1][1] = "bitvec"
        /\ l.tag \in Connectives => r = B(1) /\ x = <<B(1), B(1)>>
        /\ l.tag = "concat" => /\ \A k \in 1 .. 2 : x[k][1] = "bitvec"
                               /\ r = B(x[1][2] + x[2][2])
        /\ l.tag \in Extensions => /\ x[1][1] = "bitvec"
                                   /\ r = B(x[1][2] + l.imm[1])
        /\ l.tag = "read" => x[1] = A(x[2], r)
        /\ l.tag = "next" => x = <<r, r>>

\* The left-hand sides of the signatures of the others: :129, :144, :157 and :158,
\* where ite chooses between arrays too.
Operands(l) ==
    LET x == ArgTypes(l)
    IN  /\ l.tag = "slice" => x[1][1] = "bitvec"
        /\ l.tag \in Equalities => x[1] = x[2]
        /\ l.tag = "ite" => x[1] = B(1) /\ x[2] = x[3]
        /\ l.tag = "write" => x[1] = A(x[2], x[3])

\* And the whole of them.
RemainingSignature(l) ==
    LET r == ResultType(l)
        x == ArgTypes(l)
    IN  /\ Operands(l)
        /\ l.tag = "slice" => /\ x[1][2] > l.imm[1] /\ l.imm[1] >= l.imm[2]
                              /\ r = B(l.imm[1] - l.imm[2] + 1)
        /\ l.tag \in Equalities => r = B(1)
        /\ l.tag = "ite" => r = x[2]
        /\ l.tag = "write" => r = x[1]

\* A state starts with a value of its type or, an array, with that of an element
\* everywhere; of two arrays the types are not compared.
InitFits(l) ==
    LET r == ResultType(l)
        x == ArgTypes(l)
    IN  l.tag = "init" =>
          /\ x[1] = r
          /\ \/ x[2] = r
             \/ r[1] = "array" /\ (x[2] = r[3] \/ x[2][1] = "array")

\* The lines whose sorts were checked: those of a table read without error, and
\* all but the last one of a table that failed.
CheckedLines == {i \in DOMAIN lines : error = "none" \/ i # ntable - 1}

\* In a checked line an operator is applied to operands it is defined for, and has
\* the result its signature says: btorsim asserts as much, or relies on it without
\* a check.  Of slice, the equalities, ite and write this says nothing but what
\* their operands are; the whole signatures are OperatorTables below.
LinesWellSorted ==
    \A i \in CheckedLines :
       LET l == lines[i]
       IN  /\ l.tag \in SortedTags => Signature(l) /\ Operands(l) /\ InitFits(l)
           /\ l.tag \in Properties \cup {"justice"} =>
                \A k \in DOMAIN l.args : ArgTypes(l)[k] = B(1)

\* The iteration visits exactly the lines of the table, in ascending order and
\* each once, and it visits nothing of a table that was read with an error.
IterationExact ==
    /\ \A m, n \in DOMAIN seen : m < n => seen[m] < seen[n]
    /\ it # 0 => it \in DOMAIN lines
    /\ it # 0 \/ seen # <<>> =>
         /\ error = "none"
         /\ {seen[n] : n \in DOMAIN seen} =
              {i \in DOMAIN lines : it = 0 \/ i < it}

\* Until the next file is read, a stored line keeps its contents - a link of a
\* state is set once and then stays - and nothing is stored after an error.
LinesStable ==
    [][lines' # NoLines =>
         /\ error # "none" => lines' = lines /\ error' = error
         /\ \A i \in DOMAIN lines :
              /\ i \in DOMAIN lines'
              /\ lines'[i].init # lines[i].init => lines[i].init = 0
              /\ lines'[i].next # lines[i].next => lines[i].next = 0
              /\ lines'[i] = [lines[i] EXCEPT !.init = lines'[i].init,
                                              !.next = lines'[i].next]]_vars

----------------------------------------------------------------------------
(* What the README says of the program beyond that.                        *)

\* src/README.md:129, 144, 157 and 158: the bounds of a slice are within its
\* operand, an equality is a bit, an ite has the type of its branches and a write
\* that of the array it is applied to.
OperatorTables ==
    \A i \in CheckedLines : lines[i].tag \in SortedTags => RemainingSignature(lines[i])

=============================================================================
