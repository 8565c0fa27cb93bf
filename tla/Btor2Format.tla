---------------------------- MODULE Btor2Format ----------------------------
(***************************************************************************)
(* The lines of a BTOR2 model as btor2parser.h declares them, and what     *)
(* btor2parser.c asks of a line before it accepts it: the parse_*_bfr      *)
(* functions and check_sorts_bfr as predicates over a table of lines.      *)
(*                                                                         *)
(* A table is a partial function from ids to lines: id2line_bfr (T, a) is  *)
(* T[Abs(a)], and an id outside DOMAIN T is a null entry of bfr->table.    *)
(***************************************************************************)
EXTENDS Integers, Sequences, FiniteSets

CONSTANT
    MaxBitWidth  \* BTOR2_FORMAT_MAXBITWIDTH, 2^31 - 1: numbers stay below it,
                 \* so the sum of two fits the uint32_t of the code

ASSUME MaxBitWidthAssumption == MaxBitWidth \in Nat /\ MaxBitWidth > 1

Abs(a) == IF a < 0 THEN -a ELSE a

----------------------------------------------------------------------------
(* Tags, grouped as the switch of check_sorts_bfr groups them.             *)

Constants   == {"const", "constd", "consth", "one", "ones", "zero"}
Unary       == {"dec", "inc", "neg", "not"}
Reductions  == {"redand", "redor", "redxor"}
Binary      == {"add", "and", "mul", "nand", "nor", "or", "rol", "ror", "sdiv",
                "sll", "smod", "sra", "srem", "srl", "sub", "udiv", "urem",
                "xnor", "xor"}
Predicates  == {"uaddo", "ugt", "ugte", "ult", "ulte", "umulo", "usubo",
                "saddo", "sdivo", "sgt", "sgte", "slt", "slte", "smulo",
                "ssubo"}
Equalities  == {"eq", "neq"}
Connectives == {"iff", "implies"}
Extensions  == {"sext", "uext"}
Links       == {"init", "next"}
Properties  == {"bad", "constraint", "fair"}

UnaryTags   == Unary \cup Reductions \cup Extensions \cup {"slice"}
BinaryTags  == Binary \cup Predicates \cup Equalities \cup Connectives
                 \cup {"concat", "read"} \cup Links
TernaryTags == {"ite", "write"}

\* Tags whose line starts with a sort id (parse_sort_id_bfr).
SortedTags  == Constants \cup {"input", "state"} \cup UnaryTags
                 \cup BinaryTags \cup TernaryTags

Tag == SortedTags \cup Properties \cup {"sort", "output", "justice"}

\* The lines parse_arg_bfr refuses as an argument by their tag.
NonArguments == {"sort", "init", "next", "bad", "constraint", "fair", "justice"}

\* The number of node arguments; a justice line states its own.
Arity == [t \in Tag |-> CASE t \in UnaryTags \cup Properties \cup {"output"} -> 1
                          [] t \in BinaryTags  -> 2
                          [] t \in TernaryTags -> 3
                          [] OTHER             -> 0]

----------------------------------------------------------------------------
(* Sorts and lines.  A Btor2Sort holds its width and its index sort id in  *)
(* one union, "word" here; new_line_bfr zeroes the line, and zero is       *)
(* BTOR2_TAG_SORT_array.                                                   *)

Sort   == [id : Nat, tag : {"array", "bitvec"}, word : Nat, element : Nat]
NoSort == [id |-> 0, tag |-> "array", word |-> 0, element |-> 0]

Line == [id : Nat, tag : Tag, sort : Sort, args : Seq(Int), imm : Seq(Int),
         init : Int, next : Int]

\* A line of the file, scanned.  "sid" is the sort id after the tag (0: none),
\* "args" the signed node ids, "imm" the other numbers: a width, the ids of an
\* array sort, an extension, the bounds of a slice, a constant.  "lex" says
\* where the text itself first breaks the grammar: before the line is
\* allocated ("head"), before it is stored ("body"), after ("tail").
StatementType ==
    [id : Nat \ {0}, tag : Tag, kind : {"array", "bitvec"}, sid : Nat,
     args : Seq(Int), imm : Seq(Int), lex : {"ok", "head", "body", "tail"}]

Arg(T, l, i) == T[Abs(l.args[i])]
IsBitvec(l)  == l.sort.tag = "bitvec"
IsArray(l)   == l.sort.tag = "array"

\* The width as the code reads it: of an array sort it is what the union
\* holds, the id of the index sort.
Width(l) == l.sort.word

SortLines(T) == {i \in DOMAIN T : T[i].tag = "sort"}

\* cmp_sort_ids: the two sort lines describe the same sort.
SameSort(T, i, j) ==
    LET same[p \in SortLines(T) \X SortLines(T)] ==
          LET s == T[p[1]].sort
              t == T[p[2]].sort
          IN  /\ s.tag = t.tag
              /\ s.tag = "bitvec" => s.word = t.word
              /\ s.tag = "array"  => /\ same[<<s.word, t.word>>]
                                     /\ same[<<s.element, t.element>>]
    IN  same[<<i, j>>]

SameSorts(T, k, l) == SameSort(T, k.sort.id, l.sort.id)

----------------------------------------------------------------------------
(* Parsing the body of a line.                                             *)

\* parse_sort_id_bfr
SortIdOk(T, sid) == sid \in DOMAIN T /\ T[sid].tag = "sort"

\* parse_arg_bfr
ArgOk_any_tag(T, a) == Abs(a) \in DOMAIN T /\ T[Abs(a)].sort.id # 0
ArgOk(T, a) == /\ Abs(a) \in DOMAIN T
               /\ T[Abs(a)].tag \notin NonArguments
               /\ T[Abs(a)].sort.id # 0

\* parse_sort_bfr
SortBodyOk(T, s) ==
    IF s.kind = "bitvec"
    THEN Len(s.imm) = 1 /\ s.imm[1] \in 1 .. MaxBitWidth - 1
    ELSE Len(s.imm) = 2 /\ \A i \in 1 .. 2 : SortIdOk(T, s.imm[i])

\* parse_constant_bfr: the number fits the width (check_constd, check_consth).
\* A "const" is the number of its digits and its value, the others the value.
ConstantFits(s, w) ==
    CASE s.tag = "const"  -> Len(s.imm) = 2 /\ s.imm[1] = w
      [] s.tag = "constd" -> /\ Len(s.imm) = 1
                             /\ s.imm[1] \in -(2 ^ (w - 1)) .. 2 ^ w - 1
      [] s.tag = "consth" -> Len(s.imm) = 1 /\ s.imm[1] \in 0 .. 2 ^ w - 1
      [] OTHER            -> s.imm = <<>>

ConstantBodyOk(T, s) == /\ T[s.sid].sort.tag = "bitvec"
                        /\ ConstantFits(s, T[s.sid].sort.word)

\* check_state_init: no input is reachable from the line.  A set that holds the
\* line and the arguments of its members holds everything reachable from it.
InputFree_itself(T, id) == T[Abs(id)].tag # "input"
InputFree(T, id) ==
    \E S \in SUBSET {i \in DOMAIN T : T[i].tag # "input"} :
        /\ Abs(id) \in S
        /\ \A i \in S : \A k \in DOMAIN T[i].args : Abs(T[i].args[k]) \in S

\* parse_init_bfr
InitBodyOk(T, s) ==
    /\ s.args[1] > 0
    /\ T[s.args[1]].tag = "state"
    /\ s.args[1] >= Abs(s.args[2])
    /\ InputFree(T, s.args[2])
    /\ T[s.args[1]].init = 0

\* parse_next_bfr
NextBodyOk_relinking(T, s) == s.args[1] > 0 /\ T[s.args[1]].tag = "state"
NextBodyOk(T, s) ==
    /\ s.args[1] > 0
    /\ T[s.args[1]].tag = "state"
    /\ T[s.args[1]].next = 0

\* parse_ext_bfr and parse_slice_bfr
IndexesOk(s) ==
    /\ s.tag \in Extensions => Len(s.imm) = 1 /\ s.imm[1] \in 0 .. MaxBitWidth - 1
    /\ s.tag = "slice" => /\ Len(s.imm) = 2
                          /\ \A i \in 1 .. 2 : s.imm[i] \in 0 .. MaxBitWidth - 1
                          /\ s.imm[2] <= s.imm[1]

\* The parse_*_bfr function of the line's tag returns 1.
BodyOk(T, s) ==
    /\ s.lex # "body"
    /\ s.tag \in SortedTags => SortIdOk(T, s.sid)
    /\ s.tag # "justice" => Len(s.args) = Arity[s.tag]
    /\ \A i \in DOMAIN s.args : ArgOk(T, s.args[i])
    /\ s.tag = "sort" => SortBodyOk(T, s)
    /\ s.tag \in Constants => ConstantBodyOk(T, s)
    /\ s.tag = "init" => InitBodyOk(T, s)
    /\ s.tag = "next" => NextBodyOk(T, s)
    /\ IndexesOk(s)

\* The line the statement becomes: parse_sort_id_bfr copies the whole sort,
\* its id included.
SortOf(T, s) ==
    CASE s.tag \in SortedTags -> T[s.sid].sort
      [] s.tag = "sort" /\ s.kind = "bitvec" ->
           [id |-> s.id, tag |-> "bitvec", word |-> s.imm[1], element |-> 0]
      [] s.tag = "sort" /\ s.kind = "array" ->
           [id |-> s.id, tag |-> "array",
            word |-> T[s.imm[1]].sort.id, element |-> T[s.imm[2]].sort.id]
      [] OTHER -> NoSort

LineOf(T, s) ==
    [id |-> s.id, tag |-> s.tag, sort |-> SortOf(T, s), args |-> s.args,
     imm |-> IF s.tag = "sort" THEN <<>> ELSE s.imm, init |-> 0, next |-> 0]

\* The table with the line of s at its end.  parse_init_bfr and parse_next_bfr
\* link the state to its value before the line is stored.
Extended(T, s) ==
    [i \in DOMAIN T \cup {s.id} |->
       CASE i = s.id -> LineOf(T, s)
         [] i # s.id /\ s.tag = "init" /\ i = s.args[1] ->
              [T[i] EXCEPT !.init = s.args[2]]
         [] i # s.id /\ s.tag = "next" /\ i = s.args[1] ->
              [T[i] EXCEPT !.next = s.args[2]]
         [] OTHER -> T[i]]

----------------------------------------------------------------------------
(* check_sorts_bfr.                                                        *)

\* check_sort_bitvec
AllBitvec(T, l) ==
    IsBitvec(l) /\ \A i \in DOMAIN l.args : IsBitvec(Arg(T, l, i))

IsBool(l) == IsBitvec(l) /\ Width(l) = 1

\* case BTOR2_TAG_init, which falls through to next unless the sort is an array
InitSortsOk_no_element(T, l) ==
    /\ SameSorts(T, l, Arg(T, l, 1))
    /\ ~IsArray(l) => SameSorts(T, l, Arg(T, l, 2))
    /\ IsArray(l) /\ IsBitvec(Arg(T, l, 2)) => Arg(T, l, 2).tag \in Constants
InitSortsOk(T, l) ==
    /\ SameSorts(T, l, Arg(T, l, 1))
    /\ ~IsArray(l) => SameSorts(T, l, Arg(T, l, 2))
    /\ IsArray(l) /\ IsBitvec(Arg(T, l, 2)) =>
         /\ Arg(T, l, 2).tag \in Constants
         /\ SameSort(T, l.sort.element, Arg(T, l, 2).sort.id)

\* case BTOR2_TAG_read
ReadSortsOk(T, l) ==
    /\ IsArray(Arg(T, l, 1))
    /\ SameSort(T, l.sort.id, Arg(T, l, 1).sort.element)
    /\ SameSort(T, Arg(T, l, 2).sort.id, Arg(T, l, 1).sort.word)

\* case BTOR2_TAG_write
WriteSortsOk(T, l) ==
    /\ IsArray(l)
    /\ IsArray(Arg(T, l, 1))
    /\ SameSort(T, Arg(T, l, 2).sort.id, Arg(T, l, 1).sort.word)
    /\ SameSort(T, Arg(T, l, 3).sort.id, Arg(T, l, 1).sort.element)

SortsOk(T, l) ==
    LET t == l.tag
        a(i) == Arg(T, l, i)
    IN  /\ \A i \in DOMAIN l.args : ~(IsArray(a(i)) /\ l.args[i] < 0)
        /\ t \in Unary => AllBitvec(T, l) /\ Width(l) = Width(a(1))
        /\ t \in Reductions => AllBitvec(T, l) /\ Width(l) = 1
        /\ t \in Binary =>
             AllBitvec(T, l) /\ Width(l) = Width(a(1)) /\ Width(l) = Width(a(2))
        /\ t \in Predicates =>
             AllBitvec(T, l) /\ Width(l) = 1 /\ Width(a(1)) = Width(a(2))
        /\ t \in Equalities => Width(l) = 1 /\ SameSorts(T, a(1), a(2))
        /\ t \in Connectives =>
             AllBitvec(T, l) /\ Width(l) = 1 /\ Width(a(1)) = 1 /\ Width(a(2)) = 1
        /\ t = "concat" =>
             AllBitvec(T, l) /\ Width(l) = Width(a(1)) + Width(a(2))
        /\ t = "slice" =>
             AllBitvec(T, l) /\ Width(l) = l.imm[1] - l.imm[2] + 1
        /\ t \in Extensions =>
             AllBitvec(T, l) /\ Width(l) = Width(a(1)) + l.imm[1]
        /\ t \in Properties \cup {"justice"} =>
             \A i \in DOMAIN l.args : IsBool(a(i))
        /\ t = "output" => IsBitvec(a(1))
        /\ t = "ite" => IsBool(a(1)) /\ SameSorts(T, a(2), a(3))
        /\ t = "next" => SameSorts(T, l, a(1)) /\ SameSorts(T, l, a(2))
        /\ t = "init" => InitSortsOk(T, l)
        /\ t = "read" => ReadSortsOk(T, l)
        /\ t = "write" => WriteSortsOk(T, l)

----------------------------------------------------------------------------
(* What the programs that use a table rely on without a check: sorts are   *)
(* those of sort lines, arguments are earlier lines with a value, initial  *)
(* values depend on no input and on no state after the initialised one,    *)
(* and next values are arguments of next lines.                            *)

ArgumentLines(T) ==
    {i \in DOMAIN T : T[i].tag \notin NonArguments \cup {"output"}}

\* S holds all lines the value of i is computed from, itself included.
HoldsCone(T, i, S) ==
    /\ i \in S
    /\ \A j \in S : \A k \in DOMAIN T[j].args : Abs(T[j].args[k]) \in S

Wired(T) ==
    /\ DOMAIN T \subseteq Nat \ {0}
    /\ \A i \in DOMAIN T :
         /\ T[i] \in Line
         /\ T[i].tag \in SortedTags =>
              \E j \in DOMAIN T : T[j].tag = "sort" /\ T[j].sort = T[i].sort
         /\ T[i].tag # "justice" => Len(T[i].args) = Arity[T[i].tag]
         /\ \A k \in DOMAIN T[i].args :
              Abs(T[i].args[k]) \in ArgumentLines(T) /\ Abs(T[i].args[k]) < i
         /\ T[i].init # 0 =>
              \E S \in SUBSET {j \in ArgumentLines(T) : T[j].tag # "input" /\ j <= i} :
                 HoldsCone(T, Abs(T[i].init), S)
         /\ T[i].next # 0 =>
              \E j \in DOMAIN T : T[j].tag = "next" /\ T[j].args[2] = T[i].next

=============================================================================
