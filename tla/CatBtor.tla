------------------------------ MODULE CatBtor ------------------------------
(***************************************************************************)
(* catbtor.c: the client that iterates over a table and prints each line.  *)
(* What it prints is a file again, and keeps nothing of its own.           *)
(***************************************************************************)
EXTENDS Btor2Parser, SequencesExt

\* The line in the words of the file.  A sort shows what its union holds, other
\* lines the id of their sort if they have one.
SortNumbers_swapped(l) ==
    IF IsBitvec(l) THEN <<Width(l)>> ELSE <<l.sort.element, l.sort.word>>
SortNumbers(l) ==
    IF IsBitvec(l) THEN <<Width(l)>> ELSE <<l.sort.word, l.sort.element>>

Printed(l) ==
    [id |-> l.id, tag |-> l.tag, kind |-> l.sort.tag,
     sid |-> IF l.tag = "sort" THEN 0 ELSE l.sort.id,
     args |-> l.args,
     imm |-> IF l.tag = "sort" THEN SortNumbers(l) ELSE l.imm,
     lex |-> "ok"]

\* What is printed so far.
Output == [n \in DOMAIN seen |-> Printed(lines[seen[n]])]

\* The table of the lines the parser accepts one after the other.
Reread(file) ==
    FoldLeft(LAMBDA T, s : IF /\ \A j \in DOMAIN T : j < s.id
                              /\ BodyOk(T, s)
                              /\ SortsOk(T, LineOf(T, s))
                           THEN Extended(T, s) ELSE T,
             NoLines, file)

\* What catbtor prints of a file is a file with the same table, links included: the
\* lines keep all that is said of them, and their order is one in which everything
\* is defined before it is used.  Not so with justice lines, of which the number of
\* arguments is not printed.
OutputReadsBack ==
    /\ it = 0 /\ seen # <<>>
    /\ \A i \in DOMAIN lines : lines[i].tag # "justice"
    => Reread(Output) = lines

=============================================================================
