------------------------------ MODULE BtorSplit ------------------------------
(***************************************************************************)
(* btorsplit.cpp: a file with several properties becomes several files     *)
(* with one property each.                                                 *)
(*                                                                         *)
(* btorsplit does not parse: of a line it only looks for the word "bad" in *)
(* the text.  A line is its statement (a comment has none) and whether its *)
(* text has that word, which a symbol or a comment may be the reason for.  *)
(***************************************************************************)
EXTENDS Btor2Format, SequencesExt

CONSTANTS
    Directories,  \* what the directory may hold at first: file name -> lines
    Arguments     \* the lists of files btorsplit may be called with

\* A line of a file: its statement, and whether the word is in it.
FileLine == [stmt : StatementType \cup {[tag |-> "comment"]}, bad : BOOLEAN]

\* The name of a file: what it is up to the last dot, with the numbers btorsplit
\* added there, and whether there is a dot.
FileName == [prefix : STRING, parts : Seq(Nat), dot : BOOLEAN]

ASSUME DirectoriesAssumption ==
    \A d \in Directories : \A f \in DOMAIN d : d[f] \in Seq(FileLine)
ASSUME ArgumentsAssumption == Arguments \subseteq Seq(FileName)

VARIABLES
    directory,  \* the files
    overwrite,  \* the option -f
    infiles,    \* the files still to be split, the current one first
    pc,         \* "read", "write", or how the program ended
    lines, bad, \* the current file, and the line numbers of its properties
    written     \* those that have got their file

vars == <<directory, overwrite, infiles, pc, lines, bad, written>>

\* The name of an output, and how many there are.
OutputName(f, n) == [f EXCEPT !.parts = Append(@, n)]
num_prop == Cardinality(written)

Init == /\ directory \in Directories
        /\ overwrite \in BOOLEAN
        /\ infiles \in Arguments
        /\ pc = "read"
        /\ lines = <<>> /\ bad = {} /\ written = {}

----------------------------------------------------------------------------
\* A file that does not exist has no lines.
Content(f) == IF f \in DOMAIN directory THEN directory[f] ELSE <<>>

PropertiesOf(s) == {i \in DOMAIN s : s[i].bad}

NextFile == infiles' = Tail(infiles) /\ pc' = "read"

\* The loop over getline: there may be nothing to split, and substr throws an
\* exception if the name has no suffix.
ReadFile ==
    /\ pc = "read" /\ infiles # <<>>
    /\ LET f == Head(infiles)
       IN  /\ lines' = Content(f)
           /\ bad' = PropertiesOf(Content(f))
           /\ written' = {}
           /\ IF Cardinality(PropertiesOf(Content(f))) <= 1 THEN NextFile
              ELSE /\ pc' = IF f.dot THEN "write" ELSE "abort"
                   /\ UNCHANGED infiles
    /\ UNCHANGED <<directory, overwrite>>

\* The lines of s at the places I, in the order of the file.
Selected(s, I) ==
    LET upto[n \in 0 .. Len(s)] ==
          IF n = 0 THEN <<>>
          ELSE IF n \in I THEN Append(upto[n - 1], s[n]) ELSE upto[n - 1]
    IN  upto[Len(s)]

\* The lines of the output for property p: all but the other properties.
OutputLines_no_property(p) == Selected(lines, DOMAIN lines \ bad)
OutputLines(p) == Selected(lines, {i \in DOMAIN lines : i \notin bad \/ i = p})

Refused_input(f) == ~overwrite /\ f \in {Head(infiles)}
Refused(f) == ~overwrite /\ f \in DOMAIN directory

\* The body of the loop over the set of properties, in any order.
WriteProperty(p) ==
    /\ pc = "write" /\ p \in bad \ written
    /\ LET f == OutputName(Head(infiles), num_prop)
       IN  IF Refused(f)
           THEN pc' = "error" /\ UNCHANGED <<directory, written>>
           ELSE /\ directory' = [g \in DOMAIN directory \cup {f} |->
                                   IF g = f THEN OutputLines(p) ELSE directory[g]]
                /\ written' = written \cup {p}
                /\ UNCHANGED pc
    /\ UNCHANGED <<overwrite, infiles, lines, bad>>

FileSplit ==
    /\ pc = "write" /\ bad = written
    /\ NextFile
    /\ UNCHANGED <<directory, overwrite, lines, bad, written>>

Exit ==
    /\ pc = "read" /\ infiles = <<>>
    /\ pc' = "ok"
    /\ UNCHANGED <<directory, overwrite, infiles, lines, bad, written>>

Terminated == pc \in {"ok", "error", "abort"} /\ UNCHANGED vars

Next == ReadFile \/ (\E p \in bad : WriteProperty(p)) \/ FileSplit \/ Exit \/ Terminated

Spec == Init /\ [][Next]_vars

----------------------------------------------------------------------------
(* What the parser makes of a file.                                        *)

\* The parser skips comments.
WithLine(T, l) == IF l.stmt.tag = "comment" THEN T ELSE Extended(T, l.stmt)
TableOf(s) == FoldLeft(WithLine, [i \in {} |-> 0], s)

Accepts(T, s) == /\ s.lex = "ok"
                 /\ \A j \in DOMAIN T : j < s.id
                 /\ BodyOk(T, s)
                 /\ SortsOk(T, LineOf(T, s))
AcceptedFile(s) ==
    \A i \in DOMAIN s :
        s[i].stmt.tag # "comment" => Accepts(TableOf(SubSeq(s, 1, i - 1)), s[i].stmt)

Restricted(T, I) == [i \in DOMAIN T \cap I |-> T[i]]

\* A model in which the word "bad" stands in bad lines only.
PlainModel(s) == /\ AcceptedFile(s)
                 /\ \A i \in DOMAIN s : s[i].bad => s[i].stmt.tag = "bad"

----------------------------------------------------------------------------
(* Properties.                                                             *)

\* The files written for a model that uses the word "bad" for its properties only
\* are models again, equal to it but for all properties except one, and every
\* property written has one file of its own.
OutputsSound ==
    pc = "write" /\ PlainModel(lines) =>
        LET T == TableOf(lines)
            output == [n \in 0 .. num_prop - 1 |-> directory[OutputName(Head(infiles), n)]]
            For(p) == Restricted(T, DOMAIN T \ {lines[q].stmt.id : q \in bad \ {p}})
        IN  /\ \A n \in DOMAIN output : AcceptedFile(output[n])
            /\ \A p \in written : \E n \in DOMAIN output :
                    TableOf(output[n]) = For(p)

\* Without -f no file is ever changed, neither one that was there nor one written
\* for another property or another argument, whatever the names are.
NothingOverwritten ==
    [][~overwrite => \A f \in DOMAIN directory :
                        f \in DOMAIN directory' /\ directory'[f] = directory[f]]_vars

=============================================================================
