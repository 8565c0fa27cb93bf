---------------------------- MODULE SmallModels ----------------------------
(***************************************************************************)
(* Small models, written as the lines of a file.  They go through the      *)
(* parser's definitions, so that only tables the parser builds are used.   *)
(***************************************************************************)
EXTENDS Btor2Semantics, SequencesExt

----------------------------------------------------------------------------
(* Files: Node(tag, sid, args) is a line without its id.                   *)

Stmt(tag, kind, sid, args, imm) ==
    [id |-> 1, tag |-> tag, kind |-> kind, sid |-> sid, args |-> args,
     imm |-> imm, lex |-> "ok"]

Bits(w)     == Stmt("sort", "bitvec", 0, <<>>, <<w>>)
Memory(i, e) == Stmt("sort", "array", 0, <<>>, <<i, e>>)
Node(tag, sid, args) == Stmt(tag, "bitvec", sid, args, <<>>)

Numbered(file) == [i \in DOMAIN file |-> [file[i] EXCEPT !.id = i]]
Parsed(file)   == FoldLeft(Extended, [i \in {} |-> 0], Numbered(file))

Accepted(file) ==
    \A i \in DOMAIN file :
        LET T == Parsed(SubSeq(file, 1, i - 1))
            s == Numbered(file)[i]
        IN  BodyOk(T, s) /\ SortsOk(T, LineOf(T, s))

\* A counter that steps while its input is set.
Counter ==
    <<Bits(2), Bits(1), Node("zero", 1, <<>>), Node("state", 1, <<>>),
      Node("init", 1, <<4, 3>>), Node("input", 2, <<>>), Node("inc", 1, <<4>>),
      Node("ite", 1, <<6, 7, 4>>), Node("next", 1, <<4, 8>>),
      Node("one", 1, <<>>), Node("eq", 2, <<4, 10>>), Node("bad", 0, <<11>>)>>

\* Two flags: the second starts as the negation of the first and keeps its old
\* value; they should differ.
Flags ==
    <<Bits(1), Node("state", 1, <<>>), Node("not", 1, <<2>>),
      Node("state", 1, <<>>), Node("init", 1, <<4, 3>>), Node("input", 1, <<>>),
      Node("xor", 1, <<2, 6>>), Node("next", 1, <<2, 7>>),
      Node("next", 1, <<4, 2>>), Node("or", 1, <<2, 4>>),
      Node("constraint", 0, <<10>>), Node("and", 1, <<-3, 4>>),
      Node("bad", 0, <<12>>), Node("bad", 0, <<7>>)>>

\* A state without a next line beside one that has a negated one.
Free ==
    <<Bits(1), Node("state", 1, <<>>), Node("state", 1, <<>>),
      Node("next", 1, <<3, -2>>), Node("and", 1, <<2, -3>>),
      Node("bad", 0, <<5>>), Node("bad", 0, <<3>>)>>

\* A memory that is written at one input with another one and read.
Memories ==
    <<Bits(1), Memory(1, 1), Node("state", 2, <<>>), Node("input", 1, <<>>),
      Node("input", 1, <<>>), Node("write", 2, <<3, 4, 5>>),
      Node("next", 2, <<3, 6>>), Node("zero", 1, <<>>),
      Node("read", 1, <<3, 8>>), Node("bad", 0, <<9>>)>>

\* Two memories, one filled with ones, that swap their contents.
Swap ==
    <<Bits(1), Memory(1, 1), Node("ones", 1, <<>>), Node("state", 2, <<>>),
      Node("init", 2, <<4, 3>>), Node("state", 2, <<>>),
      Node("next", 2, <<4, 6>>), Node("next", 2, <<6, 4>>),
      Node("eq", 1, <<4, 6>>), Node("bad", 0, <<9>>)>>

\* A memory that starts as a copy of another one.
Copied ==
    <<Bits(1), Memory(1, 1), Node("state", 2, <<>>), Node("state", 2, <<>>),
      Node("init", 2, <<4, 3>>), Node("next", 2, <<4, 4>>),
      Node("next", 2, <<3, 3>>), Node("zero", 1, <<>>),
      Node("read", 1, <<4, 8>>), Node("bad", 0, <<9>>)>>

\* The last line is a state.
LastIsState == <<Bits(1), Node("input", 1, <<>>), Node("state", 1, <<>>)>>

\* A bad property that is the negation of a state.
NegatedBad ==
    <<Bits(1), Node("state", 1, <<>>), Node("bad", 0, <<-2>>)>>

\* A memory among the inputs.
MemoryInput ==
    <<Bits(1), Memory(1, 1), Node("input", 2, <<>>), Node("input", 1, <<>>),
      Node("read", 1, <<3, 4>>), Node("bad", 0, <<5>>)>>

\* A line btorsim does not support.
Overflow ==
    <<Bits(1), Node("input", 1, <<>>), Node("uaddo", 1, <<2, 2>>),
      Node("bad", 0, <<3>>)>>

\* A state that starts with a free bit of another state in its lower half.
HalfFree ==
    <<Bits(1), Bits(2), Node("state", 1, <<>>), Node("zero", 1, <<>>),
      Node("concat", 2, <<4, 3>>), Node("state", 2, <<>>),
      Node("init", 2, <<6, 5>>), Node("inc", 2, <<6>>), Node("next", 2, <<6, 8>>),
      Node("redand", 1, <<6>>), Node("constraint", 0, <<-10>>),
      Node("redor", 1, <<6>>), Node("bad", 0, <<-12>>)>>

\* A state that starts as the negation of another one, which is free in all
\* frames.
FreeInitial ==
    <<Bits(1), Node("state", 1, <<>>), Node("state", 1, <<>>),
      Node("init", 1, <<3, -2>>), Node("next", 1, <<3, 2>>), Node("bad", 0, <<3>>)>>

\* An initialised state without a next line.
InitialOnly ==
    <<Bits(1), Node("zero", 1, <<>>), Node("state", 1, <<>>),
      Node("init", 1, <<3, 2>>), Node("bad", 0, <<3>>)>>

\* A fairness constraint.
Fair == <<Bits(1), Node("input", 1, <<>>), Node("fair", 0, <<2>>)>>

Files == {Counter, Flags, Free, Memories, Swap, Copied, LastIsState, NegatedBad,
          MemoryInput, Overflow, HalfFree, FreeInitial, InitialOnly, Fair}

ASSUME FilesAccepted == \A f \in Files : Accepted(f)

=============================================================================
