----------------------------- MODULE MCBtorSplit -----------------------------
(***************************************************************************)
(* BtorSplit on small files.                                               *)
(***************************************************************************)
EXTENDS BtorSplit, SmallModels

Plain(s) == [stmt |-> s, bad |-> s.tag = "bad"]
Comment(b) == [stmt |-> [tag |-> "comment"], bad |-> b]

AsLines(f) == [i \in DOMAIN f |-> Plain(Numbered(f)[i])]

\* Three properties and a comment; a property and a comment that has the word;
\* a state with the word in its symbol.
Three     == <<Comment(FALSE)>> \o AsLines(Flags \o <<Node("bad", 0, <<-2>>)>>)
Commented == Append(AsLines(NegatedBad), Comment(TRUE))
Symbol    == [AsLines(Free) EXCEPT ![2].bad = TRUE]

File(name, n, dot) == [prefix |-> name, parts |-> n, dot |-> dot]
a    == File("a", <<>>, TRUE)
a_p0 == File("a", <<0>>, TRUE)
b    == File("b", <<>>, TRUE)
c    == File("c", <<>>, FALSE)

Contents == {Three, Commented, Symbol, AsLines(Free), AsLines(Counter)}
MCDirectories ==
    UNION {[S -> Contents] : S \in {{a}, {a, b}, {a, a_p0}, {c}, {a, File("a", <<1>>, TRUE)}}}
MCArguments == {<<a>>, <<a, a>>, <<a, b>>, <<a, a_p0>>, <<a_p0, a>>, <<c>>}

=============================================================================
