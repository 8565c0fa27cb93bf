------------------------- MODULE Btor2ParserProofs -------------------------
(***************************************************************************)
(* What holds of the parser for every set of statements: types, resolved   *)
(* references, links, the order of initial values, sorts, the iteration,   *)
(* and that what catbtor prints of a table is the table again.             *)
(***************************************************************************)
EXTENDS CatBtor, Btor2Lemmas

\* An output line names no sort.
LEMMA OutputTag == "output" \notin SortedTags
BY DEF SortedTags, Constants, UnaryTags, BinaryTags, TernaryTags, Unary,
       Reductions, Extensions, Binary, Predicates, Equalities, Connectives, Links

\* The first line at or after an id is one, unless there is none.
LEMMA NextLineFound ==
    ASSUME DOMAIN lines \subseteq Nat, NEW n \in Nat
    PROVE  \/ /\ NextLine(n) = 0
              /\ \A i \in DOMAIN lines : i < n
           \/ /\ NextLine(n) \in DOMAIN lines
              /\ NextLine(n) >= n
              /\ \A i \in DOMAIN lines : i >= n => NextLine(n) <= i
<1> DEFINE S == {i \in DOMAIN lines : i >= n}
<1>1. CASE S = {}
  BY <1>1 DEF NextLine
<1>2. CASE S # {}
  <2>1. \E i \in S : \A j \in S : i <= j
    <3>1. S \in SUBSET Nat
      OBVIOUS
    <3> HIDE DEF S
    <3> QED
      BY <1>2, <3>1, LeastNumber
  <2>2. \E i \in DOMAIN lines : i >= n /\ \A j \in DOMAIN lines : j >= n => i <= j
    BY <2>1
  <2>3. NextLine(n) = CHOOSE i \in DOMAIN lines :
                        i >= n /\ \A j \in DOMAIN lines : j >= n => i <= j
    BY <2>2 DEF NextLine
  <2> QED
    BY <2>2, <2>3
<1> QED
  BY <1>1, <1>2

\* Spec => []TypeOK: the table holds lines only, at ids below its size.
THEOREM Typing == Spec => []TypeOK
<1>1. Init => TypeOK
  <2>1. DOMAIN NoLines = {}
    BY DEF NoLines
  <2>2. <<>> \in Seq(Nat)
    OBVIOUS
  <2> SUFFICES ASSUME Init
               PROVE  TypeOK
    OBVIOUS
  <2>3. DOMAIN lines \subseteq 1 .. ntable - 1 /\ \A i \in DOMAIN lines : lines[i] \in Line
    BY <2>1 DEF Init
  <2> QED
    BY <2>2, <2>3 DEF Init, TypeOK
<1>2. TypeOK /\ [Next]_vars => TypeOK'
  <2> SUFFICES ASSUME TypeOK, [Next]_vars
               PROVE  TypeOK'
    OBVIOUS
  <2>1. CASE ReadLines
    BY <2>1 DEF ReadLines, TypeOK, NoLines
  <2>2. CASE EndOfFile
    BY <2>2 DEF EndOfFile, TypeOK
  <2>3. ASSUME NEW s \in Statement, ReadLine(s)
        PROVE  TypeOK'
    <3>0. s \in StatementType /\ s.id \in Nat \ {0}
      BY StatementAssumption DEF StatementType
    <3>1. CASE RejectHead(s)
      BY <3>1 DEF RejectHead, Fail, TypeOK
    <3>2. CASE RejectBody(s)
      <4>1. ntable <= s.id /\ ntable' = s.id /\ lines' = lines
        BY <3>2 DEF RejectBody, HeadOk, TypeOK
      <4>2. DOMAIN lines' \subseteq 1 .. ntable' - 1
        BY <3>0, <4>1 DEF TypeOK
      <4> QED
        BY <3>0, <3>2, <4>1, <4>2 DEF RejectBody, Fail, TypeOK
    <3>3. CASE Store(s) /\ error' \in {error, "sorts", "tail"} /\ reading' \in {reading, FALSE}
      <4>1. \A i \in DOMAIN lines' : lines'[i] \in Line
        BY <3>0, <3>3, ExtendedType DEF Store, TypeOK
      <4>2. DOMAIN lines' = DOMAIN lines \cup {s.id}
        BY <3>3 DEF Store, Extended
      <4>3. ntable <= s.id /\ ntable' = s.id + 1
        BY <3>3 DEF Store, HeadOk, TypeOK
      <4>4. DOMAIN lines' \subseteq 1 .. ntable' - 1
        BY <3>0, <4>2, <4>3 DEF TypeOK
      <4>5. error' \in {"none", "head", "body", "sorts", "tail"} /\ reading' \in BOOLEAN
        BY <3>3 DEF TypeOK
      <4> QED
        BY <3>0, <3>3, <4>1, <4>3, <4>4, <4>5 DEF Store, TypeOK
    <3> QED
      BY <2>3, <3>1, <3>2, <3>3
      DEF ReadLine, AcceptLine, RejectSorts, RejectTail, Fail
  <2>4. CASE IterInit
    <3>1. NextLine(1) \in Nat
      BY NextLineFound DEF TypeOK
    <3> QED
      BY <2>4, <3>1 DEF IterInit, TypeOK
  <2>5. CASE IterNext
    <3>1. NextLine(it + 1) \in Nat
      BY NextLineFound DEF TypeOK
    <3> QED
      BY <2>5, <3>1 DEF IterNext, TypeOK
  <2>6. CASE UNCHANGED vars
    BY <2>6 DEF vars, TypeOK
  <2> QED
    BY <2>1, <2>2, <2>3, <2>4, <2>5, <2>6 DEF Next
<1> QED
  BY <1>1, <1>2, PTL DEF Spec

----------------------------------------------------------------------------
(* References.                                                             *)

\* An output line has no sort, so parse_arg_bfr refuses it as an argument.
OutputsUnsorted == \A i \in DOMAIN lines : lines[i].tag = "output" => lines[i].sort.id = 0

RefInv == TypeOK /\ ReferencesResolved /\ OutputsUnsorted

\* Of the lines already there, storing one more changes links only.
LEMMA ExtendedKeeps ==
    ASSUME NEW T, \A i \in DOMAIN T : T[i] \in Line,
           NEW s, NEW i \in DOMAIN T, i # s.id
    PROVE  /\ i \in DOMAIN Extended(T, s)
           /\ Extended(T, s)[i].id = T[i].id
           /\ Extended(T, s)[i].tag = T[i].tag
           /\ Extended(T, s)[i].sort = T[i].sort
           /\ Extended(T, s)[i].args = T[i].args
BY DEF Extended, Line

\* The line at the new id is the one of the statement.
LEMMA ExtendedNew ==
    ASSUME NEW T, NEW s
    PROVE  /\ DOMAIN Extended(T, s) = DOMAIN T \cup {s.id}
           /\ Extended(T, s)[s.id] = LineOf(T, s)
           /\ LineOf(T, s).id = s.id
           /\ LineOf(T, s).tag = s.tag
           /\ LineOf(T, s).args = s.args
           /\ LineOf(T, s).sort = SortOf(T, s)
BY DEF Extended, LineOf

\* A line that resolves does so in the longer table.
LEMMA ResolvedKept ==
    ASSUME NEW T, DOMAIN T \subseteq Nat, \A i \in DOMAIN T : T[i] \in Line,
           NEW s, s.id \notin DOMAIN T, NEW i \in DOMAIN T, Resolved(T, i)
    PROVE  Resolved(Extended(T, s), i)
<1> DEFINE E == Extended(T, s)
<1>1. \A j \in DOMAIN T : /\ j \in DOMAIN E
                          /\ E[j].id = T[j].id
                          /\ E[j].tag = T[j].tag
                          /\ E[j].sort = T[j].sort
                          /\ E[j].args = T[j].args
  BY ExtendedKeeps
<1> HIDE DEF E
<1>2. Resolved(E, i)
  BY <1>1 DEF Resolved, Arg, IsArray
<1> QED
  BY <1>2 DEF E

\* So does the new line, if its body was accepted.
LEMMA ResolvedNew ==
    ASSUME NEW T, DOMAIN T \subseteq Nat \ {0}, \A i \in DOMAIN T : T[i] \in Line,
           \A i \in DOMAIN T : Resolved(T, i),
           \A i \in DOMAIN T : T[i].tag = "output" => T[i].sort.id = 0,
           NEW s \in StatementType, \A i \in DOMAIN T : i < s.id, BodyOk(T, s)
    PROVE  Resolved(Extended(T, s), s.id)
<1> DEFINE E == Extended(T, s)
           l == LineOf(T, s)
<1>1. s.id \notin DOMAIN T /\ s.id \in Nat
  BY DEF StatementType
<1>2. \A j \in DOMAIN T : /\ j \in DOMAIN E
                          /\ j < s.id
                          /\ E[j].tag = T[j].tag
                          /\ E[j].sort = T[j].sort
  BY <1>1, ExtendedKeeps
<1>3. E[s.id] = l /\ l.id = s.id /\ l.tag = s.tag /\ l.args = s.args /\ l.sort = SortOf(T, s)
  BY ExtendedNew
<1> HIDE DEF E, l
<1>4. \A k \in DOMAIN l.args :
        /\ Abs(l.args[k]) \in DOMAIN E
        /\ Abs(l.args[k]) < s.id
        /\ Arg(E, l, k).tag \notin NonArguments \cup {"output"}
  <2> TAKE k \in DOMAIN l.args
  <2>1. ArgOk(T, s.args[k]) /\ l.args[k] = s.args[k]
    BY <1>3 DEF BodyOk
  <2> QED
    BY <1>2, <2>1 DEF ArgOk, Arg
<1>5. \A sid : SortIdOk(T, sid) => /\ sid \in DOMAIN E
                                   /\ sid < s.id
                                   /\ E[sid].tag = "sort"
                                   /\ E[sid].sort = T[sid].sort
                                   /\ T[sid].sort.id = sid
  BY <1>2 DEF SortIdOk, Resolved
<1>6. s.tag \in SortedTags =>
        /\ l.sort.id \in DOMAIN E
        /\ l.sort.id < s.id
        /\ E[l.sort.id].tag = "sort"
        /\ E[l.sort.id].sort = l.sort
  <2> SUFFICES ASSUME s.tag \in SortedTags
               PROVE  /\ l.sort.id \in DOMAIN E
                      /\ l.sort.id < s.id
                      /\ E[l.sort.id].tag = "sort"
                      /\ E[l.sort.id].sort = l.sort
    OBVIOUS
  <2>1. l.sort = T[s.sid].sort
    BY <1>3, SortTag DEF SortOf
  <2>2. SortIdOk(T, s.sid)
    BY DEF BodyOk
  <2> QED
    BY <1>5, <2>1, <2>2
<1>7. s.tag = "sort" =>
        /\ l.sort.id = s.id
        /\ IsArray(l) => \A j \in {l.sort.word, l.sort.element} :
                            j \in DOMAIN E /\ j < s.id /\ E[j].tag = "sort"
  <2>1. CASE s.tag = "sort" /\ s.kind = "bitvec"
    BY <1>3, <2>1, SortTag DEF SortOf, IsArray
  <2>2. CASE s.tag = "sort" /\ s.kind = "array"
    <3>1. SortIdOk(T, s.imm[1]) /\ SortIdOk(T, s.imm[2])
      BY <2>2 DEF BodyOk, SortBodyOk
    <3>2. l.sort.id = s.id /\ l.sort.word = s.imm[1] /\ l.sort.element = s.imm[2]
      BY <1>3, <1>5, <2>2, <3>1, SortTag DEF SortOf
    <3> QED
      BY <1>5, <3>1, <3>2
  <2> QED
    BY <2>1, <2>2 DEF StatementType
<1>8. Resolved(E, s.id)
  BY <1>3, <1>4, <1>6, <1>7 DEF Resolved
<1> QED
  BY <1>8 DEF E

\* One more line keeps the table resolved, whatever becomes of the line later.
LEMMA StoreKeepsReferences ==
    ASSUME RefInv, NEW s \in Statement, Store(s)
    PROVE  ReferencesResolved' /\ OutputsUnsorted'
<1>1. s \in StatementType /\ BodyOk(lines, s) /\ lines' = Extended(lines, s)
  BY StatementAssumption DEF Store
<1>2. /\ DOMAIN lines \subseteq Nat \ {0}
      /\ \A i \in DOMAIN lines : i < s.id
      /\ \A i \in DOMAIN lines : lines[i] \in Line
      /\ s.id \notin DOMAIN lines
  <2>1. s.id \in Nat /\ s.id >= ntable /\ ntable \in Nat /\ DOMAIN lines \subseteq 1 .. ntable - 1
    BY <1>1 DEF Store, HeadOk, RefInv, TypeOK, StatementType
  <2> QED
    BY <2>1 DEF RefInv, TypeOK
<1>3. DOMAIN lines' = DOMAIN lines \cup {s.id}
  BY <1>1, ExtendedNew
<1>4. \A i \in DOMAIN lines : Resolved(lines', i)
  BY <1>1, <1>2, ResolvedKept DEF RefInv, ReferencesResolved
<1>5. Resolved(lines', s.id)
  BY <1>1, <1>2, ResolvedNew DEF RefInv, ReferencesResolved, OutputsUnsorted
<1>6. OutputsUnsorted'
  <2>1. \A i \in DOMAIN lines : lines'[i].tag = lines[i].tag /\ lines'[i].sort = lines[i].sort
    BY <1>1, <1>2, ExtendedKeeps
  <2>2. lines'[s.id].tag = s.tag /\ lines'[s.id].sort = SortOf(lines, s)
    <3>1. /\ Extended(lines, s)[s.id] = LineOf(lines, s)
          /\ LineOf(lines, s).tag = s.tag
          /\ LineOf(lines, s).sort = SortOf(lines, s)
      BY ExtendedNew, Zenon
    <3> QED
      BY <1>1, <3>1
  <2>3. s.tag = "output" => SortOf(lines, s).id = 0
    BY OutputTag DEF SortOf, NoSort
  <2> QED
    BY <1>3, <2>1, <2>2, <2>3 DEF RefInv, OutputsUnsorted
<1> QED
  BY <1>3, <1>4, <1>5, <1>6 DEF ReferencesResolved

\* Spec => []RefInv: the inductive invariant behind the next theorem.
THEOREM ReferencesInvariant == Spec => []RefInv
<1>1. Init => ReferencesResolved /\ OutputsUnsorted
  BY DEF Init, NoLines, ReferencesResolved, OutputsUnsorted
<1>2. RefInv /\ [Next]_vars => (ReferencesResolved /\ OutputsUnsorted)'
  <2> SUFFICES ASSUME RefInv, [Next]_vars
               PROVE  (ReferencesResolved /\ OutputsUnsorted)'
    OBVIOUS
  <2>1. CASE lines' = lines
    BY <2>1 DEF RefInv, ReferencesResolved, OutputsUnsorted
  <2>2. CASE lines' = NoLines
    <3>1. DOMAIN lines' = {}
      BY <2>2 DEF NoLines
    <3> QED
      BY <3>1 DEF ReferencesResolved, OutputsUnsorted
  <2>3. CASE \E s \in Statement : Store(s)
    <3>1. PICK s \in Statement : Store(s)
      BY <2>3
    <3> QED
      BY <3>1, StoreKeepsReferences
  <2> QED
    BY <2>1, <2>2, <2>3
    DEF Next, ReadLines, EndOfFile, ReadLine, RejectHead, RejectBody, AcceptLine,
        RejectSorts, RejectTail, IterInit, IterNext, vars
<1>3. Spec => []TypeOK
  BY Typing
<1> QED
  BY <1>1, <1>2, <1>3, PTL DEF Spec, RefInv

\* Spec => []ReferencesResolved: whatever the file holds, and also after an error.
THEOREM References == Spec => []ReferencesResolved
<1>1. RefInv => ReferencesResolved
  BY DEF RefInv
<1> QED
  BY <1>1, ReferencesInvariant, PTL

----------------------------------------------------------------------------
(* Links.                                                                  *)

\* A link names two lines, so its value is never zero, the id that stands for
\* no link.
LinksBinary == \A i \in DOMAIN lines : lines[i].tag \in Links => Len(lines[i].args) = 2

\* What the lemmas on links ask of a table T and of a statement s to be stored.
LinkContext(T, s) ==
    /\ DOMAIN T \subseteq Nat \ {0}
    /\ \A i \in DOMAIN T : /\ T[i] \in Line
                           /\ Resolved(T, i)
                           /\ T[i].tag \in Links => Len(T[i].args) = 2
    /\ s \in StatementType
    /\ \A i \in DOMAIN T : i < s.id
    /\ BodyOk(T, s)

\* The context of a line that is stored.
LEMMA StoreContext ==
    ASSUME RefInv, LinksBinary, NEW s \in Statement, Store(s)
    PROVE  /\ LinkContext(lines, s)
           /\ lines' = Extended(lines, s)
           /\ s.id \notin DOMAIN lines
<1>1. s \in StatementType /\ BodyOk(lines, s) /\ lines' = Extended(lines, s)
  BY StatementAssumption DEF Store
<1>2. s.id \in Nat /\ s.id >= ntable /\ ntable \in Nat /\ DOMAIN lines \subseteq 1 .. ntable - 1
  BY <1>1 DEF Store, HeadOk, RefInv, TypeOK, StatementType
<1> QED
  BY <1>1, <1>2 DEF RefInv, TypeOK, ReferencesResolved, LinksBinary, LinkContext

\* In the longer table the arguments of a line are those of the old one, or
\* those of the statement.
LEMMA ExtendedArgs ==
    ASSUME NEW T, NEW s, LinkContext(T, s)
    PROVE  /\ DOMAIN Extended(T, s) = DOMAIN T \cup {s.id}
           /\ s.id \notin DOMAIN T
           /\ \A j \in DOMAIN T : /\ Extended(T, s)[j].tag = T[j].tag
                                  /\ Extended(T, s)[j].args = T[j].args
           /\ Extended(T, s)[s.id].tag = s.tag
           /\ Extended(T, s)[s.id].args = s.args
<1>1. s.id \notin DOMAIN T
  BY DEF LinkContext, StatementType
<1>2. \A j \in DOMAIN T : /\ Extended(T, s)[j].tag = T[j].tag
                          /\ Extended(T, s)[j].args = T[j].args
  BY <1>1, ExtendedKeeps DEF LinkContext
<1>3. /\ DOMAIN Extended(T, s) = DOMAIN T \cup {s.id}
      /\ Extended(T, s)[s.id] = LineOf(T, s)
      /\ LineOf(T, s).tag = s.tag
      /\ LineOf(T, s).args = s.args
  BY ExtendedNew, Zenon
<1> QED
  BY <1>1, <1>2, <1>3

\* A link has two arguments among the lines of the table.
LEMMA LinkArgs ==
    ASSUME NEW T, NEW s, LinkContext(T, s)
    PROVE  /\ \A j \in DOMAIN T : T[j].tag \in Links =>
                /\ Abs(T[j].args[1]) \in DOMAIN T
                /\ Abs(T[j].args[2]) \in DOMAIN T
           /\ s.tag \in Links => /\ Abs(s.args[1]) \in DOMAIN T
                                 /\ Abs(s.args[2]) \in DOMAIN T
<1>1. ASSUME NEW j \in DOMAIN T, T[j].tag \in Links
      PROVE  /\ Abs(T[j].args[1]) \in DOMAIN T
             /\ Abs(T[j].args[2]) \in DOMAIN T
  <2>1. T[j].args \in Seq(Int) /\ Len(T[j].args) = 2 /\ Resolved(T, j)
    BY <1>1 DEF LinkContext, Line
  <2>2. 1 \in DOMAIN T[j].args /\ 2 \in DOMAIN T[j].args
    BY <2>1
  <2> QED
    BY <2>1, <2>2 DEF Resolved
<1>2. ASSUME s.tag \in Links
      PROVE  /\ Abs(s.args[1]) \in DOMAIN T
             /\ Abs(s.args[2]) \in DOMAIN T
  <2>1. s.args \in Seq(Int) /\ Len(s.args) = 2
    BY <1>2, LinkArity DEF LinkContext, BodyOk, StatementType, Links
  <2>2. 1 \in DOMAIN s.args /\ 2 \in DOMAIN s.args
    BY <2>1
  <2> QED
    BY <2>1, <2>2 DEF LinkContext, BodyOk, ArgOk
<1> QED
  BY <1>1, <1>2

\* A state without a value for a link has no line of that link.
LEMMA Unlinked ==
    ASSUME NEW T, NEW s, LinkContext(T, s), NEW tag \in Links, NEW i,
           Linked(T, tag, i, 0)
    PROVE  LinksOf(T, tag, i) = {}
<1>1. ASSUME NEW j \in LinksOf(T, tag, i), T[j].args[2] = 0
      PROVE  FALSE
  <2>1. Abs(T[j].args[2]) \in Nat \ {0}
    BY LinkArgs DEF LinksOf, LinkContext
  <2> QED
    BY <1>1, <2>1 DEF Abs
<1> QED
  BY <1>1 DEF Linked

\* A statement that links another line, or nothing, leaves the links of i alone.
LEMMA LinkedKept ==
    ASSUME NEW T, NEW s, LinkContext(T, s), NEW tag \in Links, NEW i, NEW value,
           ~(s.tag = tag /\ s.args[1] = i), Linked(T, tag, i, value)
    PROVE  Linked(Extended(T, s), tag, i, value)
<1> DEFINE E == Extended(T, s)
<1>1. /\ DOMAIN E = DOMAIN T \cup {s.id}
      /\ s.id \notin DOMAIN T
      /\ \A j \in DOMAIN T : E[j].tag = T[j].tag /\ E[j].args = T[j].args
      /\ E[s.id].tag = s.tag /\ E[s.id].args = s.args
  BY ExtendedArgs
<1> HIDE DEF E
<1>2. LinksOf(E, tag, i) = LinksOf(T, tag, i)
  BY <1>1 DEF LinksOf
<1>3. \A j \in LinksOf(T, tag, i) : E[j].args = T[j].args
  BY <1>1 DEF LinksOf
<1>4. Linked(E, tag, i, value)
  BY <1>2, <1>3 DEF Linked
<1> QED
  BY <1>4 DEF E

\* The first link of i is the only one.
LEMMA LinkedNow ==
    ASSUME NEW T, NEW s, LinkContext(T, s), s.tag \in Links,
           LinksOf(T, s.tag, s.args[1]) = {}
    PROVE  Linked(Extended(T, s), s.tag, s.args[1], s.args[2])
<1> DEFINE E == Extended(T, s)
<1>1. /\ DOMAIN E = DOMAIN T \cup {s.id}
      /\ s.id \notin DOMAIN T
      /\ \A j \in DOMAIN T : E[j].tag = T[j].tag /\ E[j].args = T[j].args
      /\ E[s.id].tag = s.tag /\ E[s.id].args = s.args
  BY ExtendedArgs
<1> HIDE DEF E
<1>2. LinksOf(E, s.tag, s.args[1]) = {s.id}
  BY <1>1 DEF LinksOf
<1>3. Linked(E, s.tag, s.args[1], s.args[2])
  BY <1>1, <1>2 DEF Linked
<1> QED
  BY <1>3 DEF E

\* Nothing links the line that is stored.
LEMMA NewUnlinked ==
    ASSUME NEW T, NEW s, LinkContext(T, s), NEW tag \in Links
    PROVE  Linked(Extended(T, s), tag, s.id, 0)
<1> DEFINE E == Extended(T, s)
<1>1. /\ DOMAIN E = DOMAIN T \cup {s.id}
      /\ s.id \notin DOMAIN T
      /\ \A j \in DOMAIN T : E[j].tag = T[j].tag /\ E[j].args = T[j].args
      /\ E[s.id].tag = s.tag /\ E[s.id].args = s.args
  BY ExtendedArgs
<1> HIDE DEF E
<1>2. \A j \in DOMAIN E : E[j].tag = tag => Abs(E[j].args[1]) \in DOMAIN T
  BY <1>1, LinkArgs
<1>3. Abs(s.id) = s.id
  BY DEF LinkContext, StatementType, Abs
<1>4. LinksOf(E, tag, s.id) = {}
  BY <1>1, <1>2, <1>3 DEF LinksOf
<1>5. Linked(E, tag, s.id, 0)
  BY <1>4 DEF Linked
<1> QED
  BY <1>5 DEF E

\* The links of a line after a statement is stored.
LEMMA ExtendedLinks ==
    ASSUME NEW T, NEW s, LinkContext(T, s), NEW i \in DOMAIN T
    PROVE  /\ Extended(T, s)[i].init =
                IF s.tag = "init" /\ i = s.args[1] THEN s.args[2] ELSE T[i].init
           /\ Extended(T, s)[i].next =
                IF s.tag = "next" /\ i = s.args[1] THEN s.args[2] ELSE T[i].next
<1>1. i # s.id /\ T[i] \in Line
  BY DEF LinkContext, StatementType
<1> QED
  BY <1>1 DEF Extended, Line

\* Storing a line keeps the links of states and the lines that state them equal.
LEMMA StoreKeepsLinks ==
    ASSUME RefInv, LinksBinary, StateLinks, NEW s \in Statement, Store(s)
    PROVE  StateLinks' /\ LinksBinary'
<1>1. /\ LinkContext(lines, s)
      /\ lines' = Extended(lines, s)
      /\ s.id \notin DOMAIN lines
  BY StoreContext
<1>2. /\ DOMAIN lines' = DOMAIN lines \cup {s.id}
      /\ \A j \in DOMAIN lines : lines'[j].tag = lines[j].tag /\ lines'[j].args = lines[j].args
      /\ lines'[s.id].tag = s.tag /\ lines'[s.id].args = s.args
  <2> DEFINE E == Extended(lines, s)
  <2>1. /\ DOMAIN E = DOMAIN lines \cup {s.id}
        /\ \A j \in DOMAIN lines : E[j].tag = lines[j].tag /\ E[j].args = lines[j].args
        /\ E[s.id].tag = s.tag /\ E[s.id].args = s.args
    BY <1>1, ExtendedArgs, Zenon
  <2>2. lines' = E
    BY <1>1
  <2> HIDE DEF E
  <2> QED
    BY <2>1, <2>2
<1>3. ASSUME NEW i \in DOMAIN lines
      PROVE  Linked(lines', "init", i, lines'[i].init)
  <2>1. CASE s.tag = "init" /\ s.args[1] = i
    <3>1. lines[i].init = 0
      BY <1>1, <2>1 DEF LinkContext, BodyOk, InitBodyOk
    <3>2. LinksOf(lines, "init", i) = {}
      BY <1>1, <3>1, Unlinked DEF StateLinks, Links
    <3> QED
      BY <1>1, <2>1, <3>2, LinkedNow, ExtendedLinks DEF Links
  <2>2. CASE ~(s.tag = "init" /\ s.args[1] = i)
    BY <1>1, <2>2, LinkedKept, ExtendedLinks DEF StateLinks, Links
  <2> QED
    BY <2>1, <2>2
<1>4. ASSUME NEW i \in DOMAIN lines
      PROVE  Linked(lines', "next", i, lines'[i].next)
  <2>1. CASE s.tag = "next" /\ s.args[1] = i
    <3>1. lines[i].next = 0
      BY <1>1, <2>1 DEF LinkContext, BodyOk, NextBodyOk
    <3>2. LinksOf(lines, "next", i) = {}
      BY <1>1, <3>1, Unlinked DEF StateLinks, Links
    <3> QED
      BY <1>1, <2>1, <3>2, LinkedNow, ExtendedLinks DEF Links
  <2>2. CASE ~(s.tag = "next" /\ s.args[1] = i)
    BY <1>1, <2>2, LinkedKept, ExtendedLinks DEF StateLinks, Links
  <2> QED
    BY <2>1, <2>2
<1>5. /\ Linked(lines', "init", s.id, lines'[s.id].init)
      /\ Linked(lines', "next", s.id, lines'[s.id].next)
  <2>1. lines'[s.id].init = 0 /\ lines'[s.id].next = 0
    BY <1>1 DEF Extended, LineOf
  <2> QED
    BY <1>1, <2>1, NewUnlinked DEF Links
<1>6. LinksBinary'
  <2>1. s.tag \in Links => Len(s.args) = 2
    BY <1>1, LinkArity DEF LinkContext, BodyOk, Links
  <2> QED
    BY <1>2, <2>1 DEF LinksBinary
<1> QED
  BY <1>2, <1>3, <1>4, <1>5, <1>6 DEF StateLinks

\* Spec => [](StateLinks /\ LinksBinary): the inductive invariant on links.
THEOREM LinksInvariant == Spec => [](StateLinks /\ LinksBinary)
<1>1. Init => StateLinks /\ LinksBinary
  BY DEF Init, NoLines, StateLinks, LinksBinary
<1>2. RefInv /\ StateLinks /\ LinksBinary /\ [Next]_vars => (StateLinks /\ LinksBinary)'
  <2> SUFFICES ASSUME RefInv, StateLinks, LinksBinary, [Next]_vars
               PROVE  (StateLinks /\ LinksBinary)'
    OBVIOUS
  <2>1. CASE lines' = lines
    BY <2>1 DEF StateLinks, LinksBinary, Linked, LinksOf
  <2>2. CASE lines' = NoLines
    <3>1. DOMAIN lines' = {}
      BY <2>2 DEF NoLines
    <3> QED
      BY <3>1 DEF StateLinks, LinksBinary
  <2>3. CASE \E s \in Statement : Store(s)
    <3>1. PICK s \in Statement : Store(s)
      BY <2>3
    <3> QED
      BY <3>1, StoreKeepsLinks
  <2> QED
    BY <2>1, <2>2, <2>3
    DEF Next, ReadLines, EndOfFile, ReadLine, RejectHead, RejectBody, AcceptLine,
        RejectSorts, RejectTail, IterInit, IterNext, vars
<1>3. Spec => []RefInv
  BY ReferencesInvariant
<1> QED
  BY <1>1, <1>2, <1>3, PTL DEF Spec

\* Spec => []StateLinks: a state's links are what its init and next lines say.
THEOREM StatesLinked == Spec => []StateLinks
BY LinksInvariant, PTL

----------------------------------------------------------------------------
(* Initial values.                                                         *)

\* What check_state_init and the comparison of the ids in parse_init_bfr find, both
\* together: in a table where arguments come first, the part up to the state of a
\* set closed under arguments is closed too.
LEMMA InitBodyOrdered ==
    ASSUME NEW T, NEW s, LinkContext(T, s), s.tag = "init"
    PROVE  \E S \in SUBSET {j \in DOMAIN T : T[j].tag # "input" /\ j <= s.args[1]} :
              HoldsCone(T, Abs(s.args[2]), S)
<1>1. InitBodyOk(T, s)
  BY DEF LinkContext, BodyOk
<1>2. PICK S \in SUBSET {i \in DOMAIN T : T[i].tag # "input"} :
              /\ Abs(s.args[2]) \in S
              /\ \A i \in S : \A k \in DOMAIN T[i].args : Abs(T[i].args[k]) \in S
  BY <1>1 DEF InitBodyOk, InputFree
<1>3. s.args[1] \in Nat /\ s.args[1] >= Abs(s.args[2])
  <2>1. s.args \in Seq(Int) /\ Len(s.args) = 2
    BY LinkArity DEF LinkContext, BodyOk, StatementType
  <2> QED
    BY <1>1, <2>1 DEF InitBodyOk
<1>4. \A j \in DOMAIN T : \A k \in DOMAIN T[j].args :
        Abs(T[j].args[k]) \in DOMAIN T /\ Abs(T[j].args[k]) < j
  BY DEF LinkContext, Resolved
<1> DEFINE R == {j \in S : j <= s.args[1]}
<1>5. ASSUME NEW j \in R, NEW k \in DOMAIN T[j].args
      PROVE  Abs(T[j].args[k]) \in R
  <2> DEFINE x == Abs(T[j].args[k])
  <2>1. x \in S /\ x \in DOMAIN T /\ x < j /\ j \in DOMAIN T
    BY <1>2, <1>4
  <2>2. x \in Nat /\ j \in Nat /\ j <= s.args[1]
    BY <2>1 DEF LinkContext
  <2> HIDE DEF x
  <2>3. x \in R
    BY <1>3, <2>1, <2>2
  <2> QED
    BY <2>3 DEF x
<1>6. HoldsCone(T, Abs(s.args[2]), R)
  BY <1>2, <1>3, <1>5 DEF HoldsCone
<1> QED
  BY <1>2, <1>6

\* Storing a line keeps initial values in order.
LEMMA StoreKeepsCones ==
    ASSUME RefInv, LinksBinary, InitConesOrdered, NEW s \in Statement, Store(s)
    PROVE  InitConesOrdered'
<1>1. /\ LinkContext(lines, s)
      /\ lines' = Extended(lines, s)
      /\ s.id \notin DOMAIN lines
  BY StoreContext
<1>2. /\ DOMAIN lines' = DOMAIN lines \cup {s.id}
      /\ \A j \in DOMAIN lines : lines'[j].tag = lines[j].tag /\ lines'[j].args = lines[j].args
  <2> DEFINE E == Extended(lines, s)
  <2>1. /\ DOMAIN E = DOMAIN lines \cup {s.id}
        /\ \A j \in DOMAIN lines : E[j].tag = lines[j].tag /\ E[j].args = lines[j].args
    BY <1>1, ExtendedArgs, Zenon
  <2>2. lines' = E
    BY <1>1
  <2> HIDE DEF E
  <2> QED
    BY <2>1, <2>2
<1>3. lines'[s.id].init = 0
  BY <1>1 DEF Extended, LineOf
<1>4. ASSUME NEW i \in DOMAIN lines, lines'[i].init # 0
      PROVE  \E S \in SUBSET {j \in DOMAIN lines : lines[j].tag # "input" /\ j <= i} :
                HoldsCone(lines, Abs(lines'[i].init), S)
  <2>1. CASE s.tag = "init" /\ i = s.args[1]
    <3>1. lines'[i].init = s.args[2]
      BY <1>1, <2>1, ExtendedLinks
    <3> QED
      BY <1>1, <2>1, <3>1, InitBodyOrdered
  <2>2. CASE ~(s.tag = "init" /\ i = s.args[1])
    <3>1. lines'[i].init = lines[i].init
      BY <1>1, <2>2, ExtendedLinks
    <3> QED
      BY <1>4, <3>1 DEF InitConesOrdered
  <2> QED
    BY <2>1, <2>2
<1>5. ASSUME NEW i \in DOMAIN lines', lines'[i].init # 0
      PROVE  \E S \in SUBSET {j \in DOMAIN lines' : lines'[j].tag # "input" /\ j <= i} :
                HoldsCone(lines', Abs(lines'[i].init), S)
  <2>1. i \in DOMAIN lines
    BY <1>2, <1>3, <1>5
  <2>2. PICK S \in SUBSET {j \in DOMAIN lines : lines[j].tag # "input" /\ j <= i} :
                HoldsCone(lines, Abs(lines'[i].init), S)
    BY <1>4, <1>5, <2>1
  <2>3. S \in SUBSET {j \in DOMAIN lines' : lines'[j].tag # "input" /\ j <= i}
    BY <1>2, <2>2
  <2>4. HoldsCone(lines', Abs(lines'[i].init), S)
    BY <1>2, <2>2 DEF HoldsCone
  <2> QED
    BY <2>3, <2>4
<1> QED
  BY <1>5 DEF InitConesOrdered

\* Spec => []InitConesOrdered: whatever the file holds, initial values can be
\* computed in one pass over the states.
THEOREM InitialOrder == Spec => []InitConesOrdered
<1>1. Init => InitConesOrdered
  BY DEF Init, NoLines, InitConesOrdered
<1>2. RefInv /\ LinksBinary /\ InitConesOrdered /\ [Next]_vars => InitConesOrdered'
  <2> SUFFICES ASSUME RefInv, LinksBinary, InitConesOrdered, [Next]_vars
               PROVE  InitConesOrdered'
    OBVIOUS
  <2>1. CASE lines' = lines
    BY <2>1 DEF InitConesOrdered, HoldsCone
  <2>2. CASE lines' = NoLines
    <3>1. DOMAIN lines' = {}
      BY <2>2 DEF NoLines
    <3> QED
      BY <3>1 DEF InitConesOrdered
  <2>3. CASE \E s \in Statement : Store(s)
    <3>1. PICK s \in Statement : Store(s)
      BY <2>3
    <3> QED
      BY <3>1, StoreKeepsCones
  <2> QED
    BY <2>1, <2>2, <2>3
    DEF Next, ReadLines, EndOfFile, ReadLine, RejectHead, RejectBody, AcceptLine,
        RejectSorts, RejectTail, IterInit, IterNext, vars
<1>3. Spec => []RefInv /\ []LinksBinary
  BY ReferencesInvariant, LinksInvariant, PTL
<1> QED
  BY <1>1, <1>2, <1>3, PTL DEF Spec

----------------------------------------------------------------------------
(* What the programs that use a table rely on.                             *)

\* Each line but a justice line has the number of arguments its tag asks for.
Counted == \A i \in DOMAIN lines :
              lines[i].tag # "justice" => Len(lines[i].args) = Arity[lines[i].tag]

\* Spec => []Counted: parse_unary_op_bfr and its relatives read the arguments the
\* clients later take from the line without a check, all of them.
THEOREM CountedInvariant == Spec => []Counted
<1>1. Init => Counted
  BY DEF Init, NoLines, Counted
<1>2. RefInv /\ LinksBinary /\ Counted /\ [Next]_vars => Counted'
  <2> SUFFICES ASSUME RefInv, LinksBinary, Counted, [Next]_vars
               PROVE  Counted'
    OBVIOUS
  <2>1. CASE lines' = lines
    BY <2>1 DEF Counted
  <2>2. CASE lines' = NoLines
    <3>1. DOMAIN lines' = {}
      BY <2>2 DEF NoLines
    <3> QED
      BY <3>1 DEF Counted
  <2>3. CASE \E s \in Statement : Store(s)
    <3>1. PICK s \in Statement : Store(s)
      BY <2>3
    <3>2. /\ LinkContext(lines, s)
          /\ lines' = Extended(lines, s)
      BY <3>1, StoreContext
    <3> DEFINE E == Extended(lines, s)
    <3>3. /\ DOMAIN E = DOMAIN lines \cup {s.id}
          /\ E[s.id].tag = s.tag /\ E[s.id].args = s.args
          /\ \A j \in DOMAIN lines : E[j].tag = lines[j].tag /\ E[j].args = lines[j].args
      BY <3>2, ExtendedArgs, Zenon
    <3>4. lines' = E
      BY <3>2
    <3>5. s.tag # "justice" => Len(s.args) = Arity[s.tag]
      BY <3>2 DEF LinkContext, BodyOk
    <3> HIDE DEF E
    <3> QED
      BY <3>3, <3>4, <3>5 DEF Counted
  <2> QED
    BY <2>1, <2>2, <2>3
    DEF Next, ReadLines, EndOfFile, ReadLine, RejectHead, RejectBody, AcceptLine,
        RejectSorts, RejectTail, IterInit, IterNext, vars
<1>3. Spec => []RefInv /\ []LinksBinary
  BY ReferencesInvariant, LinksInvariant, PTL
<1> QED
  BY <1>1, <1>2, <1>3, PTL DEF Spec

\* In a table whose references resolve, the lines of a cone that can be arguments
\* hold the cone of each of them: nothing else is reachable from an argument.
LEMMA ConeOfArguments ==
    ASSUME NEW T, \A j \in DOMAIN T : Resolved(T, j),
           NEW i \in ArgumentLines(T), NEW S \in SUBSET DOMAIN T, HoldsCone(T, i, S)
    PROVE  HoldsCone(T, i, S \cap ArgumentLines(T))
<1>1. ASSUME NEW j \in S, NEW k \in DOMAIN T[j].args
      PROVE  Abs(T[j].args[k]) \in S \cap ArgumentLines(T)
  <2>1. Abs(T[j].args[k]) \in S
    BY DEF HoldsCone
  <2>2. Abs(T[j].args[k]) \in DOMAIN T
        /\ T[Abs(T[j].args[k])].tag \notin NonArguments \cup {"output"}
    BY DEF Resolved, Arg
  <2> QED
    BY <2>1, <2>2 DEF ArgumentLines
<1> QED
  BY <1>1 DEF HoldsCone

\* A state's links are arguments of its init and next lines.
LEMMA LinkedValue ==
    ASSUME TypeOK, ReferencesResolved, LinksBinary, NEW tag \in Links,
           NEW i, NEW value, Linked(lines, tag, i, value), value # 0
    PROVE  /\ Abs(value) \in ArgumentLines(lines)
           /\ \E j \in DOMAIN lines : lines[j].tag = tag /\ lines[j].args[2] = value
<1>1. PICK j \in LinksOf(lines, tag, i) : lines[j].args[2] = value
  BY DEF Linked
<1>2. j \in DOMAIN lines /\ lines[j].tag = tag
  BY <1>1 DEF LinksOf
<1>3. 2 \in DOMAIN lines[j].args
  <2>1. lines[j].args \in Seq(Int)
    BY <1>2 DEF TypeOK, Line
  <2>2. Len(lines[j].args) = 2
    BY <1>2 DEF LinksBinary
  <2> QED
    BY <2>1, <2>2
<1>4. Abs(value) \in DOMAIN lines
      /\ lines[Abs(value)].tag \notin NonArguments \cup {"output"}
  BY <1>1, <1>2, <1>3 DEF ReferencesResolved, Resolved, Arg
<1> QED
  BY <1>1, <1>2, <1>4 DEF ArgumentLines

\* The invariants together say that the table is wired.
LEMMA TableWired ==
    ASSUME TypeOK, ReferencesResolved, StateLinks, LinksBinary, InitConesOrdered, Counted
    PROVE  Wired(lines)
<1>1. DOMAIN lines \subseteq Nat \ {0} /\ \A i \in DOMAIN lines : lines[i] \in Line
  BY DEF TypeOK
<1>2. ASSUME NEW i \in DOMAIN lines, NEW k \in DOMAIN lines[i].args
      PROVE  Abs(lines[i].args[k]) \in ArgumentLines(lines) /\ Abs(lines[i].args[k]) < i
  BY DEF ReferencesResolved, Resolved, Arg, ArgumentLines
<1>3. ASSUME NEW i \in DOMAIN lines, lines[i].tag \in SortedTags
      PROVE  \E j \in DOMAIN lines : lines[j].tag = "sort" /\ lines[j].sort = lines[i].sort
  BY <1>3 DEF ReferencesResolved, Resolved
<1>4. ASSUME NEW i \in DOMAIN lines, lines[i].init # 0
      PROVE  \E S \in SUBSET {j \in ArgumentLines(lines) : lines[j].tag # "input" /\ j <= i} :
                HoldsCone(lines, Abs(lines[i].init), S)
  <2>1. PICK S \in SUBSET {j \in DOMAIN lines : lines[j].tag # "input" /\ j <= i} :
                HoldsCone(lines, Abs(lines[i].init), S)
    BY <1>4 DEF InitConesOrdered
  <2>2. Abs(lines[i].init) \in ArgumentLines(lines)
    BY <1>4, LinkedValue DEF StateLinks, Links
  <2>3. HoldsCone(lines, Abs(lines[i].init), S \cap ArgumentLines(lines))
    BY <2>1, <2>2, ConeOfArguments DEF ReferencesResolved
  <2> QED
    BY <2>1, <2>3
<1>5. ASSUME NEW i \in DOMAIN lines, lines[i].next # 0
      PROVE  \E j \in DOMAIN lines :
                lines[j].tag = "next" /\ lines[j].args[2] = lines[i].next
  BY <1>5, LinkedValue DEF StateLinks, Links
<1> QED
  BY <1>1, <1>2, <1>3, <1>4, <1>5 DEF Wired, Counted

\* Spec => []Wired(lines): what btorsim and the other clients of a table assume of
\* it (the assumption on the models of BtorSim) holds of every table the parser
\* builds, of any file and at any time.
THEOREM Wiring == Spec => []Wired(lines)
BY Typing, References, LinksInvariant, InitialOrder, CountedInvariant, TableWired, PTL

----------------------------------------------------------------------------
(* Reading and iterating.                                                  *)

\* While a file is read there is no error yet and no iteration.
Phases == reading => error = "none" /\ it = 0 /\ seen = <<>>

\* Spec => []Phases: the phases of a parser do not overlap.
THEOREM PhasesInvariant == Spec => []Phases
<1>1. Init => Phases
  BY DEF Init, Phases
<1>2. Phases /\ [Next]_vars => Phases'
  BY DEF Phases, Next, ReadLines, EndOfFile, ReadLine, RejectHead, RejectBody,
         AcceptLine, RejectSorts, RejectTail, Store, Fail, IterInit, IterNext, vars
<1> QED
  BY <1>1, <1>2, PTL DEF Spec

\* What a stored line keeps when another one is stored.
LEMMA StoreKeepsLines ==
    ASSUME RefInv, LinksBinary, NEW s \in Statement, Store(s), NEW i \in DOMAIN lines
    PROVE  /\ i \in DOMAIN lines'
           /\ lines'[i].init # lines[i].init => lines[i].init = 0
           /\ lines'[i].next # lines[i].next => lines[i].next = 0
           /\ lines'[i] = [lines[i] EXCEPT !.init = lines'[i].init,
                                           !.next = lines'[i].next]
<1>1. /\ LinkContext(lines, s)
      /\ lines' = Extended(lines, s)
      /\ s.id \notin DOMAIN lines
  BY StoreContext
<1>2. lines[i] \in Line /\ i # s.id
  BY <1>1 DEF LinkContext
<1>3. /\ s.tag = "init" /\ i = s.args[1] => lines[i].init = 0
      /\ s.tag = "next" /\ i = s.args[1] => lines[i].next = 0
  BY <1>1 DEF LinkContext, BodyOk, InitBodyOk, NextBodyOk
<1> QED
  BY <1>1, <1>2, <1>3 DEF Extended, Line

\* Spec => LinesStable: lines are only added, and links only set once.
THEOREM Stability == Spec => LinesStable
<1> DEFINE Stable ==
      lines' # NoLines =>
         /\ error # "none" => lines' = lines /\ error' = error
         /\ \A i \in DOMAIN lines :
              /\ i \in DOMAIN lines'
              /\ lines'[i].init # lines[i].init => lines[i].init = 0
              /\ lines'[i].next # lines[i].next => lines[i].next = 0
              /\ lines'[i] = [lines[i] EXCEPT !.init = lines'[i].init,
                                              !.next = lines'[i].next]
<1>1. RefInv /\ LinksBinary /\ Phases /\ [Next]_vars => [Stable]_vars
  <2> SUFFICES ASSUME RefInv, LinksBinary, Phases, Next
               PROVE  Stable
    OBVIOUS
  <2>1. CASE lines' = NoLines
    BY <2>1
  <2>2. CASE lines' = lines /\ (error # "none" => error' = error)
    <3>1. \A i \in DOMAIN lines : lines[i] \in Line
      BY DEF RefInv, TypeOK
    <3>2. \A i \in DOMAIN lines :
            lines[i] = [lines[i] EXCEPT !.init = lines[i].init, !.next = lines[i].next]
      BY <3>1 DEF Line
    <3> QED
      BY <2>2, <3>2
  <2>3. CASE \E s \in Statement : Store(s)
    <3>1. PICK s \in Statement : Store(s)
      BY <2>3
    <3>2. error = "none"
      BY <3>1 DEF Store, Phases
    <3> QED
      BY <3>1, <3>2, StoreKeepsLines
  <2> QED
    BY <2>1, <2>2, <2>3
    DEF Next, ReadLines, EndOfFile, ReadLine, RejectHead, RejectBody, AcceptLine,
        RejectSorts, RejectTail, IterInit, IterNext, Fail, Phases
<1>2. Spec => []RefInv /\ []LinksBinary /\ []Phases
  BY ReferencesInvariant, LinksInvariant, PhasesInvariant, PTL
<1> QED
  BY <1>1, <1>2, PTL DEF Spec, LinesStable

\* What appending an element does to a sequence of numbers that are in ascending
\* order and below it.
LEMMA AppendAscending ==
    ASSUME NEW q \in Seq(Nat), NEW x \in Nat,
           \A m, n \in DOMAIN q : m < n => q[m] < q[n],
           \A n \in DOMAIN q : q[n] < x
    PROVE  LET r == Append(q, x)
           IN  /\ \A m, n \in DOMAIN r : m < n => r[m] < r[n]
               /\ {r[n] : n \in DOMAIN r} = {q[n] : n \in DOMAIN q} \cup {x}
               /\ r # <<>>
<1> DEFINE r == Append(q, x)
<1>1. /\ DOMAIN q = 1 .. Len(q)
      /\ DOMAIN r = 1 .. Len(q) + 1
      /\ Len(q) \in Nat
      /\ \A n \in 1 .. Len(q) : r[n] = q[n] /\ q[n] \in Nat
      /\ r[Len(q) + 1] = x
      /\ r # <<>>
  OBVIOUS
<1>2. \A m, n \in DOMAIN r : m < n => r[m] < r[n]
  <2> HIDE DEF r
  <2> SUFFICES ASSUME NEW m \in DOMAIN r, NEW n \in DOMAIN r, m < n
               PROVE  r[m] < r[n]
    OBVIOUS
  <2>1. m \in 1 .. Len(q)
    BY <1>1
  <2>2. CASE n \in 1 .. Len(q)
    BY <1>1, <2>1, <2>2
  <2>3. CASE n = Len(q) + 1
    BY <1>1, <2>1, <2>3
  <2> QED
    BY <1>1, <2>2, <2>3
<1>3. {r[n] : n \in DOMAIN r} = {q[n] : n \in DOMAIN q} \cup {x}
  <2> HIDE DEF r
  <2>1. DOMAIN r = DOMAIN q \cup {Len(q) + 1}
    BY <1>1
  <2> QED
    BY <1>1, <2>1
<1> QED
  BY <1>1, <1>2, <1>3

\* Spec => []IterationExact: an iteration over a table read without error meets
\* each of its lines once and in ascending order, and one over a table with an
\* error none.
THEOREM Iteration == Spec => []IterationExact
<1>1. Init => IterationExact
  BY DEF Init, IterationExact
<1>2. TypeOK /\ Phases /\ IterationExact /\ [Next]_vars => IterationExact'
  <2> SUFFICES ASSUME TypeOK, Phases, IterationExact, [Next]_vars
               PROVE  IterationExact'
    OBVIOUS
  <2>1. DOMAIN lines \subseteq Nat \ {0} /\ it \in Nat /\ seen \in Seq(Nat)
    BY DEF TypeOK
  <2>2. CASE ReadLines
    BY <2>2 DEF ReadLines, IterationExact
  <2>3. CASE EndOfFile
    BY <2>3 DEF EndOfFile, IterationExact
  <2>4. CASE \E s \in Statement : ReadLine(s)
    <3>1. it' = 0 /\ seen' = <<>>
      BY <2>4 DEF ReadLine, RejectHead, RejectBody, AcceptLine, RejectSorts,
                  RejectTail, Store, Fail, Phases
    <3> QED
      BY <3>1 DEF IterationExact
  <2>5. CASE IterInit
    <3>1. seen' = <<>> /\ lines' = lines /\ error' = error
      BY <2>5 DEF IterInit
    <3>2. CASE it' = 0
      BY <3>1, <3>2 DEF IterationExact
    <3>3. CASE it' # 0
      <4>1. error = "none" /\ it' = NextLine(1)
        BY <2>5, <3>3 DEF IterInit
      <4>2. it' \in DOMAIN lines /\ \A i \in DOMAIN lines : it' <= i
        BY <2>1, <3>3, <4>1, NextLineFound
      <4>3. {i \in DOMAIN lines : it' = 0 \/ i < it'} = {}
        BY <2>1, <3>3, <4>2
      <4> QED
        BY <3>1, <4>1, <4>2, <4>3 DEF IterationExact
    <3> QED
      BY <3>2, <3>3
  <2>6. CASE IterNext
    <3>1. /\ it # 0 /\ seen' = Append(seen, it) /\ it' = NextLine(it + 1)
          /\ lines' = lines /\ error' = error
      BY <2>6 DEF IterNext
    <3>2. /\ error = "none" /\ it \in DOMAIN lines
          /\ \A m, n \in DOMAIN seen : m < n => seen[m] < seen[n]
          /\ {seen[n] : n \in DOMAIN seen} = {i \in DOMAIN lines : i < it}
      BY <3>1 DEF IterationExact
    <3>3. \A n \in DOMAIN seen : seen[n] < it
      BY <3>2
    <3>4. /\ \A m, n \in DOMAIN seen' : m < n => seen'[m] < seen'[n]
          /\ {seen'[n] : n \in DOMAIN seen'} = {seen[n] : n \in DOMAIN seen} \cup {it}
      <4> DEFINE r == Append(seen, it)
      <4>1. /\ \A m, n \in DOMAIN r : m < n => r[m] < r[n]
            /\ {r[n] : n \in DOMAIN r} = {seen[n] : n \in DOMAIN seen} \cup {it}
        BY <2>1, <3>2, <3>3, AppendAscending, Zenon
      <4>2. r = seen'
        BY <3>1
      <4> HIDE DEF r
      <4> QED
        BY <4>1, <4>2
    <3>5. it' # 0 => it' \in DOMAIN lines
      BY <2>1, <3>1, NextLineFound
    <3>6. \A i \in DOMAIN lines : i <= it <=> it' = 0 \/ i < it'
      BY <2>1, <3>1, NextLineFound
    <3>7. {i \in DOMAIN lines : i < it} \cup {it} = {i \in DOMAIN lines : it' = 0 \/ i < it'}
      BY <2>1, <3>2, <3>6
    <3> QED
      BY <3>1, <3>2, <3>4, <3>5, <3>7 DEF IterationExact
  <2>7. CASE UNCHANGED vars
    BY <2>7 DEF vars, IterationExact
  <2> QED
    BY <2>2, <2>3, <2>4, <2>5, <2>6, <2>7 DEF Next
<1> QED
  BY <1>1, <1>2, Typing, PhasesInvariant, PTL DEF Spec

----------------------------------------------------------------------------
(* Types.                                                                  *)

\* A table as the parser builds it.
Resolves(T) == /\ DOMAIN T \subseteq Nat \ {0}
               /\ \A i \in DOMAIN T : T[i] \in Line /\ Resolved(T, i)

\* The type of a sort line, from the types g of others.
TypeStep(T, g, i) ==
    IF T[i].sort.tag = "bitvec" THEN <<"bitvec", T[i].sort.word>>
    ELSE <<"array", g[T[i].sort.word], g[T[i].sort.element]>>

TypedUpTo(T, g, n) == \A i \in SortLines(T) : i <= n => g[i] = TypeStep(T, g, i)

\* The sort lines an array sort names are earlier ones.
LEMMA SortLinesFirst ==
    ASSUME NEW T, Resolves(T), NEW i \in SortLines(T)
    PROVE  /\ i \in Nat \ {0} /\ T[i].sort.id = i
           /\ IsBitvec(T[i]) \/ IsArray(T[i])
           /\ T[i].sort.tag # "bitvec" =>
                /\ T[i].sort.word \in SortLines(T) /\ T[i].sort.word < i
                /\ T[i].sort.element \in SortLines(T) /\ T[i].sort.element < i
<1>1. T[i] \in Line /\ Resolved(T, i) /\ T[i].tag = "sort" /\ i \in Nat \ {0}
  BY DEF Resolves, SortLines
<1>2. IsBitvec(T[i]) \/ IsArray(T[i])
  BY <1>1 DEF Line, Sort, IsBitvec, IsArray
<1>3. T[i].sort.tag # "bitvec" => IsArray(T[i])
  BY <1>2 DEF IsBitvec
<1> QED
  BY <1>1, <1>2, <1>3 DEF Resolved, SortLines

LEMMA TypeStepDepends ==
    ASSUME NEW T, Resolves(T), NEW g, NEW h, NEW i \in SortLines(T),
           \A j \in SortLines(T) : j < i => g[j] = h[j]
    PROVE  TypeStep(T, g, i) = TypeStep(T, h, i)
BY SortLinesFirst DEF TypeStep

\* So types up to a line are unique,
LEMMA TypedOnce ==
    ASSUME NEW T, Resolves(T), NEW g, NEW h, NEW n \in Nat,
           TypedUpTo(T, g, n), TypedUpTo(T, h, n)
    PROVE  \A i \in SortLines(T) : i <= n => g[i] = h[i]
<1> DEFINE bad == {i \in SortLines(T) : i <= n /\ g[i] # h[i]}
<1>1. ASSUME bad # {} PROVE FALSE
  <2>1. SortLines(T) \subseteq Nat
    BY DEF Resolves, SortLines
  <2>2. bad \in SUBSET Nat
    BY <2>1
  <2>3. PICK i \in bad : \A j \in bad : i <= j
    <3> HIDE DEF bad
    <3> QED
      BY <1>1, <2>2, LeastNumber
  <2>4. \A j \in SortLines(T) : j < i => g[j] = h[j]
    BY <2>1, <2>3
  <2>5. TypeStep(T, g, i) = TypeStep(T, h, i)
    BY <2>3, <2>4, TypeStepDepends
  <2> QED
    BY <2>3, <2>5 DEF TypedUpTo
<1> QED
  BY <1>1

\* and there are some.
LEMMA TypedSomewhere ==
    ASSUME NEW T, Resolves(T)
    PROVE  \A n \in Nat : \E g : TypedUpTo(T, g, n)
<1> DEFINE bad == {n \in Nat : ~\E g : TypedUpTo(T, g, n)}
<1>0. SortLines(T) \subseteq Nat \ {0}
  BY DEF Resolves, SortLines
<1>1. ASSUME bad # {} PROVE FALSE
  <2>1. PICK n \in bad : \A j \in bad : n <= j
    <3>1. bad \in SUBSET Nat
      OBVIOUS
    <3> HIDE DEF bad
    <3> QED
      BY <1>1, <3>1, LeastNumber
  <2>2. n # 0
    <3>1. \A g : TypedUpTo(T, g, 0)
      BY <1>0 DEF TypedUpTo
    <3> QED
      BY <2>1, <3>1
  <2>3. n - 1 \in Nat /\ ~(n <= n - 1)
    BY <2>1, <2>2
  <2>4. PICK g : TypedUpTo(T, g, n - 1)
    BY <2>1, <2>3
  <2> DEFINE h == [i \in SortLines(T) |-> IF i = n THEN TypeStep(T, g, n) ELSE g[i]]
  <2>5. ASSUME NEW i \in SortLines(T), i <= n
        PROVE  h[i] = TypeStep(T, h, i)
    <3>1. \A j \in SortLines(T) : j < i => g[j] = h[j]
      BY <1>0, <2>1, <2>5
    <3>2. TypeStep(T, g, i) = TypeStep(T, h, i)
      <4> HIDE DEF h
      <4> QED
        BY <3>1, TypeStepDepends
    <3>3. h[i] = TypeStep(T, g, i)
      <4>1. CASE i = n
        BY <4>1
      <4>2. CASE i # n
        <5>1. i <= n - 1
          BY <1>0, <2>1, <2>5, <4>2
        <5> QED
          BY <2>4, <4>2, <5>1 DEF TypedUpTo
      <4> QED
        BY <4>1, <4>2
    <3> QED
      BY <3>2, <3>3
  <2>6. TypedUpTo(T, h, n)
    <3> HIDE DEF h
    <3> QED
      BY <2>5 DEF TypedUpTo
  <2> QED
    BY <2>1, <2>6
<1> QED
  BY <1>1

\* TypeOf satisfies its equation: its recursion over nested arrays ends.
LEMMA TypeOfStep ==
    ASSUME NEW T, Resolves(T), NEW i \in SortLines(T)
    PROVE  TypeOf(T, i) = IF IsBitvec(T[i]) THEN B(Width(T[i]))
                          ELSE A(TypeOf(T, T[i].sort.word), TypeOf(T, T[i].sort.element))
<1> DEFINE F(g) == [n \in SortLines(T) |-> TypeStep(T, g, n)]
           upto(n) == CHOOSE g : TypedUpTo(T, g, n)
           all == [n \in SortLines(T) |-> upto(n)[n]]
<1>0. SortLines(T) \subseteq Nat
  BY DEF Resolves, SortLines
<1>1. ASSUME NEW n \in Nat PROVE TypedUpTo(T, upto(n), n)
  BY TypedSomewhere
<1> HIDE DEF upto
<1>2. ASSUME NEW n \in SortLines(T) PROVE all[n] = TypeStep(T, all, n)
  <2>1. ASSUME NEW j \in SortLines(T), j < n PROVE upto(n)[j] = all[j]
    <3>1. n \in Nat /\ j \in Nat /\ j <= n
      BY <1>0, <2>1
    <3>2. TypedUpTo(T, upto(n), j) /\ TypedUpTo(T, upto(j), j)
      BY <1>0, <1>1, <3>1 DEF TypedUpTo
    <3>3. upto(n)[j] = upto(j)[j]
      BY <3>1, <3>2, TypedOnce
    <3> QED
      BY <3>3
  <2>2. upto(n)[n] = TypeStep(T, upto(n), n)
    BY <1>0, <1>1 DEF TypedUpTo
  <2>3. TypeStep(T, upto(n), n) = TypeStep(T, all, n)
    <3> HIDE DEF all
    <3> QED
      BY <2>1, TypeStepDepends
  <2> QED
    BY <2>2, <2>3
<1>3. all = F(all)
  <2>1. all = [n \in SortLines(T) |-> all[n]]
    OBVIOUS
  <2> HIDE DEF all
  <2> QED
    BY <1>2, <2>1
<1>4. \E g : g = F(g)
  BY <1>3
<1> DEFINE f == CHOOSE g : g = F(g)
<1>5. f = F(f)
  BY <1>4
<1>6. \A n : TypeOf(T, n) = f[n]
  BY DEF TypeOf, TypeStep
<1> HIDE DEF f
<1>7. f[i] = TypeStep(T, f, i)
  BY <1>5
<1> QED
  BY <1>6, <1>7 DEF TypeStep, IsBitvec, Width, A, B

\* cmp_sort_ids compares the types: a solution of its equation is whether they are
\* equal, and there is only one.
LEMMA SameSortTypes ==
    ASSUME NEW T, Resolves(T), NEW i \in SortLines(T), NEW j \in SortLines(T)
    PROVE  SameSort(T, i, j) <=> TypeOf(T, i) = TypeOf(T, j)
<1> DEFINE P == SortLines(T) \X SortLines(T)
           Same(g, p) == LET s == T[p[1]].sort
                             t == T[p[2]].sort
                         IN  /\ s.tag = t.tag
                             /\ s.tag = "bitvec" => s.word = t.word
                             /\ s.tag = "array"  => /\ g[<<s.word, t.word>>]
                                                    /\ g[<<s.element, t.element>>]
           F(g) == [p \in P |-> Same(g, p)]
           eq == [p \in P |-> TypeOf(T, p[1]) = TypeOf(T, p[2])]
<1>1. ASSUME NEW p \in P PROVE eq[p] = Same(eq, p)
  <2> DEFINE s == T[p[1]].sort
             t == T[p[2]].sort
  <2>1. p[1] \in SortLines(T) /\ p[2] \in SortLines(T)
    OBVIOUS
  <2>2. /\ s.tag = "bitvec" \/ s.tag = "array"
        /\ t.tag = "bitvec" \/ t.tag = "array"
        /\ s.tag # "bitvec" => s.word \in SortLines(T) /\ s.element \in SortLines(T)
        /\ t.tag # "bitvec" => t.word \in SortLines(T) /\ t.element \in SortLines(T)
    BY <2>1, SortLinesFirst DEF IsBitvec, IsArray
  <2>3. /\ TypeOf(T, p[1]) = IF s.tag = "bitvec" THEN <<"bitvec", s.word>>
                             ELSE <<"array", TypeOf(T, s.word), TypeOf(T, s.element)>>
        /\ TypeOf(T, p[2]) = IF t.tag = "bitvec" THEN <<"bitvec", t.word>>
                             ELSE <<"array", TypeOf(T, t.word), TypeOf(T, t.element)>>
    BY <2>1, TypeOfStep DEF IsBitvec, Width, A, B
  <2>4. TypeOf(T, p[1]) = TypeOf(T, p[2]) <=>
          /\ s.tag = t.tag
          /\ s.tag = "bitvec" => s.word = t.word
          /\ s.tag = "array"  => /\ TypeOf(T, s.word) = TypeOf(T, t.word)
                                 /\ TypeOf(T, s.element) = TypeOf(T, t.element)
    BY <2>2, <2>3
  <2>5. \A m, n \in SortLines(T) : eq[<<m, n>>] <=> TypeOf(T, m) = TypeOf(T, n)
    OBVIOUS
  <2>6. /\ eq[p] \in BOOLEAN
        /\ eq[p] <=> TypeOf(T, p[1]) = TypeOf(T, p[2])
    OBVIOUS
  <2> HIDE DEF eq
  <2>7. Same(eq, p) <=> TypeOf(T, p[1]) = TypeOf(T, p[2])
    BY <2>2, <2>4, <2>5
  <2> QED
    BY <2>6, <2>7
<1>2. eq = F(eq)
  BY <1>1
<1> DEFINE f == CHOOSE g : g = F(g)
<1>3. f = F(f)
  BY <1>2
<1>4. SameSort(T, i, j) = f[<<i, j>>]
  BY DEF SameSort
<1> HIDE DEF f, eq
<1>5. \A p \in P : f[p] = Same(f, p)
  BY <1>3
<1> DEFINE bad == {n \in SortLines(T) : \E m \in SortLines(T) : f[<<n, m>>] # eq[<<n, m>>]}
<1>6. ASSUME bad # {} PROVE FALSE
  <2>1. SortLines(T) \subseteq Nat
    BY DEF Resolves, SortLines
  <2>2. PICK n \in bad : \A l \in bad : n <= l
    <3>1. bad \in SUBSET Nat
      BY <2>1
    <3> HIDE DEF bad
    <3> QED
      BY <1>6, <3>1, LeastNumber
  <2>3. PICK m \in SortLines(T) : f[<<n, m>>] # eq[<<n, m>>]
    BY <2>2
  <2>4. n \in SortLines(T) /\ <<n, m>> \in P
    BY <2>2
  <2>5. \A l \in SortLines(T) : l < n => \A q \in SortLines(T) : f[<<l, q>>] = eq[<<l, q>>]
    BY <2>1, <2>2
  <2>6. /\ T[n].sort.tag = "array" => T[n].sort.word \in SortLines(T) /\ T[n].sort.word < n
        /\ T[n].sort.tag = "array" => T[n].sort.element \in SortLines(T) /\ T[n].sort.element < n
        /\ T[m].sort.tag = "array" => T[m].sort.word \in SortLines(T)
        /\ T[m].sort.tag = "array" => T[m].sort.element \in SortLines(T)
    BY <2>4, SortLinesFirst
  <2>7. Same(f, <<n, m>>) = Same(eq, <<n, m>>)
    BY <2>5, <2>6
  <2>8. f[<<n, m>>] = Same(f, <<n, m>>) /\ eq[<<n, m>>] = Same(eq, <<n, m>>)
    <3> HIDE DEF Same
    <3> QED
      BY <1>1, <1>5, <2>4
  <2> QED
    BY <2>3, <2>7, <2>8
<1>7. f[<<i, j>>] = eq[<<i, j>>]
  BY <1>6
<1> QED
  BY <1>4, <1>7 DEF eq

\* The sort a line carries, and its type.
LEMMA SortOfLine ==
    ASSUME NEW T, Resolves(T), NEW i \in DOMAIN T, T[i].tag \in SortedTags
    PROVE  LET l == T[i]
           IN  /\ l.sort.id \in SortLines(T)
               /\ IsBitvec(l) <=> ~IsArray(l)
               /\ IsBitvec(l) => TypeOf(T, l.sort.id) = B(Width(l))
               /\ IsArray(l) =>
                    /\ l.sort.word \in SortLines(T) /\ l.sort.element \in SortLines(T)
                    /\ TypeOf(T, l.sort.id)
                         = A(TypeOf(T, l.sort.word), TypeOf(T, l.sort.element))
<1> DEFINE l == T[i]
           s == T[l.sort.id]
<1>1. l.sort.id \in SortLines(T) /\ s.sort = l.sort
  BY DEF Resolves, Resolved, SortLines
<1>2. /\ IsBitvec(s) \/ IsArray(s)
      /\ s.sort.tag # "bitvec" => s.sort.word \in SortLines(T) /\ s.sort.element \in SortLines(T)
  BY <1>1, SortLinesFirst
<1>3. TypeOf(T, l.sort.id) = IF IsBitvec(s) THEN B(Width(s))
                             ELSE A(TypeOf(T, s.sort.word), TypeOf(T, s.sort.element))
  BY <1>1, TypeOfStep
<1>4. /\ IsBitvec(s) <=> IsBitvec(l)
      /\ IsArray(s) <=> IsArray(l)
      /\ Width(s) = Width(l)
      /\ IsBitvec(l) <=> ~IsArray(l)
  BY <1>1, <1>2 DEF IsBitvec, IsArray, Width
<1> HIDE DEF l, s
<1>5. IsArray(l) => s.sort.tag # "bitvec" /\ ~IsBitvec(s)
  BY <1>4 DEF IsArray, IsBitvec
<1> QED
  BY <1>1, <1>2, <1>3, <1>4, <1>5 DEF l

\* An argument has a sort, since output lines have none and other lines without one
\* are refused by their tags.
LEMMA SortedArguments ==
    ASSUME NEW T, Resolves(T), NEW i \in DOMAIN T, NEW k \in DOMAIN T[i].args
    PROVE  /\ Abs(T[i].args[k]) \in DOMAIN T /\ Abs(T[i].args[k]) < i
           /\ Arg(T, T[i], k).tag \in SortedTags
<1>1. /\ Abs(T[i].args[k]) \in DOMAIN T /\ Abs(T[i].args[k]) < i
      /\ Arg(T, T[i], k).tag \notin NonArguments \cup {"output"}
  BY DEF Resolves, Resolved
<1>2. Arg(T, T[i], k).tag \in Tag
  BY <1>1 DEF Resolves, Line, Arg
<1> QED
  BY <1>1, <1>2 DEF Tag, NonArguments, Properties

\* Types stay what they are in a longer table.
LEMMA TypesKept ==
    ASSUME NEW T, Resolves(T), NEW E, Resolves(E),
           \A j \in SortLines(T) : j \in SortLines(E) /\ E[j].sort = T[j].sort
    PROVE  \A j \in SortLines(T) : TypeOf(E, j) = TypeOf(T, j)
<1> DEFINE bad == {j \in SortLines(T) : TypeOf(E, j) # TypeOf(T, j)}
<1>1. ASSUME bad # {} PROVE FALSE
  <2>1. SortLines(T) \subseteq Nat
    BY DEF Resolves, SortLines
  <2>2. PICK n \in bad : \A j \in bad : n <= j
    <3>1. bad \in SUBSET Nat
      BY <2>1
    <3> HIDE DEF bad
    <3> QED
      BY <1>1, <3>1, LeastNumber
  <2>3. \A j \in SortLines(T) : j < n => TypeOf(E, j) = TypeOf(T, j)
    BY <2>1, <2>2
  <2>4. /\ TypeOf(T, n) = IF IsBitvec(T[n]) THEN B(Width(T[n]))
                ELSE A(TypeOf(T, T[n].sort.word), TypeOf(T, T[n].sort.element))
        /\ TypeOf(E, n) = IF IsBitvec(E[n]) THEN B(Width(E[n]))
                ELSE A(TypeOf(E, E[n].sort.word), TypeOf(E, E[n].sort.element))
    BY <2>2, TypeOfStep
  <2>5. E[n].sort = T[n].sort
    BY <2>2
  <2>6. ~IsBitvec(T[n]) =>
          /\ T[n].sort.word \in SortLines(T) /\ T[n].sort.word < n
          /\ T[n].sort.element \in SortLines(T) /\ T[n].sort.element < n
    BY <2>2, SortLinesFirst DEF IsBitvec
  <2> QED
    BY <2>2, <2>3, <2>4, <2>5, <2>6 DEF IsBitvec, Width
<1> QED
  BY <1>1

\* And so does the outcome of check_sorts_bfr, which looks at earlier lines only.
LEMMA SortsKept ==
    ASSUME NEW T, Resolves(T), NEW E, Resolves(E),
           \A j \in DOMAIN T : j \in DOMAIN E /\ E[j].sort = T[j].sort /\ E[j].tag = T[j].tag,
           NEW i \in DOMAIN E, \A j \in DOMAIN E : j < i => j \in DOMAIN T,
           NEW l, l.tag = E[i].tag, l.sort = E[i].sort, l.args = E[i].args, l.imm = E[i].imm,
           E[i].tag # "justice" => Len(E[i].args) = Arity[E[i].tag],
           SortsOk(T, l)
    PROVE  SortsOk(E, E[i])
<1> DEFINE m == E[i]
<1>1. ASSUME NEW k \in DOMAIN l.args
      PROVE  /\ Arg(E, m, k).sort = Arg(T, l, k).sort /\ Arg(E, m, k).tag = Arg(T, l, k).tag
             /\ Arg(T, l, k).sort.id \in SortLines(T)
             /\ IsArray(Arg(T, l, k)) =>
                  /\ Arg(T, l, k).sort.word \in SortLines(T)
                  /\ Arg(T, l, k).sort.element \in SortLines(T)
  <2>1. /\ Abs(m.args[k]) \in DOMAIN E /\ Abs(m.args[k]) < i
        /\ Arg(E, m, k).tag \in SortedTags
    BY <1>1, SortedArguments
  <2>2. Abs(l.args[k]) \in DOMAIN T
    BY <2>1
  <2>3. Arg(E, m, k).sort = Arg(T, l, k).sort /\ Arg(E, m, k).tag = Arg(T, l, k).tag
    BY <2>2 DEF Arg
  <2>4. T[Abs(l.args[k])].tag \in SortedTags
    BY <2>1, <2>3 DEF Arg
  <2> QED
    BY <2>2, <2>3, <2>4, SortOfLine DEF Arg
<1>2. \A j, n \in SortLines(T) : SameSort(E, j, n) <=> SameSort(T, j, n)
  <2>1. \A j \in SortLines(T) : j \in SortLines(E) /\ E[j].sort = T[j].sort
    BY DEF SortLines
  <2>2. \A j \in SortLines(T) : TypeOf(E, j) = TypeOf(T, j)
    BY <2>1, TypesKept
  <2> QED
    BY <2>1, <2>2, SameSortTypes
<1>3. m.tag \in SortedTags =>
        /\ l.sort.id \in SortLines(T)
        /\ IsArray(l) => l.sort.word \in SortLines(T) /\ l.sort.element \in SortLines(T)
  <2>1. SUFFICES ASSUME m.tag \in SortedTags
                 PROVE  /\ l.sort.id \in SortLines(T)
                        /\ IsArray(l) => l.sort.word \in SortLines(T)
                                         /\ l.sort.element \in SortLines(T)
    OBVIOUS
  <2>2. l.sort.id \in DOMAIN E /\ l.sort.id < i /\ E[l.sort.id].tag = "sort"
        /\ E[l.sort.id].sort = l.sort
    BY <2>1 DEF Resolves, Resolved
  <2>3. l.sort.id \in SortLines(T) /\ T[l.sort.id].sort = l.sort
    BY <2>2 DEF SortLines
  <2> QED
    BY <2>3, SortLinesFirst DEF IsArray
<1>4. \A k \in DOMAIN l.args :
        /\ IsArray(Arg(E, m, k)) <=> IsArray(Arg(T, l, k))
        /\ IsBitvec(Arg(E, m, k)) <=> IsBitvec(Arg(T, l, k))
        /\ Width(Arg(E, m, k)) = Width(Arg(T, l, k))
        /\ IsBool(Arg(E, m, k)) <=> IsBool(Arg(T, l, k))
  BY <1>1 DEF IsArray, IsBitvec, Width, IsBool
<1>5. /\ IsArray(m) <=> IsArray(l)
      /\ IsBitvec(m) <=> IsBitvec(l)
      /\ Width(m) = Width(l)
      /\ AllBitvec(E, m) <=> AllBitvec(T, l)
  BY <1>4 DEF IsArray, IsBitvec, Width, AllBitvec
<1>6. \A j, k \in DOMAIN l.args :
        SameSorts(E, Arg(E, m, j), Arg(E, m, k)) <=> SameSorts(T, Arg(T, l, j), Arg(T, l, k))
  BY <1>1, <1>2 DEF SameSorts
<1>7. m.tag \in SortedTags => \A k \in DOMAIN l.args :
        SameSorts(E, m, Arg(E, m, k)) <=> SameSorts(T, l, Arg(T, l, k))
  BY <1>1, <1>2, <1>3 DEF SameSorts
<1>8. /\ l.tag \in UnaryTags \cup Properties \cup {"output"} => 1 \in DOMAIN l.args
      /\ l.tag \in BinaryTags => 1 \in DOMAIN l.args /\ 2 \in DOMAIN l.args
      /\ l.tag \in TernaryTags =>
           1 \in DOMAIN l.args /\ 2 \in DOMAIN l.args /\ 3 \in DOMAIN l.args
  <2>1. l.args \in Seq(Int)
    BY DEF Resolves, Line
  <2>2. "justice" \notin UnaryTags \cup Properties \cup {"output"} \cup BinaryTags \cup TernaryTags
    BY DEF UnaryTags, Properties, BinaryTags, TernaryTags, Unary, Reductions, Extensions, Binary,
           Predicates, Equalities, Connectives, Links
  <2> QED
    BY <2>1, <2>2, ArityOf
<1>9. l.tag = "init" => InitSortsOk(E, m)
  <2>1. SUFFICES ASSUME l.tag = "init" PROVE InitSortsOk(E, m)
    OBVIOUS
  <2>2. l.tag \in SortedTags /\ l.tag \in BinaryTags
    BY <2>1 DEF SortedTags, BinaryTags, Links
  <2>3. InitSortsOk(T, l)
    BY <2>1 DEF SortsOk
  <2>4. IsArray(l) /\ IsBitvec(Arg(T, l, 2)) =>
          SameSort(E, m.sort.element, Arg(E, m, 2).sort.id)
    BY <1>1, <1>2, <1>3, <1>8, <2>2, <2>3 DEF InitSortsOk
  <2> QED
    BY <1>1, <1>4, <1>5, <1>7, <1>8, <2>2, <2>3, <2>4 DEF InitSortsOk
<1>10. l.tag = "read" => ReadSortsOk(E, m)
  <2>1. SUFFICES ASSUME l.tag = "read" PROVE ReadSortsOk(E, m)
    OBVIOUS
  <2>2. l.tag \in SortedTags /\ l.tag \in BinaryTags
    BY <2>1 DEF SortedTags, BinaryTags
  <2>3. ReadSortsOk(T, l)
    BY <2>1 DEF SortsOk
  <2> QED
    BY <1>1, <1>2, <1>3, <1>4, <1>8, <2>2, <2>3 DEF ReadSortsOk
<1>11. l.tag = "write" => WriteSortsOk(E, m)
  <2>1. SUFFICES ASSUME l.tag = "write" PROVE WriteSortsOk(E, m)
    OBVIOUS
  <2>2. l.tag \in TernaryTags
    BY <2>1 DEF TernaryTags
  <2>3. WriteSortsOk(T, l)
    BY <2>1 DEF SortsOk
  <2> QED
    BY <1>1, <1>2, <1>4, <1>5, <1>8, <2>2, <2>3 DEF WriteSortsOk
<1>12. /\ \A t \in Unary \cup Reductions \cup Extensions \cup {"slice"} : t \in UnaryTags
       /\ \A t \in Binary \cup Predicates \cup Equalities \cup Connectives \cup {"concat", "next"} :
             t \in BinaryTags
       /\ "ite" \in TernaryTags /\ "next" \in SortedTags
  BY DEF UnaryTags, BinaryTags, TernaryTags, SortedTags, Links
<1> HIDE DEF m
<1> USE <1>4, <1>5, <1>8, <1>12
<1>13. m.tag = l.tag /\ m.args = l.args /\ m.imm = l.imm
  BY DEF m
<1>14. \A k \in DOMAIN m.args : ~(IsArray(Arg(E, m, k)) /\ m.args[k] < 0)
  BY <1>13 DEF SortsOk
<1>15. /\ m.tag \in Unary => AllBitvec(E, m) /\ Width(m) = Width(Arg(E, m, 1))
       /\ m.tag \in Reductions => AllBitvec(E, m) /\ Width(m) = 1
       /\ m.tag = "slice" => AllBitvec(E, m) /\ Width(m) = m.imm[1] - m.imm[2] + 1
       /\ m.tag \in Extensions => AllBitvec(E, m) /\ Width(m) = Width(Arg(E, m, 1)) + m.imm[1]
  BY <1>13 DEF SortsOk
<1>16. /\ m.tag \in Binary => AllBitvec(E, m) /\ Width(m) = Width(Arg(E, m, 1))
                              /\ Width(m) = Width(Arg(E, m, 2))
       /\ m.tag \in Predicates => AllBitvec(E, m) /\ Width(m) = 1
                                  /\ Width(Arg(E, m, 1)) = Width(Arg(E, m, 2))
       /\ m.tag \in Connectives => AllBitvec(E, m) /\ Width(m) = 1
                                   /\ Width(Arg(E, m, 1)) = 1 /\ Width(Arg(E, m, 2)) = 1
       /\ m.tag = "concat" => AllBitvec(E, m) /\ Width(m) = Width(Arg(E, m, 1)) + Width(Arg(E, m, 2))
  BY <1>13 DEF SortsOk
<1>17. /\ m.tag \in Equalities => Width(m) = 1 /\ SameSorts(E, Arg(E, m, 1), Arg(E, m, 2))
       /\ m.tag = "ite" => IsBool(Arg(E, m, 1)) /\ SameSorts(E, Arg(E, m, 2), Arg(E, m, 3))
  BY <1>6, <1>13 DEF SortsOk
<1>18. /\ m.tag = "next" => SameSorts(E, m, Arg(E, m, 1)) /\ SameSorts(E, m, Arg(E, m, 2))
       /\ m.tag \in Properties \cup {"justice"} => \A k \in DOMAIN m.args : IsBool(Arg(E, m, k))
       /\ m.tag = "output" => IsBitvec(Arg(E, m, 1))
  BY <1>7, <1>13 DEF SortsOk
<1> QED
  BY <1>9, <1>10, <1>11, <1>13, <1>14, <1>15, <1>16, <1>17, <1>18 DEF SortsOk, m

\* check_sorts_bfr accepts every line of the table but the last one of a file that
\* failed, and would accept it again.
Checked ==
    \A i \in DOMAIN lines :
       error = "none" \/ i # ntable - 1 => SortsOk(lines, lines[i])

\* What storing a line does to the lines that were checked, and to the new one.
LEMMA StoreKeepsChecks ==
    ASSUME RefInv, RefInv', LinksBinary, Counted', NEW s \in Statement, Store(s)
    PROVE  /\ DOMAIN lines' = DOMAIN lines \cup {s.id}
           /\ \A i \in DOMAIN lines : SortsOk(lines, lines[i]) => SortsOk(lines', lines'[i])
           /\ SortsOk(lines, LineOf(lines, s)) => SortsOk(lines', lines'[s.id])
<1> DEFINE T == lines
           E == lines'
           n == s.id
<1>1. /\ LinkContext(T, s)
      /\ E = Extended(T, s)
      /\ n \notin DOMAIN T
  BY StoreContext
<1>2. Resolves(T) /\ Resolves(E)
  BY DEF RefInv, TypeOK, ReferencesResolved, Resolves
<1>3. DOMAIN E = DOMAIN T \cup {n}
  BY <1>1, ExtendedArgs
<1>4. \A j \in DOMAIN T : /\ j \in DOMAIN E /\ j < n
                          /\ E[j].tag = T[j].tag /\ E[j].sort = T[j].sort
                          /\ E[j].args = T[j].args /\ E[j].imm = T[j].imm
  BY <1>1 DEF LinkContext, Extended, Line
<1>5. E[n].tag = LineOf(T, s).tag /\ E[n].sort = LineOf(T, s).sort
      /\ E[n].args = LineOf(T, s).args /\ E[n].imm = LineOf(T, s).imm
  BY <1>1, ExtendedNew
<1>6. \A i \in DOMAIN E : E[i].tag # "justice" => Len(E[i].args) = Arity[E[i].tag]
  BY DEF Counted
<1>7. n \in Nat /\ DOMAIN E \subseteq Nat
  BY <1>2, <1>3 DEF Resolves
<1> HIDE DEF T, E, n
<1>8. ASSUME NEW i \in DOMAIN T, SortsOk(T, T[i]) PROVE SortsOk(E, E[i])
  <2> DEFINE l == T[i]
  <2>1. /\ i \in DOMAIN E
        /\ \A j \in DOMAIN E : j < i => j \in DOMAIN T
        /\ l.tag = E[i].tag /\ l.sort = E[i].sort /\ l.args = E[i].args /\ l.imm = E[i].imm
    BY <1>3, <1>4, <1>7, <1>8
  <2>2. SortsOk(T, l)
    BY <1>8
  <2> HIDE DEF l
  <2> QED
    BY <1>2, <1>4, <1>6, <2>1, <2>2, SortsKept
<1>9. ASSUME SortsOk(T, LineOf(T, s)) PROVE SortsOk(E, E[n])
  <2> DEFINE l == LineOf(T, s)
  <2>1. /\ n \in DOMAIN E
        /\ \A j \in DOMAIN E : j < n => j \in DOMAIN T
        /\ l.tag = E[n].tag /\ l.sort = E[n].sort /\ l.args = E[n].args /\ l.imm = E[n].imm
    BY <1>3, <1>5, <1>7
  <2>2. SortsOk(T, l)
    BY <1>9
  <2> HIDE DEF l
  <2> QED
    BY <1>2, <1>4, <1>6, <2>1, <2>2, SortsKept
<1> QED
  BY <1>3, <1>8, <1>9 DEF T, E, n

\* Spec => []Checked: the outcome of check_sorts_bfr on a line does not change when
\* others follow.
THEOREM CheckedInvariant == Spec => []Checked
<1>1. Init => Checked
  BY DEF Init, NoLines, Checked
<1>2. RefInv /\ RefInv' /\ LinksBinary /\ Counted' /\ Phases /\ Checked /\ [Next]_vars
        => Checked'
  <2> SUFFICES ASSUME RefInv, RefInv', LinksBinary, Counted', Phases, Checked, [Next]_vars
               PROVE  Checked'
    OBVIOUS
  <2>1. CASE UNCHANGED <<lines, ntable, error>>
    BY <2>1 DEF Checked
  <2>2. CASE lines' = NoLines
    <3>1. DOMAIN lines' = {}
      BY <2>2 DEF NoLines
    <3> QED
      BY <3>1 DEF Checked
  <2>3. CASE lines' = lines /\ reading
    BY <2>3 DEF Checked, Phases
  <2>4. ASSUME NEW s \in Statement, Store(s),
               SortsOk(lines, LineOf(lines, s)) \/ error' # "none"
        PROVE  Checked'
    <3>1. reading /\ error = "none" /\ ntable' = s.id + 1
      BY <2>4 DEF Store, Phases
    <3>2. \A i \in DOMAIN lines : SortsOk(lines, lines[i])
      BY <3>1 DEF Checked
    <3>3. /\ DOMAIN lines' = DOMAIN lines \cup {s.id}
          /\ \A i \in DOMAIN lines : SortsOk(lines', lines'[i])
          /\ SortsOk(lines, LineOf(lines, s)) => SortsOk(lines', lines'[s.id])
      BY <2>4, <3>2, StoreKeepsChecks
    <3>4. s.id \in Nat /\ ntable' - 1 = s.id
      BY <3>1, StatementAssumption DEF StatementType
    <3> QED
      BY <2>4, <3>3, <3>4 DEF Checked
  <2>5. ASSUME NEW s \in Statement, ReadLine(s) PROVE Checked'
    <3>1. CASE RejectHead(s) \/ RejectBody(s)
      BY <2>3, <3>1 DEF RejectHead, RejectBody
    <3>2. CASE AcceptLine(s)
      BY <2>4, <3>2 DEF AcceptLine
    <3>3. CASE RejectSorts(s) \/ RejectTail(s)
      BY <2>4, <3>3 DEF RejectSorts, RejectTail, Fail
    <3> QED
      BY <2>5, <3>1, <3>2, <3>3 DEF ReadLine
  <2> QED
    BY <2>1, <2>2, <2>5 DEF Next, ReadLines, EndOfFile, IterInit, IterNext, vars
<1>3. Spec => []RefInv /\ []LinksBinary /\ []Counted /\ []Phases
  BY ReferencesInvariant, LinksInvariant, CountedInvariant, PhasesInvariant, PTL
<1> QED
  BY <1>1, <1>2, <1>3, PTL DEF Spec

\* A sequence is its elements.
LEMMA SequenceOf ==
    ASSUME NEW f, NEW n, f = [k \in 1 .. n |-> f[k]]
    PROVE  /\ n = 1 => f = <<f[1]>>
           /\ n = 2 => f = <<f[1], f[2]>>
OBVIOUS

\* Types of vectors and of arrays are told apart by their first component, and are
\* determined by the others.
LEMMA TypeParts ==
    /\ \A n : B(n)[1] = "bitvec" /\ B(n)[2] = n
    /\ \A t, u : A(t, u)[1] = "array" /\ A(t, u)[2] = t /\ A(t, u)[3] = u
BY DEF A, B

\* What is known of the sort of a line whose sort was checked, and of those of its
\* arguments.
LEMMA CheckedTypes ==
    ASSUME RefInv, Counted, NEW i \in DOMAIN lines
    PROVE  LET l == lines[i]
               a(k) == Arg(lines, l, k)
               x == ArgTypes(l)
               r == ResultType(l)
           IN  /\ \A k \in DOMAIN l.args :
                    /\ a(k).sort.id \in SortLines(lines)
                    /\ x[k] = TypeOf(lines, a(k).sort.id)
                    /\ IsBitvec(a(k)) <=> ~IsArray(a(k))
                    /\ IsBitvec(a(k)) => x[k] = B(Width(a(k)))
                    /\ IsArray(a(k)) =>
                         /\ a(k).sort.word \in SortLines(lines)
                         /\ a(k).sort.element \in SortLines(lines)
                         /\ x[k] = A(TypeOf(lines, a(k).sort.word),
                                     TypeOf(lines, a(k).sort.element))
               /\ l.tag \in SortedTags =>
                    /\ l.sort.id \in SortLines(lines)
                    /\ r = TypeOf(lines, l.sort.id)
                    /\ IsBitvec(l) <=> ~IsArray(l)
                    /\ IsBitvec(l) => r = B(Width(l))
                    /\ IsArray(l) =>
                         /\ l.sort.element \in SortLines(lines)
                         /\ r = A(TypeOf(lines, l.sort.word),
                                  TypeOf(lines, l.sort.element))
               /\ l.tag \in UnaryTags => x = <<x[1]>> /\ DOMAIN l.args = {1}
               /\ l.tag \in BinaryTags => x = <<x[1], x[2]>> /\ DOMAIN l.args = {1, 2}
               /\ l.tag \in TernaryTags => DOMAIN l.args = {1, 2, 3}
<1> DEFINE l == lines[i]
           a(k) == Arg(lines, l, k)
           x == ArgTypes(l)
<1>1. Resolves(lines)
  BY DEF RefInv, TypeOK, ReferencesResolved, Resolves
<1>2. ASSUME NEW k \in DOMAIN l.args
      PROVE  /\ a(k).sort.id \in SortLines(lines)
             /\ x[k] = TypeOf(lines, a(k).sort.id)
             /\ IsBitvec(a(k)) <=> ~IsArray(a(k))
             /\ IsBitvec(a(k)) => x[k] = B(Width(a(k)))
             /\ IsArray(a(k)) =>
                  /\ a(k).sort.word \in SortLines(lines)
                  /\ a(k).sort.element \in SortLines(lines)
                  /\ x[k] = A(TypeOf(lines, a(k).sort.word),
                              TypeOf(lines, a(k).sort.element))
  <2>1. Abs(l.args[k]) \in DOMAIN lines /\ a(k).tag \in SortedTags
    BY <1>1, SortedArguments
  <2>2. x[k] = TypeOf(lines, a(k).sort.id)
    BY DEF ArgTypes
  <2>3. a(k) = lines[Abs(l.args[k])]
    BY DEF Arg
  <2> HIDE DEF a, x
  <2> QED
    BY <1>1, <2>1, <2>2, <2>3, SortOfLine
<1>3. l.tag \in SortedTags =>
        /\ l.sort.id \in SortLines(lines)
        /\ IsBitvec(l) <=> ~IsArray(l)
        /\ IsBitvec(l) => ResultType(l) = B(Width(l))
        /\ IsArray(l) =>
             /\ l.sort.element \in SortLines(lines)
             /\ ResultType(l) = A(TypeOf(lines, l.sort.word), TypeOf(lines, l.sort.element))
  BY <1>1, SortOfLine DEF ResultType
<1>4. /\ l.tag \in UnaryTags => x = <<x[1]>> /\ DOMAIN l.args = {1}
      /\ l.tag \in BinaryTags => x = <<x[1], x[2]>> /\ DOMAIN l.args = {1, 2}
      /\ l.tag \in TernaryTags => DOMAIN l.args = {1, 2, 3}
  <2>1. l.args \in Seq(Int)
    BY DEF RefInv, TypeOK, Line
  <2>2. "justice" \notin UnaryTags \cup BinaryTags \cup TernaryTags
    BY DEF UnaryTags, BinaryTags, TernaryTags, Unary, Reductions, Extensions, Binary,
           Predicates, Equalities, Connectives, Links
  <2>3. /\ l.tag \in UnaryTags => Len(l.args) = 1
        /\ l.tag \in BinaryTags => Len(l.args) = 2
        /\ l.tag \in TernaryTags => Len(l.args) = 3
    BY <2>2, ArityOf DEF Counted
  <2>4. DOMAIN l.args = 1 .. Len(l.args)
    BY <2>1
  <2>5. x = [k \in 1 .. Len(l.args) |-> x[k]]
    BY <2>4 DEF ArgTypes
  <2> HIDE DEF x, l
  <2>6. /\ Len(l.args) = 1 => x = <<x[1]>>
        /\ Len(l.args) = 2 => x = <<x[1], x[2]>>
    BY <2>5, SequenceOf
  <2>7. 1 .. 1 = {1} /\ 1 .. 2 = {1, 2} /\ 1 .. 3 = {1, 2, 3}
    OBVIOUS
  <2>8. l.tag \in UnaryTags => x = <<x[1]>> /\ DOMAIN l.args = {1}
    BY <2>3, <2>4, <2>6, <2>7
  <2>9. l.tag \in BinaryTags => x = <<x[1], x[2]>> /\ DOMAIN l.args = {1, 2}
    BY <2>3, <2>4, <2>6, <2>7
  <2>10. l.tag \in TernaryTags => DOMAIN l.args = {1, 2, 3}
    BY <2>3, <2>4, <2>7
  <2> QED
    BY <2>8, <2>9, <2>10
<1> QED
  BY <1>2, <1>3, <1>4 DEF ResultType

\* So a line check_sorts_bfr accepts has operands of the types its operator asks
\* for, and the result its signature says where the whole signature is checked.
LEMMA AcceptedTypes ==
    ASSUME RefInv, Counted, NEW i \in DOMAIN lines, SortsOk(lines, lines[i])
    PROVE  LET l == lines[i]
           IN  /\ l.tag \in SortedTags => Signature(l) /\ Operands(l) /\ InitFits(l)
               /\ l.tag \in Properties \cup {"justice"} =>
                    \A k \in DOMAIN l.args : ArgTypes(l)[k] = B(1)
<1> DEFINE l == lines[i]
           a(k) == Arg(lines, l, k)
           x == ArgTypes(l)
           r == ResultType(l)
<1>1. Resolves(lines)
  BY DEF RefInv, TypeOK, ReferencesResolved, Resolves
<1>2. /\ \A k \in DOMAIN l.args :
           /\ a(k).sort.id \in SortLines(lines)
           /\ x[k] = TypeOf(lines, a(k).sort.id)
           /\ IsBitvec(a(k)) <=> ~IsArray(a(k))
           /\ IsBitvec(a(k)) => x[k] = B(Width(a(k)))
           /\ IsArray(a(k)) =>
                /\ a(k).sort.word \in SortLines(lines)
                /\ a(k).sort.element \in SortLines(lines)
                /\ x[k] = A(TypeOf(lines, a(k).sort.word),
                            TypeOf(lines, a(k).sort.element))
      /\ l.tag \in SortedTags =>
           /\ l.sort.id \in SortLines(lines)
           /\ r = TypeOf(lines, l.sort.id)
           /\ IsBitvec(l) <=> ~IsArray(l)
           /\ IsBitvec(l) => r = B(Width(l))
           /\ IsArray(l) =>
                /\ l.sort.element \in SortLines(lines)
                /\ r = A(TypeOf(lines, l.sort.word),
                         TypeOf(lines, l.sort.element))
      /\ l.tag \in UnaryTags => x = <<x[1]>> /\ DOMAIN l.args = {1}
      /\ l.tag \in BinaryTags => x = <<x[1], x[2]>> /\ DOMAIN l.args = {1, 2}
      /\ l.tag \in TernaryTags => DOMAIN l.args = {1, 2, 3}
  BY CheckedTypes
<1>3. \A m, n \in SortLines(lines) :
        SameSort(lines, m, n) <=> TypeOf(lines, m) = TypeOf(lines, n)
  BY <1>1, SameSortTypes
<1>4. SortsOk(lines, l)
  OBVIOUS
<1>5. /\ \A t \in Unary \cup Reductions \cup Extensions \cup {"slice"} :
           t \in UnaryTags /\ t \in SortedTags
      /\ \A t \in Binary \cup Predicates \cup Equalities \cup Connectives
                    \cup {"concat", "read", "next", "init"} :
           t \in BinaryTags /\ t \in SortedTags
      /\ \A t \in {"ite", "write"} : t \in TernaryTags /\ t \in SortedTags
  BY DEF UnaryTags, BinaryTags, TernaryTags, SortedTags, Links
<1> HIDE DEF l, x, r, a
<1>6. /\ l.tag \in Unary => r[1] = "bitvec" /\ x = <<r>>
      /\ l.tag \in Reductions => r = B(1) /\ x[1][1] = "bitvec"
      /\ l.tag \in Extensions => x[1][1] = "bitvec" /\ r = B(x[1][2] + l.imm[1])
      /\ l.tag = "slice" => x[1][1] = "bitvec"
  BY <1>2, <1>4, <1>5, TypeParts DEF SortsOk, AllBitvec, a
<1>7. /\ l.tag \in Binary => r[1] = "bitvec" /\ x = <<r, r>>
      /\ l.tag \in Connectives => r = B(1) /\ x = <<B(1), B(1)>>
  BY <1>2, <1>4, <1>5, TypeParts DEF SortsOk, AllBitvec, a
<1>8. /\ l.tag \in Predicates => r = B(1) /\ x[1] = x[2] /\ x[1][1] = "bitvec"
      /\ l.tag = "concat" => (\A k \in 1 .. 2 : x[k][1] = "bitvec") /\ r = B(x[1][2] + x[2][2])
  <2>1. 1 .. 2 = {1, 2}
    OBVIOUS
  <2> QED
    BY <1>2, <1>4, <1>5, <2>1, TypeParts DEF SortsOk, AllBitvec, a
<1>9. l.tag = "next" => x = <<r, r>>
  BY <1>2, <1>3, <1>4, <1>5 DEF SortsOk, SameSorts, a
<1>10. l.tag \in Equalities => x[1] = x[2]
  BY <1>2, <1>3, <1>4, <1>5 DEF SortsOk, SameSorts, a
<1>11. l.tag = "ite" => x[1] = B(1) /\ x[2] = x[3]
  BY <1>2, <1>3, <1>4, <1>5 DEF SortsOk, SameSorts, IsBool, a
<1>12. l.tag = "read" => x[1] = A(x[2], r)
  <2>1. l.tag = "read" => ReadSortsOk(lines, l)
    BY <1>4 DEF SortsOk
  <2> QED
    BY <1>2, <1>3, <1>5, <2>1 DEF ReadSortsOk, a
<1>13. l.tag = "write" => x[1] = A(x[2], x[3])
  <2>1. l.tag = "write" => WriteSortsOk(lines, l)
    BY <1>4 DEF SortsOk
  <2> QED
    BY <1>2, <1>3, <1>5, <2>1 DEF WriteSortsOk, a
<1>14. l.tag = "init" => /\ x[1] = r
                         /\ \/ x[2] = r
                            \/ r[1] = "array" /\ (x[2] = r[3] \/ x[2][1] = "array")
  <2>1. SUFFICES ASSUME l.tag = "init"
                 PROVE  /\ x[1] = r
                        /\ \/ x[2] = r
                           \/ r[1] = "array" /\ (x[2] = r[3] \/ x[2][1] = "array")
    OBVIOUS
  <2>2. InitSortsOk(lines, l)
    BY <1>4, <2>1 DEF SortsOk
  <2>3. x[1] = r /\ (~IsArray(l) => x[2] = r)
    BY <1>2, <1>3, <1>5, <2>1, <2>2 DEF InitSortsOk, SameSorts, a
  <2>4. IsArray(l) /\ IsBitvec(a(2)) => r[1] = "array" /\ x[2] = r[3]
    BY <1>2, <1>3, <1>5, <2>1, <2>2, TypeParts DEF InitSortsOk, a
  <2>5. IsArray(l) /\ ~IsBitvec(a(2)) => r[1] = "array" /\ x[2][1] = "array"
    BY <1>2, <1>5, <2>1, TypeParts
  <2> QED
    BY <2>3, <2>4, <2>5
<1>15. l.tag \in Properties \cup {"justice"} => \A k \in DOMAIN l.args : x[k] = B(1)
  BY <1>2, <1>4 DEF SortsOk, IsBool, a
<1>16. Signature(l)
  BY <1>6, <1>7, <1>8, <1>9, <1>12 DEF Signature, x, r
<1>17. Operands(l)
  BY <1>6, <1>10, <1>11, <1>13 DEF Operands, x
<1>18. InitFits(l)
  BY <1>14 DEF InitFits, x, r
<1> QED
  BY <1>15, <1>16, <1>17, <1>18 DEF l, x

\* Spec => []LinesWellSorted: check_sorts_bfr, although it compares widths and sort
\* ids and no types, accepts no line whose operator is not defined for its operands,
\* nor one with another result than its signature says, but for slice, the
\* equalities, ite and write.
THEOREM WellSortedLines == Spec => []LinesWellSorted
<1>1. RefInv /\ Counted /\ Checked => LinesWellSorted
  BY AcceptedTypes DEF Checked, LinesWellSorted, CheckedLines
<1> QED
  BY <1>1, ReferencesInvariant, CountedInvariant, CheckedInvariant, PTL

----------------------------------------------------------------------------
(* What catbtor prints.                                                    *)

\* A line below m links the state i.
StatedBelow(T, tag, i, m) == \E j \in LinksOf(T, tag, i) : j < m

\* The table when the line m was to be stored.
TableAt(T, m) ==
    [i \in {j \in DOMAIN T : j < m} |->
       [T[i] EXCEPT !.init = IF StatedBelow(T, "init", i, m) THEN T[i].init ELSE 0,
                    !.next = IF StatedBelow(T, "next", i, m) THEN T[i].next ELSE 0]]

\* What is printed of the line i is accepted where the line was, and becomes that line.
ReadsAgain(T, i) ==
    LET C == TableAt(T, i)
        s == Printed(T[i])
    IN  /\ BodyOk(C, s) /\ SortsOk(C, LineOf(C, s))
        /\ Extended(C, s) = TableAt(T, i + 1)

\* The table is a function, and each line of a table without an error can be read
\* again from what is printed of it.
Readable ==
    /\ lines = [i \in DOMAIN lines |-> lines[i]]
    /\ error = "none" => \A i \in DOMAIN lines : ReadsAgain(lines, i)

\* The lines of an earlier table differ in their links only.
LEMMA LineAt ==
    ASSUME NEW T, \A i \in DOMAIN T : T[i] \in Line, NEW m,
           NEW i \in DOMAIN T, i < m
    PROVE  /\ i \in DOMAIN TableAt(T, m)
           /\ TableAt(T, m)[i] \in Line
           /\ TableAt(T, m)[i].id = T[i].id
           /\ TableAt(T, m)[i].tag = T[i].tag
           /\ TableAt(T, m)[i].sort = T[i].sort
           /\ TableAt(T, m)[i].args = T[i].args
           /\ TableAt(T, m)[i].imm = T[i].imm
           /\ TableAt(T, m)[i].init = IF StatedBelow(T, "init", i, m) THEN T[i].init ELSE 0
           /\ TableAt(T, m)[i].next = IF StatedBelow(T, "next", i, m) THEN T[i].next ELSE 0
<1> DEFINE init == IF StatedBelow(T, "init", i, m) THEN T[i].init ELSE 0
           next == IF StatedBelow(T, "next", i, m) THEN T[i].next ELSE 0
<1>1. T[i] \in Line
  OBVIOUS
<1>2. i \in DOMAIN TableAt(T, m) /\ TableAt(T, m)[i] = [T[i] EXCEPT !.init = init, !.next = next]
  BY DEF TableAt
<1>3. init \in Int /\ next \in Int
  BY <1>1 DEF Line
<1> HIDE DEF init, next
<1>4. TableAt(T, m)[i].init = init /\ TableAt(T, m)[i].next = next
  BY <1>1, <1>2 DEF Line
<1>5. /\ TableAt(T, m)[i] \in Line
      /\ TableAt(T, m)[i].id = T[i].id
      /\ TableAt(T, m)[i].tag = T[i].tag
      /\ TableAt(T, m)[i].sort = T[i].sort
      /\ TableAt(T, m)[i].args = T[i].args
      /\ TableAt(T, m)[i].imm = T[i].imm
  BY <1>1, <1>2, <1>3 DEF Line
<1> QED
  BY <1>2, <1>4, <1>5 DEF init, next, Line

\* Tables with lines that are the same but for links are the same if the links are.
LEMMA SameLines ==
    ASSUME NEW T, NEW E, T = [i \in DOMAIN T |-> T[i]], E = [i \in DOMAIN E |-> E[i]],
           DOMAIN T = DOMAIN E,
           \A i \in DOMAIN T :
              /\ T[i] \in Line /\ E[i] \in Line
              /\ T[i].id = E[i].id /\ T[i].tag = E[i].tag /\ T[i].sort = E[i].sort
              /\ T[i].args = E[i].args /\ T[i].imm = E[i].imm
              /\ T[i].init = E[i].init /\ T[i].next = E[i].next
    PROVE  T = E
<1> DEFINE whole(r) == [id |-> r.id, tag |-> r.tag, sort |-> r.sort, args |-> r.args,
                        imm |-> r.imm, init |-> r.init, next |-> r.next]
<1>1. ASSUME NEW i \in DOMAIN T PROVE T[i] = E[i]
  <2>1. \A r \in Line : r = whole(r)
    BY DEF Line
  <2>2. T[i] = whole(T[i]) /\ E[i] = whole(E[i])
    BY <2>1
  <2>3. whole(T[i]) = whole(E[i])
    OBVIOUS
  <2> QED
    BY <2>2, <2>3
<1> QED
  BY <1>1

\* At the end of a table in which links are stated nothing is missing.
LEMMA TableAtEnd ==
    ASSUME NEW T, T = [i \in DOMAIN T |-> T[i]], NEW m,
           \A i \in DOMAIN T : T[i] \in Line /\ i < m,
           \A i \in DOMAIN T : /\ Linked(T, "init", i, T[i].init)
                               /\ Linked(T, "next", i, T[i].next)
    PROVE  TableAt(T, m) = T
<1> DEFINE C == TableAt(T, m)
<1>1. DOMAIN C = DOMAIN T /\ C = [i \in DOMAIN C |-> C[i]]
  BY DEF TableAt
<1>2. ASSUME NEW i \in DOMAIN T
      PROVE  /\ ~StatedBelow(T, "init", i, m) => T[i].init = 0
             /\ ~StatedBelow(T, "next", i, m) => T[i].next = 0
  <2>1. \A tag : \A j \in LinksOf(T, tag, i) : j < m
    BY DEF LinksOf
  <2> QED
    BY <2>1 DEF Linked, StatedBelow
<1>3. ASSUME NEW i \in DOMAIN T
      PROVE  /\ C[i] \in Line
             /\ C[i].id = T[i].id /\ C[i].tag = T[i].tag /\ C[i].sort = T[i].sort
             /\ C[i].args = T[i].args /\ C[i].imm = T[i].imm
             /\ C[i].init = T[i].init /\ C[i].next = T[i].next
  <2>1. /\ C[i] \in Line
        /\ C[i].id = T[i].id /\ C[i].tag = T[i].tag /\ C[i].sort = T[i].sort
        /\ C[i].args = T[i].args /\ C[i].imm = T[i].imm
        /\ C[i].init = IF StatedBelow(T, "init", i, m) THEN T[i].init ELSE 0
        /\ C[i].next = IF StatedBelow(T, "next", i, m) THEN T[i].next ELSE 0
    <3>1. (\A j \in DOMAIN T : T[j] \in Line) /\ i < m
      OBVIOUS
    <3> QED
      BY <3>1, LineAt
  <2> HIDE DEF C
  <2> QED
    BY <1>2, <2>1
<1> HIDE DEF C
<1>4. C = T
  BY <1>1, <1>3, SameLines
<1> QED
  BY <1>4 DEF C

\* What is printed of a line reads as its statement did.
LEMMA PrintedReads ==
    ASSUME NEW T, NEW s, LinkContext(T, s), NEW l \in Line, l.id = s.id, l.tag = s.tag,
           l.sort = SortOf(T, s), l.args = s.args, l.imm = LineOf(T, s).imm
    PROVE  /\ BodyOk(T, Printed(l))
           /\ LineOf(T, Printed(l)) = LineOf(T, s)
           /\ Extended(T, Printed(l)) = Extended(T, s)
<1> DEFINE p == Printed(l)
<1>1. /\ p.id = s.id /\ p.tag = s.tag /\ p.args = s.args /\ p.lex = "ok"
      /\ p.kind = l.sort.tag
      /\ p.sid = IF s.tag = "sort" THEN 0 ELSE l.sort.id
      /\ p.imm = IF s.tag = "sort" THEN SortNumbers(l) ELSE l.imm
  BY DEF Printed
<1> HIDE DEF p
<1>2. s.tag # "sort" => p.imm = s.imm
  BY <1>1 DEF LineOf
<1>3. \A j \in DOMAIN T : T[j].tag = "sort" => T[j].sort.id = j
  BY DEF LinkContext, Resolved
<1>4. s.tag \in SortedTags => p.sid = s.sid /\ s.tag # "sort"
  <2> HAVE s.tag \in SortedTags
  <2>1. SortIdOk(T, s.sid)
    BY DEF LinkContext, BodyOk
  <2>2. l.sort = T[s.sid].sort /\ s.tag # "sort"
    BY SortTag DEF SortOf
  <2> QED
    BY <1>1, <1>3, <2>1, <2>2 DEF SortIdOk
<1>5. s.tag = "sort" => /\ p.kind = s.kind /\ p.imm = s.imm /\ SortBodyOk(T, s)
                        /\ SortOf(T, p) = SortOf(T, s)
  <2> HAVE s.tag = "sort"
  <2>1. SortBodyOk(T, s) /\ s.kind \in {"array", "bitvec"} /\ s.imm \in Seq(Int)
    BY DEF LinkContext, BodyOk, StatementType
  <2>2. CASE s.kind = "bitvec"
    <3>1. l.sort = [id |-> s.id, tag |-> "bitvec", word |-> s.imm[1], element |-> 0]
      BY <2>2, SortTag DEF SortOf
    <3>2. p.imm = <<s.imm[1]>> /\ p.kind = "bitvec"
      BY <1>1, <3>1 DEF SortNumbers, IsBitvec, Width
    <3>3. s.imm = <<s.imm[1]>>
      BY <2>1, <2>2 DEF SortBodyOk
    <3>4. SortOf(T, p) = [id |-> p.id, tag |-> "bitvec", word |-> p.imm[1], element |-> 0]
      BY <1>1, <3>2, SortTag DEF SortOf
    <3> QED
      BY <1>1, <2>1, <2>2, <3>1, <3>2, <3>3, <3>4
  <2>3. CASE s.kind = "array"
    <3>1. l.sort = [id |-> s.id, tag |-> "array",
                    word |-> T[s.imm[1]].sort.id, element |-> T[s.imm[2]].sort.id]
      BY <2>3, SortTag DEF SortOf
    <3>2. SortIdOk(T, s.imm[1]) /\ SortIdOk(T, s.imm[2]) /\ Len(s.imm) = 2
      BY <2>1, <2>3 DEF SortBodyOk
    <3>3. T[s.imm[1]].sort.id = s.imm[1] /\ T[s.imm[2]].sort.id = s.imm[2]
      BY <1>3, <3>2 DEF SortIdOk
    <3>4. p.imm = <<s.imm[1], s.imm[2]>> /\ p.kind = "array"
      BY <1>1, <3>1, <3>3 DEF SortNumbers, IsBitvec
    <3>5. s.imm = <<s.imm[1], s.imm[2]>>
      BY <2>1, <3>2
    <3>6. SortOf(T, p) = [id |-> p.id, tag |-> "array",
                          word |-> T[p.imm[1]].sort.id, element |-> T[p.imm[2]].sort.id]
      BY <1>1, <3>4, SortTag DEF SortOf
    <3> QED
      BY <1>1, <2>1, <2>3, <3>1, <3>4, <3>5, <3>6
  <2> QED
    BY <2>1, <2>2, <2>3
<1>6. p.imm = s.imm
  BY <1>2, <1>5
<1>7. SortOf(T, p) = SortOf(T, s)
  <2>1. CASE s.tag \in SortedTags
    BY <1>1, <1>4, <2>1 DEF SortOf
  <2>2. CASE s.tag \notin SortedTags /\ s.tag # "sort"
    BY <1>1, <2>2 DEF SortOf
  <2> QED
    BY <1>5, <2>1, <2>2
<1>8. LineOf(T, p) = LineOf(T, s)
  BY <1>1, <1>6, <1>7 DEF LineOf
<1>9. Extended(T, p) = Extended(T, s)
  BY <1>1, <1>8 DEF Extended
<1>10. BodyOk(T, p)
  <2>1. BodyOk(T, s)
    BY DEF LinkContext
  <2>2. s.tag = "sort" => SortBodyOk(T, p)
    BY <1>5 DEF SortBodyOk
  <2>3. s.tag \in SortedTags => SortIdOk(T, p.sid)
    BY <1>4, <2>1 DEF BodyOk
  <2>4. s.tag \in Constants => ConstantBodyOk(T, p)
    <3>1. s.tag \in Constants => p.sid = s.sid
      BY <1>4 DEF SortedTags
    <3>2. \A w : ConstantFits(s, w) => ConstantFits(p, w)
      BY <1>1, <1>6 DEF ConstantFits
    <3> QED
      BY <2>1, <3>1, <3>2 DEF BodyOk, ConstantBodyOk
  <2>5. /\ s.tag = "init" => InitBodyOk(T, p)
        /\ s.tag = "next" => NextBodyOk(T, p)
    BY <1>1, <2>1 DEF BodyOk, InitBodyOk, NextBodyOk
  <2>6. IndexesOk(p)
    BY <1>1, <1>6, <2>1 DEF BodyOk, IndexesOk
  <2> QED
    BY <1>1, <2>1, <2>2, <2>3, <2>4, <2>5, <2>6 DEF BodyOk
<1> QED
  BY <1>8, <1>9, <1>10 DEF p

\* What the lines of a longer table are.
LEMMA ExtendedLine ==
    ASSUME NEW T, NEW s, LinkContext(T, s), NEW i \in DOMAIN Extended(T, s)
    PROVE  /\ Extended(T, s)[i] \in Line
           /\ i \in DOMAIN T => /\ T[i].id = Extended(T, s)[i].id
                               /\ T[i].tag = Extended(T, s)[i].tag
                               /\ T[i].sort = Extended(T, s)[i].sort
                               /\ T[i].args = Extended(T, s)[i].args
                               /\ T[i].imm = Extended(T, s)[i].imm
<1>1. Extended(T, s)[i] \in Line
  BY ExtendedType DEF LinkContext
<1>2. ASSUME i \in DOMAIN T
      PROVE  /\ T[i].id = Extended(T, s)[i].id
             /\ T[i].tag = Extended(T, s)[i].tag
             /\ T[i].sort = Extended(T, s)[i].sort
             /\ T[i].args = Extended(T, s)[i].args
             /\ T[i].imm = Extended(T, s)[i].imm
  <2>1. T[i] \in Line /\ i # s.id
    BY <1>2 DEF LinkContext, StatementType
  <2> QED
    BY <1>2, <2>1 DEF Extended, Line
<1> QED
  BY <1>1, <1>2

\* Storing a line changes no earlier table.
LEMMA EarlierTables ==
    ASSUME NEW T, NEW s, LinkContext(T, s),
           \A i \in DOMAIN T : /\ Linked(T, "init", i, T[i].init)
                               /\ Linked(T, "next", i, T[i].next),
           NEW m \in Nat, m <= s.id
    PROVE  TableAt(Extended(T, s), m) = TableAt(T, m)
<1> DEFINE E == Extended(T, s)
           C == TableAt(T, m)
           D == TableAt(E, m)
<1>2. s.id \in Nat /\ DOMAIN E = DOMAIN T \cup {s.id} /\ \A j \in DOMAIN T : j \in Nat
  <2>1. s.id \in Nat /\ \A j \in DOMAIN T : j \in Nat
    BY DEF LinkContext, StatementType
  <2>2. DOMAIN E = DOMAIN T \cup {s.id}
    BY DEF Extended
  <2> QED
    BY <2>1, <2>2
<1>3. /\ \A i \in DOMAIN T : T[i] \in Line
      /\ \A i \in DOMAIN T : Linked(T, "init", i, T[i].init) /\ Linked(T, "next", i, T[i].next)
  BY DEF LinkContext
<1>4. ASSUME NEW i \in DOMAIN T
      PROVE  /\ E[i] \in Line
             /\ T[i].id = E[i].id /\ T[i].tag = E[i].tag /\ T[i].sort = E[i].sort
             /\ T[i].args = E[i].args /\ T[i].imm = E[i].imm
  BY <1>2, ExtendedLine
<1>5. ASSUME NEW i \in DOMAIN T, NEW tag \in Links
      PROVE  StatedBelow(E, tag, i, m) <=> StatedBelow(T, tag, i, m)
  <2>1. \A j \in DOMAIN E : j < m => j \in DOMAIN T /\ E[j].tag = T[j].tag /\ E[j].args = T[j].args
    BY <1>2, <1>4
  <2>2. \A j \in DOMAIN T : j \in DOMAIN E /\ E[j].tag = T[j].tag /\ E[j].args = T[j].args
    BY <1>2, <1>4
  <2> HIDE DEF E
  <2> QED
    BY <2>1, <2>2 DEF StatedBelow, LinksOf
<1>6. ASSUME NEW i \in DOMAIN T
      PROVE  /\ StatedBelow(T, "init", i, m) => E[i].init = T[i].init
             /\ StatedBelow(T, "next", i, m) => E[i].next = T[i].next
  <2>1. s.tag = "init" /\ i = s.args[1] => LinksOf(T, "init", i) = {}
    BY <1>3, Unlinked DEF LinkContext, BodyOk, InitBodyOk, Links
  <2>2. s.tag = "next" /\ i = s.args[1] => LinksOf(T, "next", i) = {}
    BY <1>3, Unlinked DEF LinkContext, BodyOk, NextBodyOk, Links
  <2>3. /\ E[i].init = IF s.tag = "init" /\ i = s.args[1] THEN s.args[2] ELSE T[i].init
        /\ E[i].next = IF s.tag = "next" /\ i = s.args[1] THEN s.args[2] ELSE T[i].next
    BY ExtendedLinks
  <2> HIDE DEF E
  <2> QED
    BY <2>1, <2>2, <2>3 DEF StatedBelow
<1>7. /\ DOMAIN C = DOMAIN D /\ C = [i \in DOMAIN C |-> C[i]] /\ D = [i \in DOMAIN D |-> D[i]]
      /\ \A i \in DOMAIN C : i \in DOMAIN T /\ i \in DOMAIN E /\ i < m
  <2>1. {j \in DOMAIN T : j < m} = {j \in DOMAIN E : j < m}
    BY <1>2
  <2> QED
    BY <2>1, <1>2 DEF TableAt
<1>8. ASSUME NEW i \in DOMAIN C
      PROVE  /\ C[i] \in Line /\ D[i] \in Line
             /\ C[i].id = D[i].id /\ C[i].tag = D[i].tag /\ C[i].sort = D[i].sort
             /\ C[i].args = D[i].args /\ C[i].imm = D[i].imm
             /\ C[i].init = D[i].init /\ C[i].next = D[i].next
  <2>1. i \in DOMAIN T /\ i \in DOMAIN E /\ i < m
    BY <1>7
  <2>2. /\ C[i] \in Line
        /\ C[i].id = T[i].id /\ C[i].tag = T[i].tag /\ C[i].sort = T[i].sort
        /\ C[i].args = T[i].args /\ C[i].imm = T[i].imm
        /\ C[i].init = IF StatedBelow(T, "init", i, m) THEN T[i].init ELSE 0
        /\ C[i].next = IF StatedBelow(T, "next", i, m) THEN T[i].next ELSE 0
    BY <1>3, <2>1, LineAt
  <2>3. \A j \in DOMAIN E : E[j] \in Line
    BY ExtendedLine
  <2>4. /\ D[i] \in Line
        /\ D[i].id = E[i].id /\ D[i].tag = E[i].tag /\ D[i].sort = E[i].sort
        /\ D[i].args = E[i].args /\ D[i].imm = E[i].imm
        /\ D[i].init = IF StatedBelow(E, "init", i, m) THEN E[i].init ELSE 0
        /\ D[i].next = IF StatedBelow(E, "next", i, m) THEN E[i].next ELSE 0
    BY <2>1, <2>3, LineAt
  <2> HIDE DEF C, D, E
  <2> QED
    BY <1>4, <1>5, <1>6, <2>1, <2>2, <2>4 DEF Links
<1> HIDE DEF C, D
<1>9. C = D
  <2>1. \A i \in DOMAIN C :
             /\ C[i] \in Line /\ D[i] \in Line
             /\ C[i].id = D[i].id /\ C[i].tag = D[i].tag /\ C[i].sort = D[i].sort
             /\ C[i].args = D[i].args /\ C[i].imm = D[i].imm
             /\ C[i].init = D[i].init /\ C[i].next = D[i].next
    BY <1>8
  <2> QED
    BY <1>7, <2>1, SameLines
<1> QED
  BY <1>9 DEF C, D, E

\* Storing a line that is then accepted makes a table of which each line can be read
\* again.
LEMMA StoreReadable ==
    ASSUME RefInv, RefInv', LinksBinary, StateLinks, StateLinks', NEW s \in Statement, Store(s),
           SortsOk(lines, LineOf(lines, s)), Readable, error = "none"
    PROVE  \A i \in DOMAIN lines' : ReadsAgain(lines', i)
<1> DEFINE T == lines
           E == Extended(T, s)
<1>1. LinkContext(T, s) /\ lines' = E /\ s.id \notin DOMAIN T
  BY StoreContext
<1>2. /\ s.id \in Nat /\ \A j \in DOMAIN T : j \in Nat /\ j + 1 \in Nat /\ j + 1 <= s.id
      /\ DOMAIN E = DOMAIN T \cup {s.id}
  <2>1. s.id \in Nat /\ \A j \in DOMAIN T : j \in Nat /\ j < s.id
    BY <1>1 DEF LinkContext, StatementType
  <2>2. \A j \in DOMAIN T : j + 1 \in Nat /\ j + 1 <= s.id
    BY <2>1
  <2>3. DOMAIN E = DOMAIN T \cup {s.id}
    BY DEF Extended
  <2> QED
    BY <2>1, <2>2, <2>3
<1>3. /\ T = [i \in DOMAIN T |-> T[i]] /\ E = [i \in DOMAIN E |-> E[i]]
      /\ \A i \in DOMAIN T : ReadsAgain(T, i)
  BY DEF Readable, Extended
<1>4. \A i \in DOMAIN T : /\ Linked(T, "init", i, T[i].init)
                          /\ Linked(T, "next", i, T[i].next)
  BY DEF StateLinks
<1>5. \A i \in DOMAIN E : /\ Linked(E, "init", i, E[i].init)
                          /\ Linked(E, "next", i, E[i].next)
  <2>1. StateLinks'
    OBVIOUS
  <2>2. \A i \in DOMAIN lines' : /\ Linked(lines', "init", i, lines'[i].init)
                                 /\ Linked(lines', "next", i, lines'[i].next)
    BY <2>1 DEF StateLinks
  <2> HIDE DEF E
  <2> QED
    BY <1>1, <2>2
<1>6. \A m \in Nat : m <= s.id => TableAt(E, m) = TableAt(T, m)
  BY <1>1, <1>4, EarlierTables
<1>7. TableAt(T, s.id) = T
  <2>1. \A i \in DOMAIN T : T[i] \in Line /\ i < s.id
    BY <1>1 DEF LinkContext
  <2> QED
    BY <1>3, <1>4, <2>1, TableAtEnd
<1>8. TableAt(E, s.id + 1) = E
  <2>1. \A i \in DOMAIN E : E[i] \in Line
    BY <1>1, ExtendedLine
  <2>2. \A i \in DOMAIN E : i < s.id + 1
    <3>1. \A j \in DOMAIN T : j \in Nat /\ j + 1 <= s.id
      BY <1>2
    <3> QED
      BY <1>2, <3>1
  <2> HIDE DEF E
  <2> QED
    BY <1>3, <1>5, <2>1, <2>2, TableAtEnd
<1>9. ASSUME NEW i \in DOMAIN T PROVE ReadsAgain(E, i)
  <2>1. TableAt(E, i) = TableAt(T, i) /\ TableAt(E, i + 1) = TableAt(T, i + 1)
    <3>1. i \in Nat /\ i + 1 \in Nat /\ i + 1 <= s.id /\ i <= s.id
      BY <1>2
    <3> QED
      BY <1>6, <3>1
  <2>2. Printed(E[i]) = Printed(T[i])
    <3>1. i \in DOMAIN E
      BY <1>2
    <3>2. /\ T[i].id = E[i].id /\ T[i].tag = E[i].tag /\ T[i].sort = E[i].sort
          /\ T[i].args = E[i].args /\ T[i].imm = E[i].imm
      BY <1>1, <3>1, ExtendedLine
    <3> HIDE DEF E, T
    <3> QED
      BY <3>2 DEF Printed, SortNumbers, IsBitvec, Width
  <2>3. ReadsAgain(T, i)
    BY <1>3
  <2> HIDE DEF E, T
  <2> QED
    BY <2>1, <2>2, <2>3 DEF ReadsAgain
<1>10. ReadsAgain(E, s.id)
  <2> DEFINE l == E[s.id]
             p == Printed(l)
  <2>1. /\ l \in Line /\ l.id = s.id /\ l.tag = s.tag /\ l.sort = SortOf(T, s)
        /\ l.args = s.args /\ l.imm = LineOf(T, s).imm
    <3>1. E[s.id] = LineOf(T, s)
      BY <1>1 DEF Extended
    <3>2. E[s.id] \in Line
      BY <1>1, <1>2, ExtendedLine
    <3> QED
      BY <3>1, <3>2 DEF LineOf
  <2>2. BodyOk(T, p) /\ LineOf(T, p) = LineOf(T, s) /\ Extended(T, p) = E
    <3> HIDE DEF l
    <3> QED
      BY <1>1, <2>1, PrintedReads
  <2>3. TableAt(E, s.id) = T
    BY <1>2, <1>6, <1>7
  <2>4. SortsOk(T, LineOf(T, p))
    BY <2>2
  <2> HIDE DEF E, T
  <2>5. ReadsAgain(E, s.id) <=> /\ BodyOk(T, p) /\ SortsOk(T, LineOf(T, p))
                                /\ Extended(T, p) = TableAt(E, s.id + 1)
    BY <2>3 DEF ReadsAgain
  <2> QED
    BY <1>8, <2>2, <2>4, <2>5
<1> HIDE DEF E, T
<1> QED
  BY <1>1, <1>2, <1>9, <1>10

\* Spec => []Readable: reading goes on as it went for any line of the table, if the
\* statement is what is printed of the line.
THEOREM ReadableInvariant == Spec => []Readable
<1>1. Init => Readable
  BY DEF Init, NoLines, Readable
<1>2. RefInv /\ RefInv' /\ LinksBinary /\ StateLinks /\ StateLinks' /\ Phases /\ Readable
        /\ [Next]_vars => Readable'
  <2> SUFFICES ASSUME RefInv, RefInv', LinksBinary, StateLinks, StateLinks', Phases,
                      Readable, [Next]_vars
               PROVE  Readable'
    OBVIOUS
  <2>1. CASE UNCHANGED <<lines, error>>
    BY <2>1 DEF Readable
  <2>2. CASE lines' = NoLines
    <3>1. DOMAIN lines' = {} /\ lines' = [i \in DOMAIN lines' |-> lines'[i]]
      BY <2>2 DEF NoLines
    <3> QED
      BY <3>1 DEF Readable
  <2>3. CASE lines' = lines /\ error' # "none"
    BY <2>3 DEF Readable
  <2>4. ASSUME NEW s \in Statement, Store(s),
               SortsOk(lines, LineOf(lines, s)) \/ error' # "none"
        PROVE  Readable'
    <3>1. reading /\ error = "none" /\ lines' = Extended(lines, s)
      BY <2>4 DEF Store, Phases
    <3>2. lines' = [i \in DOMAIN lines' |-> lines'[i]]
      BY <3>1 DEF Extended
    <3>3. SortsOk(lines, LineOf(lines, s)) => \A i \in DOMAIN lines' : ReadsAgain(lines', i)
      BY <2>4, <3>1, StoreReadable
    <3> QED
      BY <2>4, <3>2, <3>3 DEF Readable
  <2>5. ASSUME NEW s \in Statement, ReadLine(s) PROVE Readable'
    <3>1. CASE RejectHead(s) \/ RejectBody(s)
      BY <2>3, <3>1 DEF RejectHead, RejectBody, Fail
    <3>2. CASE AcceptLine(s)
      BY <2>4, <3>2 DEF AcceptLine
    <3>3. CASE RejectSorts(s) \/ RejectTail(s)
      BY <2>4, <3>3 DEF RejectSorts, RejectTail, Fail
    <3> QED
      BY <2>5, <3>1, <3>2, <3>3 DEF ReadLine
  <2> QED
    BY <2>1, <2>2, <2>5 DEF Next, ReadLines, EndOfFile, IterInit, IterNext, vars
<1>3. Spec => []RefInv /\ [](StateLinks /\ LinksBinary) /\ []Phases
  BY ReferencesInvariant, LinksInvariant, PhasesInvariant, PTL
<1> QED
  BY <1>1, <1>2, <1>3, PTL DEF Spec

\* One line read again.
RereadLine(T, s) ==
    IF (\A j \in DOMAIN T : j < s.id) /\ BodyOk(T, s) /\ SortsOk(T, LineOf(T, s))
    THEN Extended(T, s) ELSE T

\* The greatest of the first m numbers in a set that has m.
LEMMA GreatestIs ==
    ASSUME NEW m \in Nat, NEW S \in SUBSET (1 .. m), m \in S PROVE Max(S) = m
<1>1. \A x \in S : x \in Int /\ m >= x
  OBVIOUS
<1>2. \A x \in S : (\A y \in S : x >= y) => x = m
  BY <1>1
<1> QED
  BY <1>1, <1>2 DEF Max

\* The recursion of the fold has a solution on the subsets of the first m lines.
FoldsUpTo(file, m, h) ==
    h = [S \in SUBSET (1 .. m) |->
           IF S = {} THEN NoLines
           ELSE RereadLine(h[S \ {Max(S)}], file[Max(S)])]

LEMMA FoldExists ==
    ASSUME NEW file, NEW n \in Nat PROVE \E h : FoldsUpTo(file, n, h)
<1> DEFINE failing == {m \in Nat : ~\E h : FoldsUpTo(file, m, h)}
<1>1. ASSUME NEW m \in failing, \A j \in failing : m <= j PROVE FALSE
  <2>1. CASE m = 0
    <3> DEFINE h == [S \in SUBSET (1 .. 0) |-> NoLines]
    <3>1. \A S \in SUBSET (1 .. 0) : S = {}
      OBVIOUS
    <3>2. FoldsUpTo(file, 0, h)
      BY <3>1 DEF FoldsUpTo
    <3> QED
      BY <1>1, <2>1, <3>2
  <2>2. CASE m # 0
    <3>1. m \in Nat /\ m - 1 \in Nat /\ m - 1 \notin failing
      BY <1>1, <2>2
    <3>2. PICK g : FoldsUpTo(file, m - 1, g)
      BY <3>1
    <3> DEFINE h == [S \in SUBSET (1 .. m) |->
                       IF m \in S THEN RereadLine(g[S \ {m}], file[m]) ELSE g[S]]
    <3>3. ASSUME NEW S \in SUBSET (1 .. m)
          PROVE  h[S] = IF S = {} THEN NoLines
                        ELSE RereadLine(h[S \ {Max(S)}], file[Max(S)])
      <4>1. CASE m \in S
        <5>1. Max(S) = m /\ S # {} /\ S \ {m} \in SUBSET (1 .. m) /\ m \notin S \ {m}
          BY <3>1, <4>1, GreatestIs
        <5>2. h[S] = RereadLine(g[S \ {m}], file[m]) /\ h[S \ {m}] = g[S \ {m}]
          BY <4>1, <5>1
        <5> HIDE DEF h
        <5> QED
          BY <5>1, <5>2
      <4>2. CASE m \notin S
        <5>1. S \in SUBSET (1 .. m - 1)
          <6>1. \A x \in S : x \in 1 .. m - 1
            BY <3>1, <4>2
          <6> QED
            BY <6>1
        <5>2. g[S] = IF S = {} THEN NoLines ELSE RereadLine(g[S \ {Max(S)}], file[Max(S)])
          BY <3>2, <5>1 DEF FoldsUpTo
        <5>3. h[S] = g[S]
          BY <4>2
        <5>4. h[S \ {Max(S)}] = g[S \ {Max(S)}]
          BY <4>2
        <5> HIDE DEF h
        <5> QED
          BY <5>2, <5>3, <5>4
      <4> QED
        BY <4>1, <4>2
    <3>4. DOMAIN h = SUBSET (1 .. m) /\ h = [S \in SUBSET (1 .. m) |-> h[S]]
      OBVIOUS
    <3> HIDE DEF h
    <3>5. FoldsUpTo(file, m, h)
      BY <3>3, <3>4, Zenon DEF FoldsUpTo
    <3> QED
      BY <1>1, <3>5
  <2> QED
    BY <2>1, <2>2
<1>2. failing = {}
  <2>1. failing \in SUBSET Nat
    OBVIOUS
  <2> HIDE DEF failing
  <2> QED
    BY <1>1, <2>1, LeastNumber
<1> QED
  BY <1>2

\* Reading a file again is reading its lines one after the other.
LEMMA RereadSteps ==
    ASSUME NEW file, NEW n \in Nat, DOMAIN file = 1 .. n,
           NEW f, f[0] = NoLines,
           \A m \in 1 .. n : f[m] = RereadLine(f[m - 1], file[m])
    PROVE  Reread(file) = f[n]
<1> DEFINE h == CHOOSE h : FoldsUpTo(file, n, h)
<1>1. FoldsUpTo(file, n, h)
  BY FoldExists
<1>2. Reread(file) = h[1 .. n]
  BY DEF Reread, FoldLeft, MapThenFoldSet, FoldsUpTo, RereadLine
<1>3. \A S \in SUBSET (1 .. n) :
        h[S] = IF S = {} THEN NoLines ELSE RereadLine(h[S \ {Max(S)}], file[Max(S)])
  BY <1>1 DEF FoldsUpTo
<1> HIDE DEF h
<1> DEFINE wrong == {m \in 0 .. n : h[1 .. m] # f[m]}
<1>4. ASSUME NEW m \in wrong, \A j \in wrong : m <= j PROVE FALSE
  <2>1. CASE m = 0
    <3>1. 1 .. m = {} /\ 1 .. m \in SUBSET (1 .. n)
      BY <2>1
    <3>2. h[1 .. m] = NoLines
      BY <1>3, <3>1
    <3> QED
      BY <1>4, <2>1, <3>2
  <2>2. CASE m # 0
    <3>1. m \in 1 .. n /\ m - 1 \in 0 .. n /\ m - 1 \notin wrong
      BY <1>4, <2>2
    <3>2. /\ 1 .. m \in SUBSET (1 .. m) /\ m \in 1 .. m /\ m \in Nat
          /\ \A x \in 1 .. m : x \in 1 .. n
      BY <3>1
    <3>6. (1 .. m) \ {m} = 1 .. m - 1
      BY <3>1
    <3>3. Max(1 .. m) = m
      BY <3>1, <3>2, GreatestIs
    <3>4. h[1 .. m] = RereadLine(h[1 .. m - 1], file[m])
      <4>1. 1 .. m \in SUBSET (1 .. n) /\ 1 .. m # {}
        BY <3>2
      <4> QED
        BY <1>3, <4>1, <3>3, <3>6
    <3>5. h[1 .. m - 1] = f[m - 1]
      BY <3>1
    <3> QED
      BY <1>4, <3>1, <3>4, <3>5
  <2> QED
    BY <2>1, <2>2
<1>5. wrong = {}
  <2>1. wrong \in SUBSET Nat
    OBVIOUS
  <2> HIDE DEF wrong
  <2> QED
    BY <1>4, <2>1, LeastNumber
<1> QED
  BY <1>2, <1>5

\* Between two lines next to each other the table stays what it is.
LEMMA NothingBetween ==
    ASSUME NEW T, NEW m, NEW n, \A j \in DOMAIN T : j < m <=> j < n
    PROVE  TableAt(T, m) = TableAt(T, n)
<1>1. {j \in DOMAIN T : j < m} = {j \in DOMAIN T : j < n}
  OBVIOUS
<1>2. \A tag, i : StatedBelow(T, tag, i, m) <=> StatedBelow(T, tag, i, n)
  BY DEF StatedBelow, LinksOf
<1> QED
  BY <1>1, <1>2 DEF TableAt

\* Spec => []OutputReadsBack: after any history of files read, with and without
\* errors, and of iterations over them.
THEOREM OutputReads == Spec => []OutputReadsBack
<1>1. RefInv /\ StateLinks /\ Readable /\ IterationExact => OutputReadsBack
  <2> SUFFICES ASSUME RefInv, StateLinks, Readable, IterationExact, it = 0, seen # <<>>
               PROVE  Reread(Output) = lines
    BY DEF OutputReadsBack
  <2> DEFINE n == Len(seen)
             f == [m \in 0 .. n |-> IF m = 0 THEN NoLines ELSE TableAt(lines, seen[m] + 1)]
  <2>1. /\ n \in Nat /\ n # 0 /\ DOMAIN seen = 1 .. n /\ \A m \in 1 .. n : seen[m] \in Nat
        /\ \A i \in DOMAIN lines : i \in Nat /\ lines[i] \in Line /\ lines[i].id = i
    BY DEF RefInv, TypeOK, ReferencesResolved, Resolved
  <2>2. /\ error = "none"
        /\ \A k, m \in 1 .. n : k < m => seen[k] < seen[m]
        /\ {seen[m] : m \in 1 .. n} = DOMAIN lines
    BY <2>1 DEF IterationExact
  <2>3. DOMAIN Output = 1 .. n /\ \A m \in 1 .. n : Output[m] = Printed(lines[seen[m]])
    BY <2>1 DEF Output
  <2>4. ASSUME NEW m \in 1 .. n
        PROVE  /\ seen[m] \in DOMAIN lines
               /\ f[m - 1] = TableAt(lines, seen[m])
               /\ f[m] = TableAt(lines, seen[m] + 1)
    <3>1. seen[m] \in DOMAIN lines
      BY <2>2
    <3>2. CASE m = 1
      <4>1. \A j \in DOMAIN lines : ~(j < seen[1])
        <5> TAKE j \in DOMAIN lines
        <5>1. PICK k \in 1 .. n : seen[k] = j
          BY <2>2
        <5>2. CASE k = 1
          BY <2>1, <5>1, <5>2
        <5>3. CASE k # 1
          BY <2>1, <2>2, <3>2, <5>1, <5>3
        <5> QED
          BY <5>2, <5>3
      <4>2. {j \in DOMAIN lines : j < seen[1]} = {}
        BY <4>1
      <4>3. TableAt(lines, seen[1]) = NoLines
        BY <4>2 DEF TableAt, NoLines
      <4> QED
        BY <2>1, <3>1, <3>2, <4>3
    <3>3. CASE m # 1
      <4>1. m - 1 \in 1 .. n /\ m - 1 # 0 /\ m - 1 < m
        BY <2>1, <3>3
      <4>2. \A j \in DOMAIN lines : j < seen[m] <=> j < seen[m - 1] + 1
        <5> TAKE j \in DOMAIN lines
        <5>1. PICK k \in 1 .. n : seen[k] = j
          BY <2>2
        <5>2. CASE k < m
          <6>1. k = m - 1 \/ k < m - 1
            BY <2>1, <5>2
          <6>2. seen[k] <= seen[m - 1] /\ seen[k] < seen[m]
            BY <2>1, <2>2, <4>1, <5>2, <6>1
          <6> QED
            BY <2>1, <4>1, <5>1, <6>2
        <5>3. CASE ~(k < m)
          <6>1. k = m \/ m < k
            BY <2>1, <5>3
          <6>2. seen[m] <= seen[k] /\ seen[m - 1] < seen[m]
            BY <2>1, <2>2, <4>1, <6>1
          <6> QED
            BY <2>1, <4>1, <5>1, <6>2
        <5> QED
          BY <5>2, <5>3
      <4>3. TableAt(lines, seen[m]) = TableAt(lines, seen[m - 1] + 1)
        BY <4>2, NothingBetween
      <4> QED
        BY <2>1, <3>1, <4>1, <4>3
    <3> QED
      BY <3>2, <3>3
  <2>5. f[0] = NoLines
    BY <2>1
  <2>6. n \in 1 .. n
    BY <2>1
  <2> HIDE DEF f, n
  <2>7. TableAt(lines, seen[n] + 1) = lines
    <3>1. \A i \in DOMAIN lines : i < seen[n] + 1
      <4> TAKE i \in DOMAIN lines
      <4>1. PICK k \in 1 .. n : seen[k] = i
        BY <2>2
      <4>2. seen[k] <= seen[n] /\ seen[k] \in Nat /\ seen[n] \in Nat
        <5>1. k = n \/ k < n
          BY <2>1
        <5> QED
          BY <2>1, <2>2, <2>6, <5>1
      <4> QED
        BY <4>1, <4>2
    <3>2. lines = [i \in DOMAIN lines |-> lines[i]]
      BY DEF Readable
    <3> QED
      BY <2>1, <3>1, <3>2, TableAtEnd DEF StateLinks
  <2>8. ASSUME NEW m \in 1 .. n PROVE f[m] = RereadLine(f[m - 1], Output[m])
    <3> DEFINE i == seen[m]
               C == TableAt(lines, i)
               s == Printed(lines[i])
    <3>1. i \in DOMAIN lines /\ f[m - 1] = C /\ f[m] = TableAt(lines, i + 1) /\ Output[m] = s
      BY <2>3, <2>4
    <3>2. ReadsAgain(lines, i)
      BY <2>2, <3>1 DEF Readable
    <3>3. BodyOk(C, s) /\ SortsOk(C, LineOf(C, s)) /\ Extended(C, s) = TableAt(lines, i + 1)
      BY <3>2 DEF ReadsAgain
    <3>4. s.id = i
      BY <2>1, <3>1 DEF Printed
    <3>5. \A j \in DOMAIN C : j < s.id
      BY <3>4 DEF TableAt
    <3> HIDE DEF i, C, s
    <3> QED
      BY <3>1, <3>3, <3>5 DEF RereadLine
  <2>9. Reread(Output) = f[n]
    <3> DEFINE file == Output
    <3>1. DOMAIN file = 1 .. n /\ n \in Nat /\ f[0] = NoLines
          /\ \A m \in 1 .. n : f[m] = RereadLine(f[m - 1], file[m])
      BY <2>1, <2>3, <2>5, <2>8
    <3> HIDE DEF file
    <3>2. Reread(file) = f[n]
      BY <3>1, RereadSteps
    <3> QED
      BY <3>2 DEF file
  <2> QED
    BY <2>4, <2>6, <2>7, <2>9
<1> QED
  BY <1>1, ReferencesInvariant, LinksInvariant, ReadableInvariant, Iteration, PTL

=============================================================================
