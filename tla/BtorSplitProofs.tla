--------------------------- MODULE BtorSplitProofs ---------------------------
(***************************************************************************)
(* BtorSplit: files survive, and the outputs are the models with one       *)
(* property each, for all directories, arguments and contents.             *)
(***************************************************************************)
EXTENDS BtorSplit, Btor2Lemmas

\* A step with which no file changes or vanishes.
Kept == \A f \in DOMAIN directory : f \in DOMAIN directory' /\ directory'[f] = directory[f]

\* The only step that changes a file refuses those that exist.
LEMMA WritingKeeps ==
    ASSUME ~overwrite, NEW p \in bad, WriteProperty(p) PROVE Kept
<1> DEFINE f == OutputName(Head(infiles), num_prop)
<1>1. CASE Refused(f)
  BY <1>1 DEF WriteProperty, Kept
<1>2. CASE ~Refused(f)
  <2>1. f \notin DOMAIN directory
    BY <1>2 DEF Refused
  <2>2. directory' = [g \in DOMAIN directory \cup {f} |->
                        IF g = f THEN OutputLines(p) ELSE directory[g]]
    BY <1>2 DEF WriteProperty
  <2> HIDE DEF f
  <2> QED
    BY <2>1, <2>2 DEF Kept
<1> QED
  BY <1>1, <1>2

\* Without -f btorsplit overwrites no file: none of the directory it is started in
\* and none it has written, whatever the names of the arguments are and however
\* they repeat or contain each other's outputs.
THEOREM FilesKept == Spec => NothingOverwritten
<1>1. [Next]_vars => [~overwrite => Kept]_vars
  <2> SUFFICES ASSUME Next, ~overwrite PROVE Kept
    OBVIOUS
  <2>1. CASE ReadFile \/ FileSplit \/ Exit \/ Terminated
    BY <2>1 DEF ReadFile, FileSplit, Exit, Terminated, vars, Kept
  <2>2. CASE \E p \in bad : WriteProperty(p)
    BY <2>2, WritingKeeps
  <2> QED
    BY <2>1, <2>2 DEF Next
<1>2. Spec => [][~overwrite => Kept]_vars
  BY <1>1, PTL DEF Spec
<1> QED
  BY <1>2 DEF NothingOverwritten, Kept

----------------------------------------------------------------------------
(* The parser's table of a file, line by line.                             *)

\* The table of a file without lines.
EmptyTable == [i \in {} |-> 0]

\* The greatest of the first m numbers in a set that has m.
LEMMA GreatestIs ==
    ASSUME NEW m \in Nat, NEW S \in SUBSET (1 .. m), m \in S PROVE Max(S) = m
<1>1. \A x \in S : x \in Int /\ m >= x
  OBVIOUS
<1>2. \A x \in S : (\A y \in S : x >= y) => x = m
  BY <1>1
<1> QED
  BY <1>1, <1>2 DEF Max

\* The recursion of the fold has a solution on the subsets of the first m lines.
ReadsUpTo(file, m, h) ==
    h = [S \in SUBSET (1 .. m) |->
           IF S = {} THEN EmptyTable
           ELSE WithLine(h[S \ {Max(S)}], file[Max(S)])]

LEMMA ReadsExist ==
    ASSUME NEW file, NEW n \in Nat PROVE \E h : ReadsUpTo(file, n, h)
<1> DEFINE failing == {m \in Nat : ~\E h : ReadsUpTo(file, m, h)}
<1>1. ASSUME NEW m \in failing, \A j \in failing : m <= j PROVE FALSE
  <2>1. CASE m = 0
    <3> DEFINE h == [S \in SUBSET (1 .. 0) |-> EmptyTable]
    <3>1. \A S \in SUBSET (1 .. 0) : S = {}
      OBVIOUS
    <3>2. ReadsUpTo(file, 0, h)
      BY <3>1 DEF ReadsUpTo
    <3> QED
      BY <1>1, <2>1, <3>2
  <2>2. CASE m # 0
    <3>1. m \in Nat /\ m - 1 \in Nat /\ m - 1 \notin failing
      BY <1>1, <2>2
    <3>2. PICK g : ReadsUpTo(file, m - 1, g)
      BY <3>1
    <3> DEFINE h == [S \in SUBSET (1 .. m) |->
                       IF m \in S THEN WithLine(g[S \ {m}], file[m]) ELSE g[S]]
    <3>3. ASSUME NEW S \in SUBSET (1 .. m)
          PROVE  h[S] = IF S = {} THEN EmptyTable
                        ELSE WithLine(h[S \ {Max(S)}], file[Max(S)])
      <4>1. CASE m \in S
        <5>1. Max(S) = m /\ S # {} /\ S \ {m} \in SUBSET (1 .. m) /\ m \notin S \ {m}
          BY <3>1, <4>1, GreatestIs
        <5>2. h[S] = WithLine(g[S \ {m}], file[m]) /\ h[S \ {m}] = g[S \ {m}]
          BY <4>1, <5>1
        <5> HIDE DEF h
        <5> QED
          BY <5>1, <5>2
      <4>2. CASE m \notin S
        <5>1. S \in SUBSET (1 .. m - 1)
          <6>1. \A x \in S : x \in 1 .. m - 1
            BY <3>1, <4>2
          <6> QED
            BY <6>1
        <5>2. g[S] = IF S = {} THEN EmptyTable ELSE WithLine(g[S \ {Max(S)}], file[Max(S)])
          BY <3>2, <5>1 DEF ReadsUpTo
        <5>3. h[S] = g[S]
          BY <4>2
        <5>4. h[S \ {Max(S)}] = g[S \ {Max(S)}]
          BY <4>2
        <5> HIDE DEF h
        <5> QED
          BY <5>2, <5>3, <5>4
      <4> QED
        BY <4>1, <4>2
    <3>4. DOMAIN h = SUBSET (1 .. m) /\ h = [S \in SUBSET (1 .. m) |-> h[S]]
      OBVIOUS
    <3> HIDE DEF h
    <3>5. ReadsUpTo(file, m, h)
      BY <3>3, <3>4, Zenon DEF ReadsUpTo
    <3> QED
      BY <1>1, <3>5
  <2> QED
    BY <2>1, <2>2
<1>2. failing = {}
  <2>1. failing \in SUBSET Nat
    OBVIOUS
  <2> HIDE DEF failing
  <2> QED
    BY <1>1, <2>1, LeastNumber
<1> QED
  BY <1>2


\* The tables of the beginnings of a file, of which the last is the table.
LEMMA TableSteps ==
    ASSUME NEW file, NEW n \in Nat, DOMAIN file = 1 .. n
    PROVE  \E f : /\ f[0] = EmptyTable
                  /\ \A m \in 1 .. n : f[m] = WithLine(f[m - 1], file[m])
                  /\ TableOf(file) = f[n]
<1> DEFINE h == CHOOSE h : ReadsUpTo(file, n, h)
<1>1. ReadsUpTo(file, n, h)
  BY ReadsExist
<1>2. TableOf(file) = h[1 .. n]
  BY DEF TableOf, FoldLeft, MapThenFoldSet, ReadsUpTo, WithLine, EmptyTable
<1>3. \A S \in SUBSET (1 .. n) :
        h[S] = IF S = {} THEN EmptyTable ELSE WithLine(h[S \ {Max(S)}], file[Max(S)])
  BY <1>1 DEF ReadsUpTo
<1> HIDE DEF h
<1> DEFINE f == [m \in 0 .. n |-> h[1 .. m]]
<1>4. f[0] = EmptyTable
  <2>1. 1 .. 0 = {} /\ 1 .. 0 \in SUBSET (1 .. n) /\ 0 \in 0 .. n
    OBVIOUS
  <2> QED
    BY <1>3, <2>1
<1>5. ASSUME NEW m \in 1 .. n PROVE f[m] = WithLine(f[m - 1], file[m])
  <2>1. m \in Nat /\ m \in 0 .. n /\ m - 1 \in 0 .. n
    OBVIOUS
  <2>2. /\ 1 .. m \in SUBSET (1 .. m) /\ m \in 1 .. m
        /\ \A x \in 1 .. m : x \in 1 .. n
    BY <2>1
  <2>3. (1 .. m) \ {m} = 1 .. m - 1
    BY <2>1
  <2>4. Max(1 .. m) = m
    BY <2>1, <2>2, GreatestIs
  <2>5. 1 .. m \in SUBSET (1 .. n) /\ 1 .. m # {}
    BY <2>2
  <2> QED
    BY <1>3, <2>1, <2>3, <2>4, <2>5
<1>6. TableOf(file) = f[n]
  <2>1. n \in 0 .. n
    OBVIOUS
  <2> QED
    BY <1>2, <2>1
<1> HIDE DEF f
<1> QED
  BY <1>4, <1>5, <1>6

\* Reading starts with no table.
LEMMA TableOfNothing == TableOf(<<>>) = EmptyTable
<1> DEFINE file == <<>>
<1>1. DOMAIN file = 1 .. 0 /\ 0 \in Nat
  OBVIOUS
<1> HIDE DEF file
<1>2. TableOf(file) = EmptyTable
  BY <1>1, TableSteps
<1> QED
  BY <1>2 DEF file

\* And goes on line by line.
LEMMA TableOfOneMore ==
    ASSUME NEW W, NEW file \in Seq(W), NEW l \in W
    PROVE  TableOf(Append(file, l)) = WithLine(TableOf(file), l)
<1> DEFINE n == Len(file)
           longer == Append(file, l)
<1>1. /\ n \in Nat /\ n + 1 \in Nat
      /\ DOMAIN file = 1 .. n /\ DOMAIN longer = 1 .. n + 1
      /\ \A m \in 1 .. n : longer[m] = file[m]
      /\ longer[n + 1] = l
  OBVIOUS
<1> HIDE DEF n, longer
<1>2. PICK f : /\ f[0] = EmptyTable
               /\ \A m \in 1 .. n : f[m] = WithLine(f[m - 1], file[m])
               /\ TableOf(file) = f[n]
  BY <1>1, TableSteps
<1>3. PICK g : /\ g[0] = EmptyTable
               /\ \A m \in 1 .. n + 1 : g[m] = WithLine(g[m - 1], longer[m])
               /\ TableOf(longer) = g[n + 1]
  BY <1>1, TableSteps
<1> DEFINE wrong == {m \in 0 .. n : g[m] # f[m]}
<1>4. ASSUME NEW m \in wrong, \A j \in wrong : m <= j PROVE FALSE
  <2>1. CASE m = 0
    BY <1>2, <1>3, <1>4, <2>1
  <2>2. CASE m # 0
    <3>1. m \in 1 .. n /\ m \in 1 .. n + 1 /\ m - 1 \in 0 .. n /\ m - 1 \notin wrong
      BY <1>1, <1>4, <2>2
    <3>2. g[m - 1] = f[m - 1]
      BY <3>1
    <3> QED
      BY <1>1, <1>2, <1>3, <1>4, <3>1, <3>2
  <2> QED
    BY <2>1, <2>2
<1>5. wrong = {}
  <2>1. wrong \in SUBSET Nat
    BY <1>1
  <2> HIDE DEF wrong
  <2> QED
    BY <1>4, <2>1, LeastNumber
<1>6. n \in 0 .. n /\ n + 1 \in 1 .. n + 1 /\ (n + 1) - 1 = n
  BY <1>1
<1>7. g[n + 1] = WithLine(g[n], l) /\ g[n] = f[n]
  BY <1>1, <1>3, <1>5, <1>6
<1>8. TableOf(longer) = WithLine(TableOf(file), l)
  BY <1>2, <1>3, <1>7
<1> QED
  BY <1>8 DEF longer

----------------------------------------------------------------------------
(* The lines selected.                                                     *)

SelectsUpTo(s, I, m, h) ==
    h = [n \in 0 .. m |->
           IF n = 0 THEN <<>>
           ELSE IF n \in I THEN Append(h[n - 1], s[n]) ELSE h[n - 1]]

\* The recursion for the lines selected has a solution.
LEMMA SelectionExists ==
    ASSUME NEW s, NEW I, NEW n \in Nat PROVE \E h : SelectsUpTo(s, I, n, h)
<1> DEFINE failing == {m \in Nat : ~\E h : SelectsUpTo(s, I, m, h)}
<1>1. ASSUME NEW m \in failing, \A j \in failing : m <= j PROVE FALSE
  <2>1. CASE m = 0
    <3> DEFINE h == [k \in 0 .. 0 |-> <<>>]
    <3>1. \A k \in 0 .. 0 : k = 0
      OBVIOUS
    <3>2. SelectsUpTo(s, I, 0, h)
      BY <3>1 DEF SelectsUpTo
    <3> QED
      BY <1>1, <2>1, <3>2
  <2>2. CASE m # 0
    <3>1. m \in Nat /\ m - 1 \in Nat /\ m - 1 \notin failing
      BY <1>1, <2>2
    <3>2. PICK g : SelectsUpTo(s, I, m - 1, g)
      BY <3>1
    <3> DEFINE h == [k \in 0 .. m |->
                       IF k < m THEN g[k]
                       ELSE IF m \in I THEN Append(g[m - 1], s[m]) ELSE g[m - 1]]
    <3>3. ASSUME NEW k \in 0 .. m
          PROVE  h[k] = IF k = 0 THEN <<>>
                        ELSE IF k \in I THEN Append(h[k - 1], s[k]) ELSE h[k - 1]
      <4>1. CASE k < m
        <5>1. k \in 0 .. m - 1 /\ h[k] = g[k] /\ (k # 0 => k - 1 \in 0 .. m /\ h[k - 1] = g[k - 1])
          BY <3>1, <4>1
        <5>2. g[k] = IF k = 0 THEN <<>>
                     ELSE IF k \in I THEN Append(g[k - 1], s[k]) ELSE g[k - 1]
          BY <3>2, <5>1 DEF SelectsUpTo
        <5> HIDE DEF h
        <5> QED
          BY <5>1, <5>2
      <4>2. CASE ~(k < m)
        <5>1. k = m /\ k # 0 /\ h[k - 1] = g[m - 1]
          BY <2>2, <3>1, <4>2
        <5>2. h[k] = IF m \in I THEN Append(g[m - 1], s[m]) ELSE g[m - 1]
          BY <4>2
        <5> HIDE DEF h
        <5> QED
          BY <5>1, <5>2
      <4> QED
        BY <4>1, <4>2
    <3>4. DOMAIN h = 0 .. m /\ h = [k \in 0 .. m |-> h[k]]
      OBVIOUS
    <3> HIDE DEF h
    <3>5. SelectsUpTo(s, I, m, h)
      BY <3>3, <3>4, Zenon DEF SelectsUpTo
    <3> QED
      BY <1>1, <3>5
  <2> QED
    BY <2>1, <2>2
<1>2. failing = {}
  <2>1. failing \in SUBSET Nat
    OBVIOUS
  <2> HIDE DEF failing
  <2> QED
    BY <1>1, <2>1, LeastNumber
<1> QED
  BY <1>2

\* Lines are selected one after the other.
LEMMA SelectedSteps ==
    ASSUME NEW W, NEW s \in Seq(W), NEW I
    PROVE  \E u : /\ u[0] = <<>>
                  /\ \A m \in 1 .. Len(s) :
                       u[m] = IF m \in I THEN Append(u[m - 1], s[m]) ELSE u[m - 1]
                  /\ Selected(s, I) = u[Len(s)]
<1> DEFINE u == CHOOSE h : SelectsUpTo(s, I, Len(s), h)
<1>1. Len(s) \in Nat
  OBVIOUS
<1>2. SelectsUpTo(s, I, Len(s), u)
  BY <1>1, SelectionExists
<1>3. Selected(s, I) = u[Len(s)]
  BY DEF Selected, SelectsUpTo
<1> HIDE DEF u
<1>4. /\ u[0] = <<>>
      /\ \A m \in 1 .. Len(s) : u[m] = IF m \in I THEN Append(u[m - 1], s[m]) ELSE u[m - 1]
  <2> DEFINE n == Len(s)
  <2>1. n \in Nat /\ 0 \in 0 .. n /\ \A m \in 1 .. n : m \in 0 .. n /\ m # 0
    BY <1>1
  <2> HIDE DEF n
  <2>2. \A m \in 0 .. n : u[m] = IF m = 0 THEN <<>>
                               ELSE IF m \in I THEN Append(u[m - 1], s[m]) ELSE u[m - 1]
    BY <1>2 DEF SelectsUpTo, n
  <2>3. /\ u[0] = <<>>
        /\ \A m \in 1 .. n : u[m] = IF m \in I THEN Append(u[m - 1], s[m]) ELSE u[m - 1]
    BY <2>1, <2>2
  <2> QED
    BY <2>3 DEF n
<1> QED
  BY <1>3, <1>4

\* An accepted file stays one with a line that is accepted at its end.
LEMMA AcceptedOneMore ==
    ASSUME NEW W, NEW file \in Seq(W), NEW l \in W, AcceptedFile(file),
           l.stmt.tag # "comment" => Accepts(TableOf(file), l.stmt)
    PROVE  AcceptedFile(Append(file, l))
<1> DEFINE n == Len(file)
           longer == Append(file, l)
<1>1. /\ n \in Nat /\ DOMAIN file = 1 .. n /\ DOMAIN longer = 1 .. n + 1
      /\ \A m \in 1 .. n : longer[m] = file[m]
      /\ longer[n + 1] = l
  OBVIOUS
<1>2. \A m \in 1 .. n + 1 : SubSeq(longer, 1, m - 1) = SubSeq(file, 1, m - 1)
  OBVIOUS
<1>3. SubSeq(file, 1, n) = file
  OBVIOUS
<1> HIDE DEF n, longer
<1>4. ASSUME NEW m \in DOMAIN longer, longer[m].stmt.tag # "comment"
      PROVE  Accepts(TableOf(SubSeq(longer, 1, m - 1)), longer[m].stmt)
  <2>1. CASE m \in 1 .. n
    BY <1>1, <1>2, <1>4, <2>1 DEF AcceptedFile
  <2>2. CASE m = n + 1
    <3>1. m - 1 = n /\ SubSeq(longer, 1, m - 1) = file /\ longer[m] = l
      BY <1>1, <1>2, <1>3, <2>2
    <3> QED
      BY <1>4, <3>1
  <2> QED
    BY <1>1, <2>1, <2>2
<1>5. AcceptedFile(longer)
  BY <1>4 DEF AcceptedFile
<1> QED
  BY <1>5 DEF longer

----------------------------------------------------------------------------
(* Tables without some of the properties.                                  *)

\* Lines refer to lines that may be arguments, in particular to no property.
Clean(T) ==
    /\ T = [i \in DOMAIN T |-> T[i]]
    /\ DOMAIN T \subseteq Nat \ {0}
    /\ \A i \in DOMAIN T :
         /\ T[i] \in Line
         /\ \A k \in DOMAIN T[i].args :
              Abs(T[i].args[k]) \in DOMAIN T /\ T[Abs(T[i].args[k])].tag \notin NonArguments

\* What is left of a table without lines that nothing may refer to.
Without(T, R, dropped) ==
    /\ \A i \in DOMAIN T \cap dropped : T[i].tag = "bad"
    /\ R = Restricted(T, DOMAIN T \ dropped)

\* The same sorts compare the same.
LEMMA SameSortWithout ==
    ASSUME NEW T, NEW R, NEW dropped, Without(T, R, dropped), NEW i, NEW j
    PROVE  SameSort(R, i, j) = SameSort(T, i, j)
<1>1. SortLines(R) = SortLines(T) /\ \A k \in SortLines(T) : R[k].sort = T[k].sort
  BY DEF Without, Restricted, SortLines
<1> DEFINE step(X, h, p) ==
             LET s == X[p[1]].sort
                 t == X[p[2]].sort
             IN  /\ s.tag = t.tag
                 /\ s.tag = "bitvec" => s.word = t.word
                 /\ s.tag = "array"  => /\ h[<<s.word, t.word>>]
                                        /\ h[<<s.element, t.element>>]
           P == SortLines(T) \X SortLines(T)
<1>2. \A h : \A p \in P : step(T, h, p) = step(R, h, p)
  <2> TAKE h
  <2> TAKE p \in P
  <2>1. T[p[1]].sort = R[p[1]].sort /\ T[p[2]].sort = R[p[2]].sort
    BY <1>1
  <2> QED
    BY <2>1
<1>3. /\ SameSort(T, i, j) = (CHOOSE h : h = [p \in P |-> step(T, h, p)])[<<i, j>>]
      /\ SameSort(R, i, j) = (CHOOSE h : h = [p \in P |-> step(R, h, p)])[<<i, j>>]
  BY <1>1 DEF SameSort
<1> HIDE DEF step, P
<1>4. \A h : h = [p \in P |-> step(T, h, p)] <=> h = [p \in P |-> step(R, h, p)]
  BY <1>2
<1>5. (CHOOSE h : h = [p \in P |-> step(T, h, p)]) = (CHOOSE h : h = [p \in P |-> step(R, h, p)])
  BY <1>4, Zenon
<1> QED
  BY <1>3, <1>5

\* The lines of the smaller table.
LEMMA WithoutLines ==
    ASSUME NEW T, NEW R, NEW dropped, Without(T, R, dropped)
    PROVE  /\ DOMAIN R = DOMAIN T \ dropped
           /\ \A i \in DOMAIN R : i \in DOMAIN T /\ R[i] = T[i]
           /\ \A i \in DOMAIN T : T[i].tag # "bad" => i \in DOMAIN R /\ R[i] = T[i]
<1>1. DOMAIN R = DOMAIN T \ dropped /\ \A i \in DOMAIN R : R[i] = T[i]
  BY DEF Without, Restricted
<1>2. \A i \in DOMAIN T : T[i].tag # "bad" => i \notin dropped
  BY DEF Without
<1> QED
  BY <1>1, <1>2

\* A line accepted by the body is accepted without the properties, and is the same.
LEMMA BodyWithout ==
    ASSUME NEW T, NEW R, NEW dropped, Without(T, R, dropped), Clean(T),
           NEW s \in StatementType, BodyOk(T, s)
    PROVE  BodyOk(R, s) /\ LineOf(R, s) = LineOf(T, s)
<1>1. /\ DOMAIN R = DOMAIN T \ dropped
      /\ \A i \in DOMAIN R : i \in DOMAIN T /\ R[i] = T[i]
      /\ \A i \in DOMAIN T : T[i].tag # "bad" => i \in DOMAIN R /\ R[i] = T[i]
  BY WithoutLines
<1>2. \A sid : SortIdOk(T, sid) => SortIdOk(R, sid) /\ R[sid] = T[sid]
  BY <1>1 DEF SortIdOk
<1>3. \A i : ArgOk(T, i) => ArgOk(R, i) /\ R[Abs(i)] = T[Abs(i)] /\ Abs(i) \in DOMAIN R
  BY <1>1 DEF ArgOk, NonArguments
<1>4. s.tag \in SortedTags => SortIdOk(T, s.sid)
  BY DEF BodyOk
<1>5. s.tag = "sort" /\ s.kind = "array" => SortIdOk(T, s.imm[1]) /\ SortIdOk(T, s.imm[2])
  BY DEF BodyOk, SortBodyOk
<1>6. SortOf(R, s) = SortOf(T, s)
  <2>1. CASE s.tag \in SortedTags
    <3>1. s.tag # "sort"
      BY <2>1 DEF SortedTags, Constants, UnaryTags, BinaryTags, TernaryTags, Unary, Reductions,
                  Extensions, Binary, Predicates, Equalities, Connectives, Links
    <3> QED
      BY <1>2, <1>4, <2>1, <3>1 DEF SortOf
  <2>2. CASE s.tag \notin SortedTags /\ s.tag = "sort" /\ s.kind = "array"
    BY <1>2, <1>5, <2>2 DEF SortOf
  <2>3. CASE s.tag \notin SortedTags /\ ~(s.tag = "sort" /\ s.kind = "array")
    BY <2>3 DEF SortOf
  <2> QED
    BY <2>1, <2>2, <2>3
<1>7. LineOf(R, s) = LineOf(T, s)
  BY <1>6 DEF LineOf
<1>8. s.tag = "sort" => SortBodyOk(R, s)
  BY <1>2 DEF BodyOk, SortBodyOk
<1>9. s.tag \in Constants => ConstantBodyOk(R, s)
  <2> HAVE s.tag \in Constants
  <2>1. SortIdOk(T, s.sid) /\ ConstantBodyOk(T, s)
    BY <1>4 DEF BodyOk, SortedTags
  <2> QED
    BY <1>2, <2>1 DEF ConstantBodyOk
<1>10. s.tag \in Links => /\ Len(s.args) = 2 /\ 1 \in DOMAIN s.args /\ 2 \in DOMAIN s.args
                          /\ ArgOk(T, s.args[1]) /\ ArgOk(T, s.args[2])
  <2> HAVE s.tag \in Links
  <2>1. Len(s.args) = 2
    <3>1. s.tag \in BinaryTags /\ s.tag # "justice"
      BY DEF BinaryTags, Links
    <3> QED
      BY <3>1, ArityOf DEF BodyOk
  <2>2. 1 \in DOMAIN s.args /\ 2 \in DOMAIN s.args
    BY <2>1 DEF StatementType
  <2> QED
    BY <2>1, <2>2 DEF BodyOk
<1>11. s.tag = "next" => NextBodyOk(R, s)
  <2> HAVE s.tag = "next"
  <2>1. NextBodyOk(T, s) /\ ArgOk(T, s.args[1]) /\ s.args[1] \in Int
    BY <1>10 DEF BodyOk, Links, StatementType
  <2>2. Abs(s.args[1]) = s.args[1]
    BY <2>1 DEF NextBodyOk, Abs
  <2> QED
    BY <1>3, <2>1, <2>2 DEF NextBodyOk
<1>12. s.tag = "init" => InitBodyOk(R, s)
  <2> HAVE s.tag = "init"
  <2>1. InitBodyOk(T, s) /\ ArgOk(T, s.args[1]) /\ ArgOk(T, s.args[2]) /\ s.args[1] \in Int
    BY <1>10 DEF BodyOk, Links, StatementType
  <2>2. Abs(s.args[1]) = s.args[1]
    BY <2>1 DEF InitBodyOk, Abs
  <2>3. PICK S \in SUBSET {i \in DOMAIN T : T[i].tag # "input"} :
             /\ Abs(s.args[2]) \in S
             /\ \A i \in S : \A k \in DOMAIN T[i].args : Abs(T[i].args[k]) \in S
    BY <2>1 DEF InitBodyOk, InputFree
  <2> DEFINE U == S \cap DOMAIN R
  <2>4. Abs(s.args[2]) \in U /\ U \in SUBSET {i \in DOMAIN R : R[i].tag # "input"}
    BY <1>1, <1>3, <2>1, <2>3
  <2>5. \A i \in U : \A k \in DOMAIN R[i].args : Abs(R[i].args[k]) \in U
    <3> TAKE i \in U
    <3> TAKE k \in DOMAIN R[i].args
    <3>1. i \in S /\ i \in DOMAIN T /\ R[i] = T[i]
      BY <1>1
    <3>2. Abs(T[i].args[k]) \in DOMAIN T /\ T[Abs(T[i].args[k])].tag # "bad"
      BY <3>1 DEF Clean, NonArguments
    <3> QED
      BY <1>1, <2>3, <3>1, <3>2
  <2>6. InputFree(R, s.args[2])
    <3> HIDE DEF U
    <3> QED
      BY <2>4, <2>5 DEF InputFree
  <2> QED
    BY <1>3, <2>1, <2>2, <2>6 DEF InitBodyOk
<1>13. BodyOk(R, s)
  BY <1>2, <1>3, <1>8, <1>9, <1>11, <1>12 DEF BodyOk
<1> QED
  BY <1>7, <1>13

\* And its sorts are accepted.
LEMMA SortsWithout ==
    ASSUME NEW T, NEW R, NEW dropped, Without(T, R, dropped), NEW l,
           \A k \in DOMAIN l.args : Abs(l.args[k]) \in DOMAIN R,
           l.args \in Seq(Int), l.tag # "justice" => Len(l.args) = Arity[l.tag],
           SortsOk(T, l)
    PROVE  SortsOk(R, l)
<1>1. \A k \in DOMAIN l.args : Arg(R, l, k) = Arg(T, l, k)
  <2>1. \A i \in DOMAIN R : R[i] = T[i]
    BY WithoutLines
  <2> QED
    BY <2>1 DEF Arg
<1>2. /\ \A i, j : SameSort(R, i, j) <=> SameSort(T, i, j)
      /\ \A k, m : SameSorts(R, k, m) <=> SameSorts(T, k, m)
  BY SameSortWithout DEF SameSorts
<1>3. AllBitvec(R, l) <=> AllBitvec(T, l)
  BY <1>1 DEF AllBitvec
<1>4. /\ l.tag \in UnaryTags \cup Properties \cup {"output"} => 1 \in DOMAIN l.args
      /\ l.tag \in BinaryTags => 1 \in DOMAIN l.args /\ 2 \in DOMAIN l.args
      /\ l.tag \in TernaryTags =>
           1 \in DOMAIN l.args /\ 2 \in DOMAIN l.args /\ 3 \in DOMAIN l.args
  <2>1. "justice" \notin UnaryTags \cup Properties \cup {"output"} \cup BinaryTags \cup TernaryTags
    BY DEF UnaryTags, Properties, BinaryTags, TernaryTags, Unary, Reductions, Extensions, Binary,
           Predicates, Equalities, Connectives, Links
  <2> QED
    BY <2>1, ArityOf
<1>5. /\ \A t \in Unary \cup Reductions \cup Extensions \cup {"slice"} : t \in UnaryTags
      /\ \A t \in Binary \cup Predicates \cup Equalities \cup Connectives
                    \cup {"concat", "next", "init", "read"} : t \in BinaryTags
      /\ "ite" \in TernaryTags /\ "write" \in TernaryTags
  BY DEF UnaryTags, BinaryTags, TernaryTags, Links
<1> USE <1>4, <1>5
<1>6. /\ l.tag = "init" => InitSortsOk(R, l)
      /\ l.tag = "read" => ReadSortsOk(R, l)
      /\ l.tag = "write" => WriteSortsOk(R, l)
  <2>1. l.tag = "init" => InitSortsOk(T, l)
    BY DEF SortsOk
  <2>2. l.tag = "read" => ReadSortsOk(T, l)
    BY DEF SortsOk
  <2>3. l.tag = "write" => WriteSortsOk(T, l)
    BY DEF SortsOk
  <2>4. l.tag = "init" => InitSortsOk(R, l)
    BY <1>1, <1>2, <2>1 DEF InitSortsOk
  <2>5. l.tag = "read" => ReadSortsOk(R, l)
    BY <1>1, <1>2, <2>2 DEF ReadSortsOk
  <2>6. l.tag = "write" => WriteSortsOk(R, l)
    BY <1>1, <1>2, <2>3 DEF WriteSortsOk
  <2> QED
    BY <2>4, <2>5, <2>6
<1> USE <1>1, <1>2, <1>3
<1>7. \A k \in DOMAIN l.args : ~(IsArray(Arg(R, l, k)) /\ l.args[k] < 0)
  BY DEF SortsOk
<1>8. /\ l.tag \in Unary => AllBitvec(R, l) /\ Width(l) = Width(Arg(R, l, 1))
      /\ l.tag \in Reductions => AllBitvec(R, l) /\ Width(l) = 1
      /\ l.tag = "slice" => AllBitvec(R, l) /\ Width(l) = l.imm[1] - l.imm[2] + 1
      /\ l.tag \in Extensions => AllBitvec(R, l) /\ Width(l) = Width(Arg(R, l, 1)) + l.imm[1]
  BY DEF SortsOk
<1>9. /\ l.tag \in Binary => AllBitvec(R, l) /\ Width(l) = Width(Arg(R, l, 1))
                              /\ Width(l) = Width(Arg(R, l, 2))
      /\ l.tag \in Predicates => AllBitvec(R, l) /\ Width(l) = 1
                                 /\ Width(Arg(R, l, 1)) = Width(Arg(R, l, 2))
      /\ l.tag \in Connectives => AllBitvec(R, l) /\ Width(l) = 1
                                  /\ Width(Arg(R, l, 1)) = 1 /\ Width(Arg(R, l, 2)) = 1
      /\ l.tag = "concat" => AllBitvec(R, l) /\ Width(l) = Width(Arg(R, l, 1)) + Width(Arg(R, l, 2))
  BY DEF SortsOk
<1>10. /\ l.tag \in Equalities => Width(l) = 1 /\ SameSorts(R, Arg(R, l, 1), Arg(R, l, 2))
       /\ l.tag = "ite" => IsBool(Arg(R, l, 1)) /\ SameSorts(R, Arg(R, l, 2), Arg(R, l, 3))
       /\ l.tag = "next" => SameSorts(R, l, Arg(R, l, 1)) /\ SameSorts(R, l, Arg(R, l, 2))
       /\ l.tag \in Properties \cup {"justice"} => \A k \in DOMAIN l.args : IsBool(Arg(R, l, k))
       /\ l.tag = "output" => IsBitvec(Arg(R, l, 1))
  BY DEF SortsOk
<1> QED
  BY <1>6, <1>7, <1>8, <1>9, <1>10 DEF SortsOk

\* The next line is accepted without the dropped properties too, and stored.
LEMMA ExtendedWithout ==
    ASSUME NEW T, NEW R, NEW dropped, Without(T, R, dropped), Clean(T),
           NEW s \in StatementType, Accepts(T, s), s.id \notin dropped
    PROVE  Accepts(R, s) /\ Without(Extended(T, s), Extended(R, s), dropped)
<1> DEFINE l == LineOf(T, s)
           E == Extended(T, s)
           F == Extended(R, s)
<1>1. BodyOk(T, s) /\ BodyOk(R, s) /\ LineOf(R, s) = l /\ SortsOk(T, l)
  BY BodyWithout DEF Accepts
<1>2. /\ DOMAIN R = DOMAIN T \ dropped
      /\ \A i \in DOMAIN R : i \in DOMAIN T /\ R[i] = T[i]
  BY WithoutLines
<1>3. \A k \in DOMAIN s.args : Abs(s.args[k]) \in DOMAIN R
  BY <1>1 DEF BodyOk, ArgOk
<1>4. SortsOk(R, l)
  <2>1. l.args = s.args /\ l.tag = s.tag /\ s.args \in Seq(Int)
    BY DEF LineOf, StatementType
  <2>2. l.tag # "justice" => Len(l.args) = Arity[l.tag]
    BY <1>1, <2>1 DEF BodyOk
  <2> HIDE DEF l
  <2> QED
    BY <1>1, <1>3, <2>1, <2>2, SortsWithout
<1>5. Accepts(R, s)
  BY <1>1, <1>2, <1>4 DEF Accepts
<1>6. \A i \in DOMAIN E \cap dropped : E[i].tag = "bad"
  <2> TAKE i \in DOMAIN E \cap dropped
  <2>1. i \in DOMAIN T /\ i # s.id
    BY DEF Extended
  <2>2. T[i].tag = "bad" /\ T[i] \in Line
    BY <2>1 DEF Without, Clean
  <2> QED
    BY <2>1, <2>2 DEF Extended, Line
<1>7. F = Restricted(E, DOMAIN E \ dropped)
  <2>1. DOMAIN F = DOMAIN E \cap (DOMAIN E \ dropped)
    BY <1>2 DEF Extended
  <2>2. ASSUME NEW i \in DOMAIN F PROVE F[i] = E[i]
    <3>1. i = s.id \/ (i # s.id /\ i \in DOMAIN R /\ R[i] = T[i] /\ i \in DOMAIN T)
      BY <1>2 DEF Extended
    <3>2. CASE i = s.id
      BY <1>1, <3>2 DEF Extended
    <3>3. CASE i # s.id
      BY <3>1, <3>3 DEF Extended
    <3> QED
      BY <3>2, <3>3
  <2>3. F = [i \in DOMAIN F |-> F[i]]
    BY DEF Extended
  <2> HIDE DEF E, F
  <2>4. F = [i \in DOMAIN E \cap (DOMAIN E \ dropped) |-> E[i]]
    BY <2>1, <2>2, <2>3
  <2> QED
    BY <2>4 DEF Restricted
<1> QED
  BY <1>5, <1>6, <1>7 DEF Without

\* A property that is dropped leaves the smaller table what it is.
LEMMA DroppedWithout ==
    ASSUME NEW T, NEW R, NEW dropped, Without(T, R, dropped), Clean(T),
           NEW s \in StatementType, Accepts(T, s), s.id \in dropped, s.tag = "bad"
    PROVE  Without(Extended(T, s), R, dropped)
<1> DEFINE E == Extended(T, s)
<1>1. s.id \notin DOMAIN T /\ s.id \in Nat
  BY DEF Accepts, StatementType
<1>2. DOMAIN E = DOMAIN T \cup {s.id} /\ E[s.id].tag = "bad"
  BY DEF Extended, LineOf
<1>3. \A i \in DOMAIN T : E[i] = T[i]
  BY <1>1 DEF Extended
<1>4. R = [i \in DOMAIN T \cap (DOMAIN T \ dropped) |-> T[i]]
  BY DEF Without, Restricted
<1> HIDE DEF E
<1>5. DOMAIN T \cap (DOMAIN T \ dropped) = DOMAIN E \cap (DOMAIN E \ dropped)
  BY <1>2
<1>6. R = [i \in DOMAIN E \cap (DOMAIN E \ dropped) |-> E[i]]
  BY <1>3, <1>4, <1>5
<1>7. \A i \in DOMAIN E \cap dropped : E[i].tag = "bad"
  BY <1>2, <1>3 DEF Without
<1>8. Without(E, R, dropped)
  BY <1>6, <1>7 DEF Without, Restricted
<1> QED
  BY <1>8 DEF E

\* Accepted lines refer to no property.
LEMMA ExtendedClean ==
    ASSUME NEW T, Clean(T), NEW s \in StatementType, Accepts(T, s)
    PROVE  Clean(Extended(T, s)) /\ DOMAIN Extended(T, s) = DOMAIN T \cup {s.id}
<1> DEFINE E == Extended(T, s)
<1>1. /\ s.id \notin DOMAIN T /\ s.id \in Nat \ {0}
      /\ DOMAIN E = DOMAIN T \cup {s.id} /\ E = [i \in DOMAIN E |-> E[i]]
  BY DEF Accepts, StatementType, Extended
<1>2. \A i \in DOMAIN E : E[i] \in Line
  BY ExtendedType DEF Clean, Accepts
<1>3. \A i \in DOMAIN T : E[i].tag = T[i].tag /\ E[i].args = T[i].args
  <2> TAKE i \in DOMAIN T
  <2>1. T[i] \in Line
    BY DEF Clean
  <2> QED
    BY <1>1, <2>1 DEF Extended, Line
<1>4. E[s.id].args = s.args
  BY DEF Extended, LineOf
<1>5. \A k \in DOMAIN s.args : ArgOk(T, s.args[k])
  BY DEF Accepts, BodyOk
<1> HIDE DEF E
<1>6. ASSUME NEW i \in DOMAIN E, NEW k \in DOMAIN E[i].args
      PROVE  Abs(E[i].args[k]) \in DOMAIN E /\ E[Abs(E[i].args[k])].tag \notin NonArguments
  <2>1. CASE i = s.id
    BY <1>1, <1>3, <1>4, <1>5, <2>1 DEF ArgOk
  <2>2. CASE i # s.id
    BY <1>1, <1>3, <2>2 DEF Clean
  <2> QED
    BY <2>1, <2>2
<1>7. DOMAIN E \subseteq Nat \ {0}
  BY <1>1 DEF Clean
<1>8. Clean(E)
  BY <1>1, <1>2, <1>6, <1>7 DEF Clean
<1> QED
  BY <1>1, <1>8 DEF E

----------------------------------------------------------------------------
(* The output for one property.                                            *)

\* The table of the first m lines of a file, and the ids in it.
Half(s, m) == TableOf(SubSeq(s, 1, m))
IdsUpTo(s, m) == {s[j].stmt.id : j \in {i \in 1 .. m : s[i].stmt.tag # "comment"}}

\* A file is read line by line.
LEMMA HalfSteps ==
    ASSUME NEW s \in Seq(FileLine)
    PROVE  /\ Half(s, 0) = EmptyTable
           /\ \A m \in 1 .. Len(s) : Half(s, m) = WithLine(Half(s, m - 1), s[m])
           /\ Half(s, Len(s)) = TableOf(s)
<1>1. SubSeq(s, 1, 0) = <<>> /\ SubSeq(s, 1, Len(s)) = s
  OBVIOUS
<1>2. ASSUME NEW m \in 1 .. Len(s) PROVE Half(s, m) = WithLine(Half(s, m - 1), s[m])
  <2>1. /\ SubSeq(s, 1, m - 1) \in Seq(FileLine)
        /\ s[m] \in FileLine
        /\ SubSeq(s, 1, m) = Append(SubSeq(s, 1, m - 1), s[m])
    OBVIOUS
  <2> QED
    BY <2>1, TableOfOneMore DEF Half
<1> QED
  BY <1>1, <1>2, TableOfNothing DEF Half

\* What is read of a file that is accepted.
LEMMA HalfClean ==
    ASSUME NEW s \in Seq(FileLine), AcceptedFile(s)
    PROVE  \A m \in 0 .. Len(s) : Clean(Half(s, m)) /\ DOMAIN Half(s, m) = IdsUpTo(s, m)
<1> DEFINE n == Len(s)
           wrong == {m \in 0 .. n : ~(Clean(Half(s, m)) /\ DOMAIN Half(s, m) = IdsUpTo(s, m))}
<1>1. ASSUME NEW m \in wrong, \A j \in wrong : m <= j PROVE FALSE
  <2>1. CASE m = 0
    <3>1. Clean(EmptyTable) /\ DOMAIN EmptyTable = {}
      BY DEF EmptyTable, Clean
    <3>2. IdsUpTo(s, 0) = {}
      BY DEF IdsUpTo
    <3> QED
      BY <1>1, <2>1, <3>1, <3>2, HalfSteps
  <2>2. CASE m # 0
    <3> DEFINE T == Half(s, m - 1)
               E == Half(s, m)
               x == s[m].stmt
    <3>1. m \in 1 .. n /\ m \in DOMAIN s /\ m - 1 \in 0 .. n /\ m - 1 \notin wrong /\ m \in Nat
      BY <1>1, <2>2
    <3>2. Clean(T) /\ DOMAIN T = IdsUpTo(s, m - 1)
      BY <3>1
    <3>3. E = WithLine(T, s[m]) /\ s[m] \in FileLine
      BY <3>1, HalfSteps
    <3>4. x.tag # "comment" => Accepts(T, x) /\ x \in StatementType
      BY <3>1, <3>3 DEF AcceptedFile, Half, FileLine
    <3>5. \A i : i \in 1 .. m <=> i \in 1 .. m - 1 \/ i = m
      BY <3>1
    <3>6. IdsUpTo(s, m) = IF x.tag = "comment" THEN IdsUpTo(s, m - 1)
                          ELSE IdsUpTo(s, m - 1) \cup {x.id}
      BY <3>5 DEF IdsUpTo
    <3> HIDE DEF T, E, x
    <3>7. CASE x.tag = "comment"
      <4>1. E = T
        BY <3>3, <3>7 DEF WithLine, x
      <4> QED
        BY <1>1, <3>2, <3>6, <3>7, <4>1 DEF E
    <3>8. CASE x.tag # "comment"
      <4>1. E = Extended(T, x)
        BY <3>3, <3>8 DEF WithLine, x
      <4>2. Clean(E) /\ DOMAIN E = DOMAIN T \cup {x.id}
        BY <3>2, <3>4, <3>8, <4>1, ExtendedClean
      <4> QED
        BY <1>1, <3>2, <3>6, <3>8, <4>2 DEF E
    <3> QED
      BY <3>7, <3>8
  <2> QED
    BY <2>1, <2>2
<1>2. wrong = {}
  <2>1. wrong \in SUBSET Nat
    OBVIOUS
  <2> HIDE DEF wrong
  <2> QED
    BY <1>1, <2>1, LeastNumber
<1> QED
  BY <1>2

\* The ids of an accepted file ascend.
LEMMA IdsAscend ==
    ASSUME NEW s \in Seq(FileLine), AcceptedFile(s),
           NEW i \in 1 .. Len(s), NEW j \in 1 .. Len(s), i < j,
           s[i].stmt.tag # "comment", s[j].stmt.tag # "comment"
    PROVE  s[i].stmt.id < s[j].stmt.id
<1>1. i \in 1 .. j - 1 /\ j - 1 \in 0 .. Len(s) /\ j \in DOMAIN s
  OBVIOUS
<1>2. s[i].stmt.id \in DOMAIN Half(s, j - 1)
  <2>1. s[i].stmt.id \in IdsUpTo(s, j - 1)
    BY <1>1 DEF IdsUpTo
  <2> QED
    BY <1>1, <2>1, HalfClean
<1>3. Accepts(Half(s, j - 1), s[j].stmt)
  BY <1>1 DEF AcceptedFile, Half
<1> QED
  BY <1>2, <1>3 DEF Accepts

\* What is selected for the property p is accepted, and its table is the one of the
\* file but for the other properties.
LEMMA SelectionRight ==
    ASSUME NEW s \in Seq(FileLine), PlainModel(s), NEW p \in PropertiesOf(s)
    PROVE  LET w == Selected(s, {i \in DOMAIN s : i \notin PropertiesOf(s) \/ i = p})
               others == {s[q].stmt.id : q \in PropertiesOf(s) \ {p}}
           IN  /\ AcceptedFile(w)
               /\ TableOf(w) = Restricted(TableOf(s), DOMAIN TableOf(s) \ others)
<1> DEFINE n == Len(s)
           I == {i \in DOMAIN s : i \notin PropertiesOf(s) \/ i = p}
           others == {s[q].stmt.id : q \in PropertiesOf(s) \ {p}}
<1>1. /\ n \in Nat /\ DOMAIN s = 1 .. n /\ \A i \in 1 .. n : s[i] \in FileLine
      /\ AcceptedFile(s)
      /\ \A q \in PropertiesOf(s) : q \in 1 .. n /\ s[q].stmt.tag = "bad"
  BY DEF PlainModel, PropertiesOf
<1>2. PICK u : /\ u[0] = <<>>
               /\ \A m \in 1 .. n : u[m] = IF m \in I THEN Append(u[m - 1], s[m]) ELSE u[m - 1]
               /\ Selected(s, I) = u[n]
  BY SelectedSteps
<1> DEFINE Right(m) == /\ u[m] \in Seq(FileLine)
                       /\ AcceptedFile(u[m])
                       /\ Without(Half(s, m), TableOf(u[m]), others)
           wrong == {m \in 0 .. n : ~Right(m)}
<1>3. Right(0)
  <2>1. u[0] \in Seq(FileLine) /\ AcceptedFile(u[0])
    BY <1>2 DEF AcceptedFile
  <2>2. Half(s, 0) = EmptyTable /\ TableOf(u[0]) = EmptyTable
    BY <1>2, HalfSteps, TableOfNothing
  <2>3. \A K : Without(EmptyTable, EmptyTable, K)
    BY DEF EmptyTable, Without, Restricted
  <2> QED
    BY <2>1, <2>2, <2>3
<1>4. ASSUME NEW m \in 1 .. n, Right(m - 1) PROVE Right(m)
  <2> DEFINE T == Half(s, m - 1)
             R == TableOf(u[m - 1])
             l == s[m]
             x == l.stmt
  <2>1. /\ m - 1 \in 0 .. n /\ l \in FileLine
        /\ Half(s, m) = WithLine(T, l)
        /\ Clean(T)
    BY <1>1, HalfSteps, HalfClean
  <2>2. u[m - 1] \in Seq(FileLine) /\ AcceptedFile(u[m - 1]) /\ Without(T, R, others)
    BY <1>4
  <2>3. x.tag # "comment" => x \in StatementType /\ Accepts(T, x)
    BY <1>1, <2>1 DEF FileLine, AcceptedFile, Half
  <2>4. m \in I => /\ u[m] = Append(u[m - 1], l) /\ u[m] \in Seq(FileLine)
                   /\ TableOf(u[m]) = WithLine(R, l)
    <3> HAVE m \in I
    <3>1. u[m] = Append(u[m - 1], l)
      BY <1>2
    <3> QED
      BY <2>1, <2>2, <3>1, TableOfOneMore
  <2>5. m \notin I => u[m] = u[m - 1] /\ m \in PropertiesOf(s) /\ m # p /\ x.tag = "bad"
    BY <1>1, <1>2
  <2>6. CASE x.tag = "comment"
    <3>1. m \in I
      BY <1>1, <2>6
    <3>2. Half(s, m) = T /\ TableOf(u[m]) = R
      BY <2>1, <2>4, <2>6, <3>1 DEF WithLine
    <3>3. AcceptedFile(u[m])
      BY <2>1, <2>2, <2>4, <2>6, <3>1, AcceptedOneMore
    <3> QED
      BY <2>2, <2>4, <3>1, <3>2, <3>3
  <2>7. CASE x.tag # "comment" /\ m \in I
    <3>1. x.id \notin others
      <4> SUFFICES ASSUME NEW q \in PropertiesOf(s) \ {p}, s[q].stmt.id = x.id PROVE FALSE
        OBVIOUS
      <4>1. q \in 1 .. n /\ q # m /\ s[q].stmt.tag # "comment"
        BY <1>1, <2>7
      <4>2. q < m \/ m < q
        BY <4>1
      <4>3. q < m => s[q].stmt.id < x.id
        BY <1>1, <2>7, <4>1, IdsAscend
      <4>4. m < q => x.id < s[q].stmt.id
        BY <1>1, <2>7, <4>1, IdsAscend
      <4>5. x.id \in Nat
        BY <2>3, <2>7 DEF StatementType
      <4> QED
        BY <4>2, <4>3, <4>4, <4>5
    <3>2. Accepts(R, x) /\ Without(Extended(T, x), Extended(R, x), others)
      <4>1. x \in StatementType /\ Accepts(T, x)
        BY <2>3, <2>7
      <4> HIDE DEF T, R, x, others
      <4> QED
        BY <2>1, <2>2, <3>1, <4>1, ExtendedWithout
    <3>3. Half(s, m) = Extended(T, x) /\ TableOf(u[m]) = Extended(R, x)
      BY <2>1, <2>4, <2>7 DEF WithLine
    <3>4. AcceptedFile(u[m])
      BY <2>1, <2>2, <2>4, <2>7, <3>2, AcceptedOneMore
    <3> QED
      BY <2>4, <2>7, <3>2, <3>3, <3>4
  <2>8. CASE m \notin I
    <3>1. x.id \in others /\ x.tag = "bad"
      BY <2>5, <2>8
    <3>2. Half(s, m) = Extended(T, x)
      BY <2>1, <3>1 DEF WithLine
    <3>3. Without(Extended(T, x), R, others)
      <4>1. x \in StatementType /\ Accepts(T, x)
        BY <2>3, <3>1
      <4> HIDE DEF T, R, x, others
      <4> QED
        BY <2>1, <2>2, <3>1, <4>1, DroppedWithout
    <3> QED
      BY <2>2, <2>5, <2>8, <3>2, <3>3
  <2> QED
    BY <2>6, <2>7, <2>8
<1> HIDE DEF Right
<1>5. ASSUME NEW m \in wrong, \A j \in wrong : m <= j PROVE FALSE
  <2>1. CASE m = 0
    BY <1>3, <1>5, <2>1
  <2>2. CASE m # 0
    <3>1. m \in 1 .. n /\ m - 1 \in 0 .. n /\ m - 1 \notin wrong
      BY <1>5, <2>2
    <3> QED
      BY <1>4, <1>5, <3>1
  <2> QED
    BY <2>1, <2>2
<1>6. wrong = {}
  <2>1. wrong \in SUBSET Nat
    OBVIOUS
  <2> HIDE DEF wrong
  <2> QED
    BY <1>5, <2>1, LeastNumber
<1>7. Right(n) /\ Half(s, n) = TableOf(s)
  BY <1>1, <1>6, HalfSteps
<1>8. AcceptedFile(u[n]) /\ TableOf(u[n]) = Restricted(TableOf(s), DOMAIN TableOf(s) \ others)
  BY <1>7 DEF Right, Without
<1> QED
  BY <1>2, <1>8

\* What is selected from a file are lines.
LEMMA SelectedType ==
    ASSUME NEW s \in Seq(FileLine), NEW I
    PROVE  Selected(s, I) \in Seq(FileLine)
<1> DEFINE n == Len(s)
<1>1. n \in Nat /\ \A m \in 1 .. n : s[m] \in FileLine
  OBVIOUS
<1>2. PICK u : /\ u[0] = <<>>
               /\ \A m \in 1 .. n : u[m] = IF m \in I THEN Append(u[m - 1], s[m]) ELSE u[m - 1]
               /\ Selected(s, I) = u[n]
  BY SelectedSteps
<1> DEFINE wrong == {m \in 0 .. n : u[m] \notin Seq(FileLine)}
<1> HIDE DEF n
<1>3. ASSUME NEW m \in wrong, \A j \in wrong : m <= j PROVE FALSE
  <2>1. CASE m = 0
    <3>1. <<>> \in Seq(FileLine) /\ u[0] \notin Seq(FileLine)
      BY <1>3, <2>1
    <3> QED
      BY <1>2, <3>1
  <2>2. CASE m # 0
    <3>1. m \in 1 .. n /\ m - 1 \in 0 .. n /\ m - 1 \notin wrong
      BY <1>1, <1>3, <2>2
    <3>2. Append(u[m - 1], s[m]) \in Seq(FileLine) /\ u[m - 1] \in Seq(FileLine)
      <4>1. u[m - 1] \in Seq(FileLine) /\ s[m] \in FileLine
        BY <1>1, <3>1
      <4> QED
        BY <4>1
    <3>3. u[m] \in Seq(FileLine)
      <4>1. u[m] = IF m \in I THEN Append(u[m - 1], s[m]) ELSE u[m - 1]
        BY <1>2, <3>1
      <4> QED
        BY <3>2, <4>1, Zenon
    <3> QED
      BY <1>3, <3>3
  <2> QED
    BY <2>1, <2>2
<1>4. wrong = {}
  <2>1. wrong \in SUBSET Nat
    BY <1>1
  <2> HIDE DEF wrong
  <2> QED
    BY <1>3, <2>1, LeastNumber
<1> QED
  BY <1>1, <1>2, <1>4

----------------------------------------------------------------------------
(* The invariant.                                                          *)

SplitTypeOK ==
    /\ \A f \in DOMAIN directory : directory[f] \in Seq(FileLine)
    /\ infiles \in Seq(FileName)
    /\ lines \in Seq(FileLine)
    /\ bad = PropertiesOf(lines)
    /\ written \subseteq bad /\ IsFiniteSet(written)

\* The files written for the current one are the outputs of the properties that have
\* got theirs, under the first numbers.
OutputFile(n) == OutputName(Head(infiles), n)

Filed ==
    pc = "write" =>
      /\ infiles # <<>>
      /\ \A n \in 0 .. num_prop - 1 :
            /\ OutputFile(n) \in DOMAIN directory
            /\ \E p \in written : directory[OutputFile(n)] = OutputLines(p)
      /\ \A p \in written : \E n \in 0 .. num_prop - 1 :
            directory[OutputFile(n)] = OutputLines(p)

SplitInv == SplitTypeOK /\ Filed

\* Numbers make different names.
LEMMA NamesDiffer ==
    ASSUME NEW f \in FileName, NEW m \in Nat, NEW n \in Nat, OutputName(f, m) = OutputName(f, n)
    PROVE  m = n
<1>1. f.parts \in Seq(Nat)
  BY DEF FileName
<1>2. OutputName(f, m).parts = Append(f.parts, m) /\ OutputName(f, n).parts = Append(f.parts, n)
  BY DEF OutputName, FileName
<1> DEFINE k == Len(f.parts) + 1
<1>3. Append(f.parts, m)[k] = m /\ Append(f.parts, n)[k] = n
  BY <1>1
<1> QED
  BY <1>2, <1>3

\* Writing a property's file keeps the others.
LEMMA WritingFiles ==
    ASSUME SplitInv, NEW p \in bad, WriteProperty(p) PROVE SplitInv'
<1> DEFINE head == Head(infiles)
           f == OutputName(head, num_prop)
<1>1. /\ pc = "write" /\ p \in bad /\ p \notin written
      /\ overwrite' = overwrite /\ infiles' = infiles /\ lines' = lines /\ bad' = bad
  BY DEF WriteProperty
<1>2. CASE Refused(f)
  <2>1. directory' = directory /\ written' = written /\ pc' = "error"
    BY <1>2 DEF WriteProperty
  <2> QED
    BY <1>1, <2>1 DEF SplitInv, SplitTypeOK, Filed, PropertiesOf
<1>3. CASE ~Refused(f)
  <2>1. /\ directory' = [g \in DOMAIN directory \cup {f} |->
                           IF g = f THEN OutputLines(p) ELSE directory[g]]
        /\ written' = written \cup {p} /\ pc' = pc
    BY <1>3 DEF WriteProperty
  <2>2. \A q : OutputLines(q)' = OutputLines(q)
    BY <1>1 DEF OutputLines
  <2>3. num_prop \in Nat /\ num_prop' = num_prop + 1 /\ IsFiniteSet(written')
    BY <1>1, <2>1, FS_AddElement, FS_CardinalityType DEF SplitInv, SplitTypeOK, num_prop
  <2>4. OutputLines(p) \in Seq(FileLine)
    BY SelectedType DEF OutputLines, SplitInv, SplitTypeOK
  <2>5. head \in FileName /\ infiles # <<>>
    BY <1>1 DEF SplitInv, SplitTypeOK, Filed
  <2>6. \A n \in 0 .. num_prop - 1 : OutputName(head, n) # f
    BY <2>3, <2>5, NamesDiffer
  <2>7. \A n : OutputFile(n)' = OutputName(head, n) /\ OutputFile(n) = OutputName(head, n)
    BY <1>1 DEF OutputFile
  <2> HIDE DEF f, head
  <2>8. /\ \A g \in DOMAIN directory : g # f => g \in DOMAIN directory' /\ directory'[g] = directory[g]
        /\ f \in DOMAIN directory' /\ directory'[f] = OutputLines(p)
        /\ \A g \in DOMAIN directory' : g = f \/ g \in DOMAIN directory
    BY <2>1
  <2>9. SplitTypeOK'
    <3>1. \A g \in DOMAIN directory' : directory'[g] \in Seq(FileLine)
      BY <2>4, <2>8 DEF SplitInv, SplitTypeOK
    <3>2. written' \subseteq bad' /\ bad' = PropertiesOf(lines')
      BY <1>1, <2>1 DEF SplitInv, SplitTypeOK, PropertiesOf
    <3> QED
      BY <1>1, <2>3, <3>1, <3>2 DEF SplitInv, SplitTypeOK
  <2>10. \A n \in 0 .. num_prop - 1 :
            /\ OutputName(head, n) \in DOMAIN directory
            /\ \E q \in written : directory[OutputName(head, n)] = OutputLines(q)
    BY <1>1, <2>7 DEF SplitInv, Filed
  <2>11. \A q \in written : \E n \in 0 .. num_prop - 1 :
            directory[OutputName(head, n)] = OutputLines(q)
    BY <1>1, <2>7 DEF SplitInv, Filed
  <2>12. \A n : n \in 0 .. num_prop' - 1 <=> n \in 0 .. num_prop - 1 \/ n = num_prop
    BY <2>3
  <2>13. \A n \in 0 .. num_prop' - 1 :
            /\ OutputName(head, n) \in DOMAIN directory'
            /\ \E q \in written' : directory'[OutputName(head, n)] = OutputLines(q)
    <3> TAKE n \in 0 .. num_prop' - 1
    <3>1. CASE n \in 0 .. num_prop - 1
      BY <2>1, <2>6, <2>8, <2>10, <3>1
    <3>2. CASE n = num_prop
      BY <2>1, <2>8, <3>2 DEF f
    <3> QED
      BY <2>12, <3>1, <3>2
  <2>14. \A q \in written' : \E n \in 0 .. num_prop' - 1 :
            directory'[OutputName(head, n)] = OutputLines(q)
    <3> TAKE q \in written'
    <3>1. CASE q \in written
      <4>1. PICK n \in 0 .. num_prop - 1 : directory[OutputName(head, n)] = OutputLines(q)
        BY <2>11, <3>1
      <4>2. directory'[OutputName(head, n)] = OutputLines(q)
        BY <2>6, <2>8, <2>10, <4>1
      <4> QED
        BY <2>12, <4>1, <4>2
    <3>2. CASE q = p
      <4>1. num_prop \in 0 .. num_prop' - 1 /\ directory'[OutputName(head, num_prop)] = OutputLines(q)
        BY <2>3, <2>8, <3>2 DEF f
      <4> QED
        BY <4>1
    <3> QED
      BY <2>1, <3>1, <3>2
  <2>15. Filed'
    BY <1>1, <2>2, <2>5, <2>7, <2>13, <2>14 DEF Filed
  <2> QED
    BY <2>9, <2>15 DEF SplitInv
<1> QED
  BY <1>2, <1>3

\* Spec => []SplitInv: names and contents of the files written for the current one.
THEOREM SplitInvariant == Spec => []SplitInv
<1>1. Init => SplitInv
  <2> SUFFICES ASSUME Init PROVE SplitInv
    OBVIOUS
  <2>1. \A f \in DOMAIN directory : directory[f] \in Seq(FileLine)
    BY DirectoriesAssumption DEF Init
  <2>2. infiles \in Seq(FileName) /\ lines \in Seq(FileLine)
    BY ArgumentsAssumption DEF Init
  <2>3. bad = PropertiesOf(lines) /\ written \subseteq bad /\ IsFiniteSet(written)
    BY FS_EmptySet DEF Init, PropertiesOf
  <2> QED
    BY <2>1, <2>2, <2>3 DEF Init, SplitInv, SplitTypeOK, Filed
<1>2. SplitInv /\ [Next]_vars => SplitInv'
  <2> SUFFICES ASSUME SplitInv, [Next]_vars PROVE SplitInv'
    OBVIOUS
  <2>1. CASE ReadFile
    <3>1. /\ infiles # <<>> /\ directory' = directory
          /\ lines' = Content(Head(infiles))
          /\ bad' = PropertiesOf(lines')
          /\ written' = {}
          /\ \/ infiles' = Tail(infiles) /\ pc' = "read"
             \/ infiles' = infiles /\ pc' \in {"write", "abort"}
      BY <2>1 DEF ReadFile, NextFile
    <3>2. lines' \in Seq(FileLine)
      BY <3>1 DEF Content, SplitInv, SplitTypeOK
    <3>3. infiles' \in Seq(FileName)
      BY <3>1 DEF SplitInv, SplitTypeOK
    <3>4. IsFiniteSet(written') /\ written' \subseteq bad'
      BY <3>1, FS_EmptySet
    <3>5. SplitTypeOK'
      <4>1. \A f \in DOMAIN directory' : directory'[f] \in Seq(FileLine)
        BY <3>1 DEF SplitInv, SplitTypeOK
      <4>2. bad' = PropertiesOf(lines)'
        BY <3>1 DEF PropertiesOf
      <4> QED
        BY <3>2, <3>3, <3>4, <4>1, <4>2 DEF SplitTypeOK
    <3>6. num_prop' = 0
      BY <3>1, FS_EmptySet DEF num_prop
    <3>7. Filed'
      <4>1. 0 .. num_prop' - 1 = {}
        BY <3>6
      <4> QED
        BY <3>1, <4>1 DEF Filed
    <3> QED
      BY <3>5, <3>7 DEF SplitInv
  <2>2. CASE \E p \in bad : WriteProperty(p)
    BY <2>2, WritingFiles
  <2>3. CASE FileSplit
    <3>1. /\ pc = "write" /\ infiles' = Tail(infiles) /\ pc' = "read"
          /\ directory' = directory /\ lines' = lines /\ bad' = bad /\ written' = written
      BY <2>3 DEF FileSplit, NextFile
    <3>2. infiles' \in Seq(FileName)
      BY <3>1 DEF SplitInv, SplitTypeOK, Filed
    <3> QED
      BY <3>1, <3>2 DEF SplitInv, SplitTypeOK, Filed, PropertiesOf
  <2>4. CASE Exit
    BY <2>4 DEF Exit, SplitInv, SplitTypeOK, Filed, PropertiesOf
  <2>5. CASE UNCHANGED vars
    BY <2>5 DEF vars, SplitInv, SplitTypeOK, Filed, PropertiesOf, OutputFile, OutputLines, num_prop
  <2> QED
    BY <2>1, <2>2, <2>3, <2>4, <2>5 DEF Next, Terminated
<1> QED
  BY <1>1, <1>2, PTL DEF Spec

\* Spec => []OutputsSound: for all files, properties in any order, and files that
\* are outputs of other ones.
THEOREM Outputs == Spec => []OutputsSound
<1>1. SplitInv => OutputsSound
  <2> SUFFICES ASSUME SplitInv, pc = "write", PlainModel(lines)
               PROVE  LET T == TableOf(lines)
                          output == [n \in 0 .. num_prop - 1 |->
                                       directory[OutputName(Head(infiles), n)]]
                          For(p) == Restricted(T, DOMAIN T \ {lines[q].stmt.id : q \in bad \ {p}})
                      IN  /\ \A n \in DOMAIN output : AcceptedFile(output[n])
                          /\ \A p \in written : \E n \in DOMAIN output :
                                TableOf(output[n]) = For(p)
    BY DEF OutputsSound
  <2> DEFINE T == TableOf(lines)
             For(p) == Restricted(T, DOMAIN T \ {lines[q].stmt.id : q \in bad \ {p}})
  <2>1. ASSUME NEW p \in written PROVE AcceptedFile(OutputLines(p)) /\ TableOf(OutputLines(p)) = For(p)
    <3>1. lines \in Seq(FileLine) /\ bad = PropertiesOf(lines) /\ p \in PropertiesOf(lines)
      BY DEF SplitInv, SplitTypeOK
    <3>2. OutputLines(p) = Selected(lines, {i \in DOMAIN lines : i \notin PropertiesOf(lines) \/ i = p})
      BY <3>1 DEF OutputLines
    <3> QED
      BY <3>1, <3>2, SelectionRight
  <2>2. \A n \in 0 .. num_prop - 1 :
           \E p \in written : directory[OutputName(Head(infiles), n)] = OutputLines(p)
    BY DEF SplitInv, Filed, OutputFile
  <2>3. \A p \in written : \E n \in 0 .. num_prop - 1 :
           directory[OutputName(Head(infiles), n)] = OutputLines(p)
    BY DEF SplitInv, Filed, OutputFile
  <2> HIDE DEF For, T
  <2>4. \A n \in 0 .. num_prop - 1 : AcceptedFile(directory[OutputName(Head(infiles), n)])
    BY <2>1, <2>2
  <2>5. \A p \in written : \E n \in 0 .. num_prop - 1 :
           TableOf(directory[OutputName(Head(infiles), n)]) = For(p)
    BY <2>1, <2>3
  <2> QED
    BY <2>4, <2>5 DEF For, T
<1> QED
  BY <1>1, SplitInvariant, PTL

=============================================================================
