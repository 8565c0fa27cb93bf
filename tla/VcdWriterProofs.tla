-------------------------- MODULE VcdWriterProofs --------------------------
(***************************************************************************)
(* Theorems on VcdWriter, for all lines, clocks, values and numbers of     *)
(* frames.                                                                 *)
(***************************************************************************)
EXTENDS VcdWriter, Btor2Lemmas, SequenceTheorems

----------------------------------------------------------------------------
(* Sequences with one more element in front or at the end.                 *)

LEMMA PrefixFacts ==
    ASSUME NEW x \in Nat, NEW s \in Seq(Nat)
    PROVE  /\ (<<x>> \o s)[1] = x
           /\ Len(<<x>> \o s) = Len(s) + 1
           /\ \A i \in 1 .. Len(s) : (<<x>> \o s)[i + 1] = s[i]
<1>1. <<x>> \in Seq(Nat) /\ Len(<<x>>) = 1 /\ <<x>>[1] = x /\ Len(s) \in Nat
  OBVIOUS
<1>2. /\ Len(<<x>> \o s) = 1 + Len(s)
      /\ \A i \in 1 .. 1 + Len(s) :
            (<<x>> \o s)[i] = IF i <= 1 THEN <<x>>[i] ELSE s[i - 1]
  BY <1>1, ConcatProperties
<1> QED
  BY <1>1, <1>2

LEMMA AppendFacts ==
    ASSUME NEW S, NEW s \in Seq(S), NEW e
    PROVE  /\ Len(s) \in Nat /\ DOMAIN s = 1 .. Len(s)
           /\ DOMAIN Append(s, e) = 1 .. Len(s) + 1
           /\ \A j \in 1 .. Len(s) : Append(s, e)[j] = s[j]
           /\ Append(s, e)[Len(s) + 1] = e
OBVIOUS

----------------------------------------------------------------------------
(* Identifiers.                                                            *)

DigitsStep(g, n) == IF n < IdChars THEN <<n>> ELSE <<n % IdChars>> \o g[n \div IdChars]

DigitsUpTo(g, n) == \A i \in 0 .. n : g[i] = DigitsStep(g, i)

\* All digits but the lowest one make a smaller number, and determine it together
\* with that.
LEMMA Quotients ==
    ASSUME NEW n \in Nat, n >= IdChars
    PROVE  /\ n \div IdChars \in Nat /\ n \div IdChars < n
           /\ n % IdChars \in Nat
<1>1. IdChars \in Nat /\ IdChars > 1
  BY CharsAssumption
<1> QED
  BY <1>1

LEMMA Quotient ==
    ASSUME NEW n \in Nat PROVE n = IdChars * (n \div IdChars) + (n % IdChars)
<1>1. IdChars \in Nat /\ IdChars > 1
  BY CharsAssumption
<1> QED
  BY <1>1

LEMMA DigitsDepend ==
    ASSUME NEW g, NEW h, NEW n \in Nat, \A j \in Nat : j < n => g[j] = h[j]
    PROVE  DigitsStep(g, n) = DigitsStep(h, n)
<1>1. IdChars \in Nat
  BY CharsAssumption
<1> QED
  BY <1>1, Quotients DEF DigitsStep

LEMMA DigitsOnce ==
    ASSUME NEW g, NEW h, NEW n \in Nat, DigitsUpTo(g, n), DigitsUpTo(h, n)
    PROVE  \A i \in 0 .. n : g[i] = h[i]
<1> DEFINE bad == {i \in 0 .. n : g[i] # h[i]}
<1>1. ASSUME bad # {} PROVE FALSE
  <2>1. PICK i \in bad : \A j \in bad : i <= j
    <3>1. bad \in SUBSET Nat
      OBVIOUS
    <3> HIDE DEF bad
    <3> QED
      BY <1>1, <3>1, LeastNumber
  <2>2. i \in Nat /\ \A j \in Nat : j < i => g[j] = h[j]
    BY <2>1
  <2>3. DigitsStep(g, i) = DigitsStep(h, i)
    BY <2>2, DigitsDepend
  <2> QED
    BY <2>1, <2>3 DEF DigitsUpTo
<1> QED
  BY <1>1

LEMMA DigitsSomewhere == \A n \in Nat : \E g : DigitsUpTo(g, n)
<1> DEFINE bad == {n \in Nat : ~\E g : DigitsUpTo(g, n)}
<1>1. ASSUME bad # {} PROVE FALSE
  <2>1. PICK n \in bad : \A j \in bad : n <= j
    <3>1. bad \in SUBSET Nat
      OBVIOUS
    <3> HIDE DEF bad
    <3> QED
      BY <1>1, <3>1, LeastNumber
  <2>2. \E g : \A i \in Nat : i < n => g[i] = DigitsStep(g, i)
    <3>1. CASE n = 0
      BY <3>1
    <3>2. CASE n # 0
      <4>1. n - 1 \in Nat /\ ~(n <= n - 1)
        BY <2>1, <3>2
      <4>2. PICK g : DigitsUpTo(g, n - 1)
        BY <2>1, <4>1
      <4> QED
        BY <2>1, <4>2 DEF DigitsUpTo
    <3> QED
      BY <3>1, <3>2
  <2>3. PICK g : \A i \in Nat : i < n => g[i] = DigitsStep(g, i)
    BY <2>2
  <2> DEFINE h == [i \in 0 .. n |-> IF i = n THEN DigitsStep(g, n) ELSE g[i]]
  <2>4. ASSUME NEW i \in 0 .. n PROVE h[i] = DigitsStep(h, i)
    <3>1. i \in Nat /\ \A j \in Nat : j < i => g[j] = h[j]
      BY <2>1
    <3>2. DigitsStep(g, i) = DigitsStep(h, i)
      <4> HIDE DEF h
      <4> QED
        BY <3>1, DigitsDepend
    <3>3. h[i] = DigitsStep(g, i)
      BY <2>1, <2>3
    <3> QED
      BY <3>2, <3>3
  <2>5. DigitsUpTo(h, n)
    <3> HIDE DEF h
    <3> QED
      BY <2>4 DEF DigitsUpTo
  <2> QED
    BY <2>1, <2>5
<1> QED
  BY <1>1

\* The function in Identifier satisfies its equation.
LEMMA DigitsOf ==
    ASSUME NEW id \in Nat
    PROVE  \E f : DigitsUpTo(f, id) /\ Identifier(id) = f[id]
<1> DEFINE F(g) == [n \in 0 .. id |-> DigitsStep(g, n)]
<1>1. PICK g : DigitsUpTo(g, id)
  BY DigitsSomewhere
<1> DEFINE h == [n \in 0 .. id |-> g[n]]
<1>2. ASSUME NEW n \in 0 .. id PROVE h[n] = DigitsStep(h, n)
  <2>1. n \in Nat /\ \A j \in Nat : j < n => g[j] = h[j]
    OBVIOUS
  <2>2. DigitsStep(g, n) = DigitsStep(h, n)
    <3> HIDE DEF h
    <3> QED
      BY <2>1, DigitsDepend
  <2> QED
    BY <1>1, <2>2 DEF DigitsUpTo
<1>3. h = F(h)
  <2>1. h = [n \in 0 .. id |-> h[n]]
    OBVIOUS
  <2> HIDE DEF h
  <2> QED
    BY <1>2, <2>1
<1> DEFINE f == CHOOSE g2 : g2 = F(g2)
<1>4. f = F(f)
  BY <1>3
<1>5. Identifier(id) = f[id]
  BY DEF Identifier, DigitsStep
<1> HIDE DEF f
<1>6. DigitsUpTo(f, id)
  BY <1>4 DEF DigitsUpTo
<1> QED
  BY <1>5, <1>6

\* What generate_next_identifier makes of a number.
LEMMA IdentifierStep ==
    ASSUME NEW id \in Nat
    PROVE  Identifier(id) = IF id < IdChars THEN <<id>>
                            ELSE <<id % IdChars>> \o Identifier(id \div IdChars)
<1>1. PICK f : DigitsUpTo(f, id) /\ Identifier(id) = f[id]
  BY DigitsOf
<1>0. f[id] = DigitsStep(f, id)
  BY <1>1 DEF DigitsUpTo
<1>2. CASE id < IdChars
  BY <1>0, <1>1, <1>2 DEF DigitsStep
<1>3. CASE ~(id < IdChars)
  <2>1. IdChars \in Nat
    BY CharsAssumption
  <2> DEFINE q == id \div IdChars
  <2>2. q \in Nat /\ q < id
    BY <1>3, <2>1, Quotients
  <2> HIDE DEF q
  <2>3. PICK g : DigitsUpTo(g, q) /\ Identifier(q) = g[q]
    BY <2>2, DigitsOf
  <2>4. DigitsUpTo(f, q)
    BY <1>1, <2>2 DEF DigitsUpTo
  <2>5. f[q] = Identifier(q)
    BY <2>2, <2>3, <2>4, DigitsOnce
  <2> QED
    BY <1>0, <1>1, <1>3, <2>5 DEF DigitsStep, q
<1> QED
  BY <1>2, <1>3

LEMMA IdentifierType == \A n \in Nat : Identifier(n) \in Seq(Nat) /\ Len(Identifier(n)) > 0
<1> DEFINE good(n) == Identifier(n) \in Seq(Nat) /\ Len(Identifier(n)) > 0
           bad == {n \in Nat : ~good(n)}
<1>1. ASSUME bad # {} PROVE FALSE
  <2>1. PICK n \in bad : \A j \in bad : n <= j
    <3>1. bad \in SUBSET Nat
      OBVIOUS
    <3> HIDE DEF bad
    <3> QED
      BY <1>1, <3>1, LeastNumber
  <2>0. n \in Nat /\ ~good(n) /\ \A j \in Nat : j < n => good(j)
    BY <2>1
  <2>2. CASE n < IdChars
    <3>1. Identifier(n) = <<n>>
      BY <2>0, <2>2, IdentifierStep
    <3>2. good(n)
      BY <2>0, <3>1
    <3> QED
      BY <2>0, <3>2
  <2> HIDE DEF bad
  <2>3. CASE ~(n < IdChars)
    <3> DEFINE q == n \div IdChars
               r == n % IdChars
    <3>0. n >= IdChars
      BY <2>0, <2>3, CharsAssumption
    <3>1. q \in Nat /\ q < n /\ r \in Nat
      BY <2>0, <3>0, Quotients
    <3>2. good(q)
      <4> HIDE DEF q, good
      <4> QED
        BY <2>0, <3>1
    <3>3. Identifier(n) = <<r>> \o Identifier(q)
      BY <2>0, <2>3, IdentifierStep
    <3> HIDE DEF q, r
    <3>4. good(n)
      BY <3>1, <3>2, <3>3
    <3> QED
      BY <2>0, <3>4
  <2> QED
    BY <2>2, <2>3
<1> QED
  BY <1>1

\* Different numbers have different digits.
LEMMA IdentifierUnique ==
    \A m, n \in Nat : Identifier(m) = Identifier(n) => m = n
<1> DEFINE bad == {m \in Nat : \E n \in Nat : Identifier(m) = Identifier(n) /\ m # n}
<1>1. ASSUME bad # {} PROVE FALSE
  <2>1. PICK m \in bad : \A j \in bad : m <= j
    <3>1. bad \in SUBSET Nat
      OBVIOUS
    <3> HIDE DEF bad
    <3> QED
      BY <1>1, <3>1, LeastNumber
  <2>2. PICK n \in Nat : Identifier(m) = Identifier(n) /\ m # n
    BY <2>1
  <2>3. m \in Nat /\ n \in bad /\ m < n
    BY <2>1, <2>2
  <2> DEFINE p == m \div IdChars
             q == n \div IdChars
  <2>4. CASE n < IdChars
    <3>0. m < IdChars /\ m \in Nat /\ n \in Nat
      BY <2>2, <2>3, <2>4, CharsAssumption
    <3>1. Identifier(m) = <<m>> /\ Identifier(n) = <<n>>
      BY <2>4, <3>0, IdentifierStep
    <3>2. <<m>>[1] = <<n>>[1]
      BY <2>2, <3>1
    <3> QED
      BY <2>2, <3>2
  <2>5. CASE ~(n < IdChars)
    <3>1. Identifier(n) = <<n % IdChars>> \o Identifier(q) /\ q \in Nat /\ n % IdChars \in Nat
      BY <2>3, <2>5, CharsAssumption, Quotients, IdentifierStep
    <3>2. Identifier(q) \in Seq(Nat) /\ Len(Identifier(q)) > 0
      BY <3>1, IdentifierType
    <3>3. Len(Identifier(n)) > 1 /\ Identifier(n)[1] = n % IdChars
      <4> HIDE DEF q
      <4> QED
        BY <3>1, <3>2
    <3>4. CASE m < IdChars
      <4>1. Identifier(m) = <<m>>
        BY <2>3, <3>4, IdentifierStep
      <4> QED
        BY <2>2, <3>3, <4>1
    <3>5. CASE ~(m < IdChars)
      <4>1. Identifier(m) = <<m % IdChars>> \o Identifier(p) /\ p \in Nat /\ p < m
            /\ m % IdChars \in Nat
        BY <2>3, <3>5, CharsAssumption, Quotients, IdentifierStep
      <4>2. Identifier(p) \in Seq(Nat)
        BY <4>1, IdentifierType
      <4>3. m % IdChars = n % IdChars /\ Identifier(p) = Identifier(q)
        <5> DEFINE x == m % IdChars
                   y == n % IdChars
        <5>1. x \in Nat /\ y \in Nat
          BY <3>1, <4>1
        <5> HIDE DEF p, q, x, y
        <5>2. \A s, u \in Seq(Nat) : <<x>> \o s = <<y>> \o u => x = y /\ s = u
          <6>1. SUFFICES ASSUME NEW s \in Seq(Nat), NEW u \in Seq(Nat), <<x>> \o s = <<y>> \o u
                         PROVE  x = y /\ s = u
            OBVIOUS
          <6> DEFINE a == <<x>> \o s
                     b == <<y>> \o u
          <6>2. /\ a[1] = x /\ b[1] = y
                /\ Len(a) = Len(s) + 1 /\ Len(b) = Len(u) + 1
                /\ \A i \in 1 .. Len(s) : a[i + 1] = s[i]
                /\ \A i \in 1 .. Len(u) : b[i + 1] = u[i]
            BY <5>1, PrefixFacts
          <6>0. a = b
            BY <6>1
          <6> HIDE DEF a, b
          <6>3. Len(s) \in Nat /\ Len(u) \in Nat
            OBVIOUS
          <6>4. x = y /\ Len(s) = Len(u)
            BY <6>0, <6>2, <6>3
          <6>5. \A i \in 1 .. Len(s) : s[i] = u[i]
            BY <6>0, <6>2, <6>4
          <6> QED
            BY <6>4, <6>5
        <5> QED
          BY <2>2, <3>1, <3>2, <4>1, <4>2, <5>2 DEF x, y
      <4>4. p = q
        <5> HIDE DEF p, q
        <5>1. ~(m <= p)
          BY <2>3, <4>1
        <5> QED
          BY <2>1, <3>1, <4>1, <4>3, <5>1
      <4>5. m = n
        BY <2>3, <4>3, <4>4, Quotient
      <4> QED
        BY <2>2, <4>5
    <3> QED
      BY <3>4, <3>5
  <2> QED
    BY <2>4, <2>5
<1> QED
  BY <1>1

----------------------------------------------------------------------------
(* The log.                                                                *)

\* What signals may show.
Shownable == {0, 1} \cup VectorValues
                \cup UNION {{m.data[i] : i \in DOMAIN m.data} : m \in ArrayValues}

Change == [ident : Seq(Nat), value : Shownable]
Entry  == [time : Nat, changes : Seq(Change)]

Formed(w) ==
    /\ w = [step |-> w.step, identifiers |-> w.identifiers, log |-> w.log]
    /\ w.step \in Int
    /\ w.log \in Seq(Entry)
    /\ w.identifiers = [p \in DOMAIN w.identifiers |-> w.identifiers[p]]
    /\ \A p \in DOMAIN w.identifiers : w.identifiers[p] \in Seq(Nat)

\* Identifiers are taken in the order of their numbers, each by one signal.
NumberedOnce(ids) ==
    /\ IsFiniteSet(DOMAIN ids)
    /\ \A p \in DOMAIN ids : \E n \in 0 .. Cardinality(DOMAIN ids) - 1 : ids[p] = Identifier(n)
    /\ \A p, q \in DOMAIN ids : ids[p] = ids[q] => p = q
Numbered(w) == NumberedOnce(w.identifiers)

\* Changes are of signals that have an identifier.
Known(w) ==
    \A n \in DOMAIN w.log : \A m \in DOMAIN w.log[n].changes :
        \E p \in DOMAIN w.identifiers : w.log[n].changes[m].ident = w.identifiers[p]

TimesInOrder(w) == \A m, n \in DOMAIN w.log : m < n => w.log[m].time < w.log[n].time

Good(w) == Formed(w) /\ Numbered(w) /\ Known(w) /\ TimesInOrder(w)

\* A signal keeps its identifier, or gets one that no other has.
LEMMA IdentifiedFacts ==
    ASSUME NEW w, Formed(w), Numbered(w), NEW key
    PROVE  LET u == Identified(w, key)
           IN  /\ Formed(u) /\ Numbered(u)
               /\ u.step = w.step /\ u.log = w.log
               /\ DOMAIN u.identifiers = DOMAIN w.identifiers \cup {key}
               /\ \A p \in DOMAIN w.identifiers : u.identifiers[p] = w.identifiers[p]
<1> DEFINE u == Identified(w, key)
           S == DOMAIN w.identifiers
           n == Cardinality(S)
<1>1. CASE key \in S
  BY <1>1 DEF Identified
<1>2. CASE key \notin S
  <2>1. IsFiniteSet(S) /\ n \in Nat
    BY FS_CardinalityType DEF Numbered, NumberedOnce
  <2>2. u = [w EXCEPT !.identifiers = With(@, key, Identifier(n))]
    BY <1>2 DEF Identified
  <2>3. /\ u = [step |-> w.step, identifiers |-> With(w.identifiers, key, Identifier(n)),
                log |-> w.log]
    BY <2>2 DEF Formed
  <2>4. /\ u.step = w.step /\ u.log = w.log
        /\ u.identifiers = With(w.identifiers, key, Identifier(n))
        /\ u = [step |-> u.step, identifiers |-> u.identifiers, log |-> u.log]
    BY <2>3
  <2> HIDE DEF u, n
  <2>5. /\ DOMAIN u.identifiers = S \cup {key}
        /\ \A p \in S : u.identifiers[p] = w.identifiers[p]
        /\ u.identifiers[key] = Identifier(n)
        /\ u.identifiers = [p \in DOMAIN u.identifiers |-> u.identifiers[p]]
    BY <1>2, <2>4 DEF With
  <2>6. Formed(u)
    BY <2>1, <2>4, <2>5, IdentifierType DEF Formed
  <2>7. IsFiniteSet(S \cup {key}) /\ Cardinality(S \cup {key}) = n + 1
    BY <1>2, <2>1, FS_AddElement DEF n
  <2>8. \A p \in S : \E m \in 0 .. n - 1 : w.identifiers[p] = Identifier(m)
    BY DEF Numbered, NumberedOnce, n
  <2>9. \A p \in S : w.identifiers[p] # Identifier(n)
    <3> SUFFICES ASSUME NEW p \in S, w.identifiers[p] = Identifier(n) PROVE FALSE
      OBVIOUS
    <3>1. PICK m \in 0 .. n - 1 : w.identifiers[p] = Identifier(m)
      BY <2>8
    <3>2. m \in Nat /\ m # n
      BY <2>1
    <3> QED
      BY <2>1, <3>1, <3>2, IdentifierUnique
  <2>10. \A p \in DOMAIN u.identifiers : \E m \in 0 .. n : u.identifiers[p] = Identifier(m)
    <3>1. n \in 0 .. n /\ \A m \in 0 .. n - 1 : m \in 0 .. n
      BY <2>1
    <3> QED
      BY <2>5, <2>8, <3>1
  <2>11. \A p, q \in DOMAIN u.identifiers : u.identifiers[p] = u.identifiers[q] => p = q
    BY <2>5, <2>9 DEF Numbered, NumberedOnce
  <2>12. Numbered(u)
    <3>1. Cardinality(DOMAIN u.identifiers) - 1 = n
      BY <2>1, <2>5, <2>7
    <3> QED
      BY <2>5, <2>7, <2>10, <2>11, <3>1 DEF Numbered, NumberedOnce
  <2> QED
    BY <2>4, <2>5, <2>6, <2>12 DEF u
<1> QED
  BY <1>1, <1>2

\* A change is the last one of the log.
LEMMA ChangedLog ==
    ASSUME NEW w, Formed(w), Numbered(w), w.log # <<>>, NEW key, NEW x \in Shownable
    PROVE  LET u == Changed(w, key, x)
               l == Len(w.log)
           IN  /\ Formed(u) /\ Numbered(u)
               /\ u.step = w.step
               /\ l \in Nat \ {0} /\ DOMAIN w.log = 1 .. l /\ DOMAIN u.log = 1 .. l
               /\ Len(u.log) = l
               /\ \A n \in 1 .. l : u.log[n].time = w.log[n].time /\ w.log[n].time \in Nat
               /\ \A n \in 1 .. l : n # l => u.log[n] = w.log[n]
               /\ key \in DOMAIN u.identifiers
               /\ u.log[l].changes =
                    Append(w.log[l].changes, [ident |-> u.identifiers[key], value |-> x])
               /\ w.log[l].changes \in Seq(Change)
               /\ DOMAIN u.identifiers = DOMAIN w.identifiers \cup {key}
               /\ \A p \in DOMAIN w.identifiers : u.identifiers[p] = w.identifiers[p]
<1> DEFINE v == Identified(w, key)
           u == Changed(w, key, x)
           l == Len(w.log)
           c == [ident |-> v.identifiers[key], value |-> x]
           e == [w.log[l] EXCEPT !.changes = Append(@, c)]
<1>1. /\ Formed(v) /\ Numbered(v)
      /\ v.step = w.step /\ v.log = w.log
      /\ DOMAIN v.identifiers = DOMAIN w.identifiers \cup {key}
      /\ \A p \in DOMAIN w.identifiers : v.identifiers[p] = w.identifiers[p]
  BY IdentifiedFacts
<1>2. u = [v EXCEPT !.log[l].changes = Append(@, c)]
  BY DEF Changed
<1> HIDE DEF v
<1>3. w.log \in Seq(Entry) /\ l \in Nat \ {0} /\ DOMAIN w.log = 1 .. l
  BY DEF Formed
<1>4. c \in Change
  BY <1>1 DEF Formed, Change
<1>5. w.log[l] \in Entry /\ \A n \in 1 .. l : w.log[n] \in Entry
  BY <1>3
<1>6. e = [time |-> w.log[l].time, changes |-> Append(w.log[l].changes, c)]
      /\ e \in Entry
  <2>1. w.log[l].changes \in Seq(Change)
    BY <1>5 DEF Entry
  <2> HIDE DEF c
  <2>2. Append(w.log[l].changes, c) \in Seq(Change)
    BY <1>4, <2>1
  <2>3. w.log[l] = [time |-> w.log[l].time, changes |-> w.log[l].changes]
        /\ w.log[l].time \in Nat
    BY <1>5 DEF Entry
  <2>4. e = [time |-> w.log[l].time, changes |-> Append(w.log[l].changes, c)]
    <3> DEFINE r == w.log[l]
    <3>1. r = [time |-> r.time, changes |-> r.changes]
      BY <2>3
    <3> HIDE DEF r
    <3>2. [r EXCEPT !.changes = Append(@, c)] = [time |-> r.time, changes |-> Append(r.changes, c)]
      BY <3>1
    <3> QED
      BY <3>2 DEF r
  <2> HIDE DEF e
  <2> QED
    BY <2>2, <2>3, <2>4 DEF Entry
<1>7. u = [step |-> v.step, identifiers |-> v.identifiers, log |-> [w.log EXCEPT ![l] = e]]
  BY <1>1, <1>2 DEF Formed
<1>8. /\ u.step = w.step /\ u.identifiers = v.identifiers
      /\ u.log = [w.log EXCEPT ![l] = e]
      /\ u = [step |-> u.step, identifiers |-> u.identifiers, log |-> u.log]
  BY <1>1, <1>7
<1> HIDE DEF u, e
<1>9. u.log \in Seq(Entry) /\ Len(u.log) = l /\ DOMAIN u.log = 1 .. l
      /\ u.log[l] = e /\ \A n \in 1 .. l : n # l => u.log[n] = w.log[n]
  BY <1>3, <1>6, <1>8
<1>10. Formed(u)
  BY <1>1, <1>8, <1>9 DEF Formed
<1>11. Numbered(u)
  <2>1. u.identifiers = v.identifiers
    BY <1>8
  <2> QED
    BY <1>1, <2>1 DEF Numbered
<1>12. \A n \in 1 .. l : u.log[n].time = w.log[n].time /\ w.log[n].time \in Nat
  <2>1. u.log[l].time = w.log[l].time
    BY <1>6, <1>9
  <2>2. \A n \in 1 .. l : w.log[n].time \in Nat
    BY <1>5 DEF Entry
  <2> QED
    BY <1>9, <2>1, <2>2
<1>13. u.log[l].changes = Append(w.log[l].changes, c) /\ w.log[l].changes \in Seq(Change)
  <2>1. u.log[l] = e
    BY <1>9
  <2>2. e.changes = Append(w.log[l].changes, c)
    BY <1>6
  <2>3. w.log[l].changes \in Seq(Change)
    BY <1>5 DEF Entry
  <2> QED
    BY <2>1, <2>2, <2>3
<1> QED
  BY <1>1, <1>3, <1>8, <1>9, <1>10, <1>11, <1>12, <1>13 DEF u

----------------------------------------------------------------------------
(* What a viewer shows.                                                    *)

\* The m-th change of the n-th step is of the signal p, and not after the time t.
Hit(w, p, t, n, m) ==
    /\ p \in DOMAIN w.identifiers
    /\ w.log[n].changes[m].ident = w.identifiers[p]
    /\ w.log[n].time <= t

\* The last one is to x.
Shows(w, p, t, x) ==
    \E n \in DOMAIN w.log : \E m \in DOMAIN w.log[n].changes :
        /\ Hit(w, p, t, n, m)
        /\ w.log[n].changes[m].value = x
        /\ \A i \in DOMAIN w.log : \A j \in DOMAIN w.log[i].changes :
              Hit(w, p, t, i, j) => i < n \/ (i = n /\ j <= m)

\* That is what Shown finds.
LEMMA ShowsShown ==
    ASSUME Formed(writer), NEW p, NEW t, NEW x, Shows(writer, p, t, x)
    PROVE  Shown(p, t) = x
<1> DEFINE before == {c \in ChangesOf(p) : Log[c[1]].time <= t}
           Latest(c) == \A d \in before : d[1] < c[1] \/ (d[1] = c[1] /\ d[2] <= c[2])
           last == CHOOSE c \in before : Latest(c)
<1>0. PICK n \in DOMAIN Log :
        \E m \in DOMAIN Log[n].changes :
           /\ Hit(writer, p, t, n, m)
           /\ Log[n].changes[m].value = x
           /\ \A i \in DOMAIN Log : \A j \in DOMAIN Log[i].changes :
                 Hit(writer, p, t, i, j) => i < n \/ (i = n /\ j <= m)
  BY DEF Shows, Log
<1>1. PICK m \in DOMAIN Log[n].changes :
        /\ Hit(writer, p, t, n, m)
        /\ Log[n].changes[m].value = x
        /\ \A i \in DOMAIN Log : \A j \in DOMAIN Log[i].changes :
              Hit(writer, p, t, i, j) => i < n \/ (i = n /\ j <= m)
  BY <1>0
<1>2. \A c : c \in before <=>
               \E i \in DOMAIN Log : \E j \in DOMAIN Log[i].changes :
                  c = <<i, j>> /\ Hit(writer, p, t, i, j)
  BY DEF ChangesOf, Hit, Log
<1>3. \A i \in DOMAIN Log : i \in Nat /\ \A j \in DOMAIN Log[i].changes : j \in Nat
  <2>1. Log \in Seq(Entry)
    BY DEF Formed, Log
  <2>2. \A i \in DOMAIN Log : i \in Nat /\ Log[i] \in Entry
    BY <2>1
  <2> QED
    BY <2>2 DEF Entry
<1> HIDE DEF before
<1>4. <<n, m>> \in before /\ Latest(<<n, m>>)
  BY <1>1, <1>2
<1>5. \A c \in before : Latest(c) => c = <<n, m>>
  BY <1>1, <1>2, <1>3, <1>4
<1>6. last = <<n, m>>
  BY <1>4, <1>5
<1>7. Shown(p, t) = IF before = {} THEN None ELSE Log[last[1]].changes[last[2]].value
  BY DEF Shown, before
<1> HIDE DEF last
<1> QED
  BY <1>1, <1>4, <1>6, <1>7

LastTime(w) == w.log[Len(w.log)].time

\* u is w with the changes c, made in the last step of the log.
Extends(w, u, c) ==
    /\ Good(u) /\ u.step = w.step
    /\ u.log # <<>> /\ Len(u.log) = Len(w.log)
    /\ \A n \in DOMAIN w.log : u.log[n].time = w.log[n].time
    /\ \A n \in DOMAIN c : \A t \in Int : LastTime(w) <= t => Shows(u, c[n][1], t, c[n][2])
    /\ \A p, y : \A t \in Int :
          Shows(w, p, t, y) /\ (LastTime(w) <= t => \A n \in DOMAIN c : c[n][1] = p => c[n][2] = y)
          => Shows(u, p, t, y)

\* A change is shown from the last time stamp on, and nothing else is different.
LEMMA ChangedFacts ==
    ASSUME NEW w, Good(w), w.log # <<>>, NEW key, NEW x \in Shownable
    PROVE  Extends(w, Changed(w, key, x), <<<<key, x>>>>)
<1> DEFINE u == Changed(w, key, x)
           l == Len(w.log)
           L == Len(w.log[l].changes)
<1>0. Formed(w) /\ Numbered(w) /\ Known(w) /\ TimesInOrder(w)
  BY DEF Good
<1>1. /\ Formed(u) /\ Numbered(u)
      /\ u.step = w.step
      /\ l \in Nat \ {0} /\ DOMAIN w.log = 1 .. l /\ DOMAIN u.log = 1 .. l
      /\ Len(u.log) = l
      /\ \A n \in 1 .. l : u.log[n].time = w.log[n].time /\ w.log[n].time \in Nat
      /\ \A n \in 1 .. l : n # l => u.log[n] = w.log[n]
      /\ key \in DOMAIN u.identifiers
      /\ u.log[l].changes = Append(w.log[l].changes, [ident |-> u.identifiers[key], value |-> x])
      /\ w.log[l].changes \in Seq(Change)
      /\ DOMAIN u.identifiers = DOMAIN w.identifiers \cup {key}
      /\ \A p \in DOMAIN w.identifiers : u.identifiers[p] = w.identifiers[p]
  BY <1>0, ChangedLog
<1> HIDE DEF u
<1>2. /\ L \in Nat /\ l \in DOMAIN w.log
      /\ DOMAIN w.log[l].changes = 1 .. L /\ DOMAIN u.log[l].changes = 1 .. L + 1
      /\ \A j \in 1 .. L : u.log[l].changes[j] = w.log[l].changes[j]
      /\ u.log[l].changes[L + 1] = [ident |-> u.identifiers[key], value |-> x]
  <2> DEFINE s == w.log[l].changes
             c == [ident |-> u.identifiers[key], value |-> x]
  <2>1. s \in Seq(Change) /\ u.log[l].changes = Append(s, c) /\ l \in DOMAIN w.log
    BY <1>1
  <2> HIDE DEF l, s, c
  <2>2. /\ Len(s) \in Nat /\ DOMAIN s = 1 .. Len(s)
        /\ DOMAIN Append(s, c) = 1 .. Len(s) + 1
        /\ \A j \in 1 .. Len(s) : Append(s, c)[j] = s[j]
        /\ Append(s, c)[Len(s) + 1] = c
    BY <2>1, AppendFacts
  <2> QED
    BY <2>1, <2>2 DEF s, c
<1> HIDE DEF l, L
<1>3. \A i \in DOMAIN w.log : \A j \in DOMAIN w.log[i].changes :
         /\ i \in DOMAIN u.log /\ j \in DOMAIN u.log[i].changes
         /\ u.log[i].changes[j] = w.log[i].changes[j]
  <2> SUFFICES ASSUME NEW i \in DOMAIN w.log, NEW j \in DOMAIN w.log[i].changes
               PROVE  /\ i \in DOMAIN u.log /\ j \in DOMAIN u.log[i].changes
                      /\ u.log[i].changes[j] = w.log[i].changes[j]
    OBVIOUS
  <2>0. i \in 1 .. l /\ i \in DOMAIN u.log
    BY <1>1 DEF l
  <2>1. CASE i = l
    <3>1. j \in 1 .. L /\ j \in 1 .. L + 1
      BY <1>2, <2>1
    <3> QED
      BY <1>2, <2>0, <2>1, <3>1
  <2>2. CASE i # l
    <3>1. u.log[i] = w.log[i]
      BY <1>1, <2>0, <2>2 DEF l
    <3> QED
      BY <2>0, <3>1
  <2> QED
    BY <2>1, <2>2
<1>4. \A i \in DOMAIN u.log : \A j \in DOMAIN u.log[i].changes :
         \/ i \in DOMAIN w.log /\ j \in DOMAIN w.log[i].changes
         \/ i = l /\ j = L + 1
  BY <1>1, <1>2
<1>5. ASSUME NEW p \in DOMAIN w.identifiers, NEW t,
             NEW i \in DOMAIN w.log, NEW j \in DOMAIN w.log[i].changes
      PROVE  Hit(u, p, t, i, j) <=> Hit(w, p, t, i, j)
  BY <1>1, <1>3, <1>5 DEF Hit
<1>6. Known(u)
  <2> SUFFICES ASSUME NEW i \in DOMAIN u.log, NEW j \in DOMAIN u.log[i].changes
               PROVE  \E p \in DOMAIN u.identifiers : u.log[i].changes[j].ident = u.identifiers[p]
    BY DEF Known
  <2>1. CASE i = l /\ j = L + 1
    BY <1>1, <1>2, <2>1
  <2>2. CASE i \in DOMAIN w.log /\ j \in DOMAIN w.log[i].changes
    <3>1. PICK p \in DOMAIN w.identifiers : w.log[i].changes[j].ident = w.identifiers[p]
      BY <1>0, <2>2 DEF Known
    <3> QED
      BY <1>1, <1>3, <2>2, <3>1
  <2> QED
    BY <1>4, <2>1, <2>2
<1>7. TimesInOrder(u)
  BY <1>0, <1>1 DEF TimesInOrder
<1>8. Good(u)
  BY <1>1, <1>6, <1>7 DEF Good
<1>9. LastTime(w) = w.log[l].time /\ LastTime(w) \in Nat /\ u.log[l].time = LastTime(w)
  BY <1>1, <1>2 DEF LastTime, l
<1>10. ASSUME NEW t \in Int, LastTime(w) <= t PROVE Shows(u, key, t, x)
  <2>1. l \in DOMAIN u.log /\ L + 1 \in DOMAIN u.log[l].changes
    BY <1>1, <1>2
  <2>2. Hit(u, key, t, l, L + 1) /\ u.log[l].changes[L + 1].value = x
    BY <1>1, <1>2, <1>9, <1>10 DEF Hit
  <2>3. \A i \in DOMAIN u.log : \A j \in DOMAIN u.log[i].changes : i < l \/ (i = l /\ j <= L + 1)
    BY <1>1, <1>2
  <2> QED
    BY <2>1, <2>2, <2>3 DEF Shows
<1>11. ASSUME NEW p, NEW y, NEW t \in Int, Shows(w, p, t, y), p # key \/ ~(LastTime(w) <= t)
       PROVE  Shows(u, p, t, y)
  <2>1. PICK n \in DOMAIN w.log : \E m \in DOMAIN w.log[n].changes :
          /\ Hit(w, p, t, n, m)
          /\ w.log[n].changes[m].value = y
          /\ \A i \in DOMAIN w.log : \A j \in DOMAIN w.log[i].changes :
                Hit(w, p, t, i, j) => i < n \/ (i = n /\ j <= m)
    BY <1>11 DEF Shows
  <2>2. PICK m \in DOMAIN w.log[n].changes :
          /\ Hit(w, p, t, n, m)
          /\ w.log[n].changes[m].value = y
          /\ \A i \in DOMAIN w.log : \A j \in DOMAIN w.log[i].changes :
                Hit(w, p, t, i, j) => i < n \/ (i = n /\ j <= m)
    BY <2>1
  <2>3. p \in DOMAIN w.identifiers
    BY <2>2 DEF Hit
  <2>4. /\ n \in DOMAIN u.log /\ m \in DOMAIN u.log[n].changes
        /\ Hit(u, p, t, n, m) /\ u.log[n].changes[m].value = y
    BY <1>3, <1>5, <2>2, <2>3
  <2>5. ~Hit(u, p, t, l, L + 1)
    <3> SUFFICES ASSUME Hit(u, p, t, l, L + 1) PROVE FALSE
      OBVIOUS
    <3>1. u.identifiers[key] = u.identifiers[p] /\ LastTime(w) <= t
      BY <1>2, <1>9 DEF Hit
    <3>2. p = key
      BY <1>1, <2>3, <3>1 DEF Numbered, NumberedOnce
    <3> QED
      BY <1>11, <3>1, <3>2
  <2>6. ASSUME NEW i \in DOMAIN u.log, NEW j \in DOMAIN u.log[i].changes, Hit(u, p, t, i, j)
        PROVE  i < n \/ (i = n /\ j <= m)
    BY <1>4, <1>5, <2>2, <2>3, <2>5, <2>6
  <2> QED
    BY <2>4, <2>6 DEF Shows
<1> DEFINE c == <<<<key, x>>>>
<1>12. DOMAIN c = {1} /\ c[1][1] = key /\ c[1][2] = x
  OBVIOUS
<1> HIDE DEF c
<1>13. \A n \in DOMAIN c : \A t \in Int : LastTime(w) <= t => Shows(u, c[n][1], t, c[n][2])
  BY <1>10, <1>12
<1>14. ASSUME NEW p, NEW y, NEW t \in Int, Shows(w, p, t, y),
              LastTime(w) <= t => \A n \in DOMAIN c : c[n][1] = p => c[n][2] = y
       PROVE  Shows(u, p, t, y)
  <2>1. CASE p # key \/ ~(LastTime(w) <= t)
    BY <1>11, <1>14, <2>1
  <2>2. CASE p = key /\ LastTime(w) <= t
    <3>1. y = x
      BY <1>12, <1>14, <2>2
    <3> QED
      BY <1>10, <2>2, <3>1
  <2> QED
    BY <2>1, <2>2
<1>15. u.log # <<>> /\ Len(u.log) = Len(w.log) /\ \A n \in DOMAIN w.log : u.log[n].time = w.log[n].time
  BY <1>1, <1>2 DEF l
<1> QED
  BY <1>1, <1>8, <1>13, <1>14, <1>15 DEF Extends, u, c

\* The changes of a sequence, one by one.
AfterStep(g, w, c, n) == IF n = 0 THEN w ELSE Changed(g[n - 1], c[n][1], c[n][2])

LEMMA AfterSomewhere ==
    ASSUME NEW w, NEW c
    PROVE  \A n \in Nat : \E g : \A i \in 0 .. n : g[i] = AfterStep(g, w, c, i)
<1> DEFINE UpTo(g, n) == \A i \in 0 .. n : g[i] = AfterStep(g, w, c, i)
           bad == {n \in Nat : ~\E g : UpTo(g, n)}
<1>1. ASSUME bad # {} PROVE FALSE
  <2>1. PICK n \in bad : \A j \in bad : n <= j
    <3>1. bad \in SUBSET Nat
      OBVIOUS
    <3> HIDE DEF bad
    <3> QED
      BY <1>1, <3>1, LeastNumber
  <2>2. \E g : \A i \in Nat : i < n => g[i] = AfterStep(g, w, c, i)
    <3>1. CASE n = 0
      BY <3>1
    <3>2. CASE n # 0
      <4>1. n - 1 \in Nat /\ ~(n <= n - 1)
        BY <2>1, <3>2
      <4>2. PICK g : UpTo(g, n - 1)
        BY <2>1, <4>1
      <4> QED
        BY <2>1, <4>2
    <3> QED
      BY <3>1, <3>2
  <2>3. PICK g : \A i \in Nat : i < n => g[i] = AfterStep(g, w, c, i)
    BY <2>2
  <2> DEFINE h == [i \in 0 .. n |-> IF i = n THEN AfterStep(g, w, c, n) ELSE g[i]]
  <2>4. ASSUME NEW i \in 0 .. n PROVE h[i] = AfterStep(h, w, c, i)
    <3>1. i \in Nat /\ n \in Nat /\ (i # 0 => h[i - 1] = g[i - 1])
      BY <2>1
    <3>2. h[i] = AfterStep(g, w, c, i)
      BY <2>1, <2>3
    <3> HIDE DEF h
    <3> QED
      BY <3>1, <3>2 DEF AfterStep
  <2>5. UpTo(h, n)
    <3> HIDE DEF h
    <3> QED
      BY <2>4
  <2> QED
    BY <2>1, <2>5
<1> QED
  BY <1>1

LEMMA AllChangedSteps ==
    ASSUME NEW w, NEW c, Len(c) \in Nat
    PROVE  \E f : /\ AllChanged(w, c) = f[Len(c)]
                  /\ f[0] = w
                  /\ \A n \in 1 .. Len(c) : f[n] = Changed(f[n - 1], c[n][1], c[n][2])
<1> DEFINE l == Len(c)
           F(g) == [n \in 0 .. l |-> AfterStep(g, w, c, n)]
<1>1. PICK g : \A i \in 0 .. l : g[i] = AfterStep(g, w, c, i)
  BY AfterSomewhere
<1> DEFINE h == [n \in 0 .. l |-> g[n]]
<1>2. ASSUME NEW n \in 0 .. l PROVE h[n] = AfterStep(h, w, c, n)
  <2>1. n # 0 => h[n - 1] = g[n - 1]
    OBVIOUS
  <2>2. h[n] = AfterStep(g, w, c, n)
    BY <1>1
  <2> HIDE DEF h
  <2> QED
    BY <2>1, <2>2 DEF AfterStep
<1>3. h = F(h)
  <2>1. h = [n \in 0 .. l |-> h[n]]
    OBVIOUS
  <2> HIDE DEF h
  <2> QED
    BY <1>2, <2>1
<1> DEFINE f == CHOOSE g2 : g2 = F(g2)
<1>4. f = F(f)
  BY <1>3
<1>5. AllChanged(w, c) = f[l]
  BY DEF AllChanged, AfterStep
<1> HIDE DEF f
<1>6. 0 \in 0 .. l /\ \A n \in 1 .. l : n \in 0 .. l /\ n # 0
  OBVIOUS
<1>7. f[0] = w /\ \A n \in 1 .. l : f[n] = Changed(f[n - 1], c[n][1], c[n][2])
  BY <1>4, <1>6 DEF AfterStep
<1> QED
  BY <1>5, <1>7

\* One change after others.
LEMMA ExtendsMore ==
    ASSUME NEW w, NEW u, NEW v, NEW c, NEW n \in Nat \ {0}, NEW d,
           w.log \in Seq(Entry), w.log # <<>>, u.log \in Seq(Entry),
           DOMAIN c = 1 .. n - 1, DOMAIN d = 1 .. n,
           \A i \in 1 .. n - 1 : d[i] = c[i],
           \A i, j \in 1 .. n : d[i][1] = d[j][1] => d[i][2] = d[j][2],
           Extends(w, u, c), Extends(u, v, <<<<d[n][1], d[n][2]>>>>)
    PROVE  Extends(w, v, d)
<1> DEFINE e == <<<<d[n][1], d[n][2]>>>>
<1>1. DOMAIN e = {1} /\ e[1][1] = d[n][1] /\ e[1][2] = d[n][2]
  OBVIOUS
<1>2. Extends(u, v, e)
  OBVIOUS
<1> HIDE DEF e
<1>3. /\ Good(v) /\ v.step = w.step /\ v.log # <<>> /\ Len(v.log) = Len(w.log)
      /\ DOMAIN u.log = DOMAIN w.log
      /\ \A i \in DOMAIN w.log : v.log[i].time = w.log[i].time
      /\ LastTime(u) = LastTime(w)
  <2>1. /\ Good(v) /\ v.step = u.step /\ u.step = w.step /\ v.log # <<>>
        /\ Len(v.log) = Len(u.log) /\ Len(u.log) = Len(w.log)
        /\ \A i \in DOMAIN w.log : u.log[i].time = w.log[i].time
        /\ \A i \in DOMAIN u.log : v.log[i].time = u.log[i].time
    BY <1>2 DEF Extends
  <2>2. DOMAIN u.log = DOMAIN w.log /\ Len(w.log) \in DOMAIN w.log
    BY <2>1
  <2> QED
    BY <2>1, <2>2 DEF LastTime
<1>4. \A i \in 1 .. n : i \in 1 .. n - 1 \/ i = n
  OBVIOUS
<1>5. n \in 1 .. n /\ \A i \in 1 .. n - 1 : i \in 1 .. n
  OBVIOUS
<1>6. ASSUME NEW i \in 1 .. n, NEW t \in Int, LastTime(w) <= t PROVE Shows(v, d[i][1], t, d[i][2])
  <2>1. CASE i = n
    BY <1>1, <1>2, <1>3, <1>6, <2>1 DEF Extends
  <2>2. CASE i \in 1 .. n - 1
    <3>1. Shows(u, d[i][1], t, d[i][2])
      BY <1>6, <2>2 DEF Extends
    <3>2. \A m \in DOMAIN e : e[m][1] = d[i][1] => e[m][2] = d[i][2]
      BY <1>1, <1>5
    <3> QED
      BY <1>2, <3>1, <3>2 DEF Extends
  <2> QED
    BY <1>4, <2>1, <2>2
<1>7. ASSUME NEW p, NEW y, NEW t \in Int, Shows(w, p, t, y),
             LastTime(w) <= t => \A i \in DOMAIN d : d[i][1] = p => d[i][2] = y
      PROVE  Shows(v, p, t, y)
  <2>1. LastTime(w) <= t => \A i \in DOMAIN c : c[i][1] = p => c[i][2] = y
    BY <1>5, <1>7
  <2>2. Shows(u, p, t, y)
    BY <1>7, <2>1 DEF Extends
  <2>3. LastTime(w) <= t => \A i \in DOMAIN e : e[i][1] = p => e[i][2] = y
    BY <1>1, <1>5, <1>7
  <2> QED
    BY <1>2, <1>3, <2>2, <2>3 DEF Extends
<1> QED
  BY <1>3, <1>6, <1>7 DEF Extends

\* Changes at one time that agree are all shown.
LEMMA AllChangedFacts ==
    ASSUME NEW w, Good(w), w.log # <<>>,
           NEW c, Len(c) \in Nat, DOMAIN c = 1 .. Len(c),
           \A n \in DOMAIN c : c[n][2] \in Shownable,
           \A m, n \in DOMAIN c : c[m][1] = c[n][1] => c[m][2] = c[n][2]
    PROVE  Extends(w, AllChanged(w, c), c)
<1> DEFINE l == Len(c)
           pre(n) == [i \in 1 .. n |-> c[i]]
<1>1. PICK f : /\ AllChanged(w, c) = f[l]
               /\ f[0] = w
               /\ \A n \in 1 .. l : f[n] = Changed(f[n - 1], c[n][1], c[n][2])
  BY AllChangedSteps
<1> DEFINE bad == {n \in 0 .. l : ~Extends(w, f[n], pre(n))}
<1>2. ASSUME bad # {} PROVE FALSE
  <2>1. PICK n \in bad : \A j \in bad : n <= j
    <3>1. bad \in SUBSET Nat
      OBVIOUS
    <3> HIDE DEF bad
    <3> QED
      BY <1>2, <3>1, LeastNumber
  <2>2. CASE n = 0
    <3>1. DOMAIN pre(0) = {}
      OBVIOUS
    <3> HIDE DEF pre
    <3>2. Extends(w, w, pre(0))
      BY <3>1 DEF Extends
    <3> QED
      BY <1>1, <2>1, <2>2, <3>2
  <2>3. CASE n # 0
    <3>1. n - 1 \in 0 .. l /\ n \in 1 .. l /\ ~(n <= n - 1) /\ n \in Nat \ {0}
      BY <2>1, <2>3
    <3>2. Extends(w, f[n - 1], pre(n - 1))
      BY <2>1, <3>1
    <3>3. Good(f[n - 1]) /\ f[n - 1].log # <<>>
      BY <3>2 DEF Extends
    <3>4. Extends(f[n - 1], f[n], <<<<c[n][1], c[n][2]>>>>)
      <4>1. c[n][2] \in Shownable /\ f[n] = Changed(f[n - 1], c[n][1], c[n][2])
        BY <1>1, <3>1
      <4> QED
        BY <3>3, <4>1, ChangedFacts
    <3>5. w.log \in Seq(Entry) /\ f[n - 1].log \in Seq(Entry)
      BY <3>3 DEF Good, Formed
    <3>6. /\ DOMAIN pre(n - 1) = 1 .. n - 1 /\ DOMAIN pre(n) = 1 .. n
          /\ \A i \in 1 .. n - 1 : pre(n)[i] = pre(n - 1)[i]
          /\ \A i \in 1 .. n : pre(n)[i] = c[i]
          /\ n \in 1 .. n
      BY <3>1
    <3>7. \A i, j \in 1 .. n : pre(n)[i][1] = pre(n)[j][1] => pre(n)[i][2] = pre(n)[j][2]
      BY <3>1, <3>6
    <3> HIDE DEF pre
    <3>8. Extends(f[n - 1], f[n], <<<<pre(n)[n][1], pre(n)[n][2]>>>>)
      BY <3>4, <3>6
    <3> DEFINE e == pre(n - 1)
               d == pre(n)
               u == f[n - 1]
    <3> HIDE DEF d, e, u
    <3>9. /\ DOMAIN e = 1 .. n - 1 /\ DOMAIN d = 1 .. n
          /\ \A i \in 1 .. n - 1 : d[i] = e[i]
          /\ \A i, j \in 1 .. n : d[i][1] = d[j][1] => d[i][2] = d[j][2]
          /\ Extends(w, u, e) /\ Extends(u, f[n], <<<<d[n][1], d[n][2]>>>>)
          /\ w.log \in Seq(Entry) /\ u.log \in Seq(Entry)
      BY <3>2, <3>5, <3>6, <3>7, <3>8 DEF d, e, u
    <3>10. Extends(w, f[n], d)
      <4>1. n \in Nat \ {0} /\ w.log # <<>>
        BY <3>1
      <4> HIDE DEF bad, l
      <4> DEFINE v == f[n]
      <4> HIDE DEF v
      <4>3. Extends(u, v, <<<<d[n][1], d[n][2]>>>>)
        BY <3>9 DEF v
      <4>4. Extends(w, v, d)
        BY <3>9, <4>1, <4>3, ExtendsMore, Zenon
      <4> QED
        BY <4>4 DEF v
    <3> HIDE DEF pre
    <3>11. Extends(w, f[n], pre(n))
      BY <3>10 DEF d
    <3> QED
      BY <2>1, <3>11
  <2> QED
    BY <2>2, <2>3
<1>3. Extends(w, f[l], pre(l))
  <2> HIDE DEF pre
  <2>1. l \in 0 .. l /\ l \notin bad
    BY <1>2
  <2> QED
    BY <2>1
<1>4. DOMAIN pre(l) = DOMAIN c /\ \A n \in DOMAIN c : pre(l)[n] = c[n]
  OBVIOUS
<1> HIDE DEF pre
<1> QED
  BY <1>1, <1>3, <1>4 DEF Extends

\* A time stamp shows nothing else.
LEMMA StampedFacts ==
    ASSUME NEW w, Good(w), NEW t \in Nat, w.log # <<>> => LastTime(w) < t
    PROVE  LET u == Stamped(w, t)
           IN  /\ Good(u) /\ u.step = w.step
               /\ u.log # <<>> /\ Len(u.log) = Len(w.log) + 1 /\ LastTime(u) = t
               /\ \A n \in DOMAIN w.log : u.log[n].time = w.log[n].time
               /\ \A p, y : \A z \in Int : Shows(w, p, z, y) => Shows(u, p, z, y)
<1> DEFINE u == Stamped(w, t)
           l == Len(w.log)
           e == [time |-> t, changes |-> <<>>]
<1>0. Formed(w) /\ Numbered(w) /\ Known(w) /\ TimesInOrder(w)
  BY DEF Good
<1>1. w.log \in Seq(Entry) /\ l \in Nat /\ DOMAIN w.log = 1 .. l
  BY <1>0 DEF Formed
<1>2. e \in Entry /\ e.time = t /\ DOMAIN e.changes = {}
  BY DEF Entry
<1>3. u = [step |-> w.step, identifiers |-> w.identifiers, log |-> Append(w.log, e)]
  <2>1. u = [w EXCEPT !.log = Append(@, e)]
    BY DEF Stamped
  <2>2. w = [step |-> w.step, identifiers |-> w.identifiers, log |-> w.log]
    BY <1>0 DEF Formed
  <2> HIDE DEF e, u
  <2> QED
    BY <2>1, <2>2
<1> HIDE DEF e
<1>4. /\ u.step = w.step /\ u.identifiers = w.identifiers /\ u.log = Append(w.log, e)
      /\ u = [step |-> u.step, identifiers |-> u.identifiers, log |-> u.log]
  BY <1>3
<1> HIDE DEF u
<1>5. /\ u.log \in Seq(Entry) /\ Len(u.log) = l + 1 /\ DOMAIN u.log = 1 .. l + 1
      /\ \A n \in 1 .. l : u.log[n] = w.log[n]
      /\ u.log[l + 1] = e /\ u.log # <<>>
  BY <1>1, <1>2, <1>4
<1>6. Formed(u)
  BY <1>0, <1>4, <1>5 DEF Formed
<1>7. Numbered(u)
  BY <1>0, <1>4 DEF Numbered
<1>8. \A i \in DOMAIN u.log : \A j \in DOMAIN u.log[i].changes :
         i \in DOMAIN w.log /\ j \in DOMAIN w.log[i].changes
  BY <1>1, <1>2, <1>5
<1>9. \A i \in DOMAIN w.log : i \in DOMAIN u.log /\ u.log[i] = w.log[i]
  BY <1>1, <1>5
<1>10. Known(u)
  BY <1>0, <1>4, <1>8, <1>9 DEF Known
<1>11. \A i \in DOMAIN w.log : w.log[i].time \in Nat /\ w.log[i].time < t
  <2> TAKE i \in DOMAIN w.log
  <2>1. w.log # <<>> /\ l \in 1 .. l /\ i \in 1 .. l /\ LastTime(w) < t
    BY <1>1
  <2>2. w.log[i] \in Entry /\ w.log[l] \in Entry
    BY <1>1, <2>1
  <2>3. w.log[i].time \in Nat /\ w.log[l].time \in Nat
    BY <2>2 DEF Entry
  <2>4. i = l \/ w.log[i].time < w.log[l].time
    BY <1>0, <1>1, <2>1 DEF TimesInOrder
  <2> QED
    BY <2>1, <2>3, <2>4 DEF LastTime
<1>12. TimesInOrder(u)
  <2> SUFFICES ASSUME NEW m \in 1 .. l + 1, NEW n \in 1 .. l + 1, m < n
               PROVE  u.log[m].time < u.log[n].time
    BY <1>5 DEF TimesInOrder
  <2>1. m \in DOMAIN w.log
    BY <1>1
  <2>2. CASE n = l + 1
    BY <1>2, <1>5, <1>9, <1>11, <2>1, <2>2
  <2>3. CASE n \in DOMAIN w.log
    BY <1>0, <1>9, <2>1, <2>3 DEF TimesInOrder
  <2> QED
    BY <1>1, <2>2, <2>3
<1>13. ASSUME NEW p, NEW y, NEW z \in Int, Shows(w, p, z, y) PROVE Shows(u, p, z, y)
  <2>1. PICK n \in DOMAIN w.log : \E m \in DOMAIN w.log[n].changes :
          /\ Hit(w, p, z, n, m)
          /\ w.log[n].changes[m].value = y
          /\ \A i \in DOMAIN w.log : \A j \in DOMAIN w.log[i].changes :
                Hit(w, p, z, i, j) => i < n \/ (i = n /\ j <= m)
    BY <1>13 DEF Shows
  <2>2. PICK m \in DOMAIN w.log[n].changes :
          /\ Hit(w, p, z, n, m)
          /\ w.log[n].changes[m].value = y
          /\ \A i \in DOMAIN w.log : \A j \in DOMAIN w.log[i].changes :
                Hit(w, p, z, i, j) => i < n \/ (i = n /\ j <= m)
    BY <2>1
  <2>3. \A i \in DOMAIN w.log : \A j : Hit(u, p, z, i, j) <=> Hit(w, p, z, i, j)
    BY <1>4, <1>9 DEF Hit
  <2>4. /\ n \in DOMAIN u.log /\ m \in DOMAIN u.log[n].changes
        /\ Hit(u, p, z, n, m) /\ u.log[n].changes[m].value = y
    BY <1>9, <2>2, <2>3
  <2>5. \A i \in DOMAIN u.log : \A j \in DOMAIN u.log[i].changes :
            Hit(u, p, z, i, j) => i < n \/ (i = n /\ j <= m)
    BY <1>8, <1>9, <2>2, <2>3
  <2> QED
    BY <2>4, <2>5 DEF Shows
<1>14. LastTime(u) = t
  BY <1>2, <1>5 DEF LastTime
<1> QED
  BY <1>4, <1>5, <1>6, <1>7, <1>9, <1>10, <1>12, <1>13, <1>14 DEF Good, u

----------------------------------------------------------------------------
(* Sets as sequences.                                                      *)

LEMMA SeqsFacts ==
    ASSUME NEW S, IsFiniteSet(S), NEW s \in SetToSeqs(S)
    PROVE  /\ Len(s) \in Nat /\ DOMAIN s = 1 .. Len(s)
           /\ \A n \in DOMAIN s : s[n] \in S
           /\ \A i \in S : \E n \in DOMAIN s : s[n] = i
           /\ \A m, n \in DOMAIN s : s[m] = s[n] => m = n
<1> DEFINE N == Cardinality(S)
           D == 1 .. N
<1>1. N \in Nat
  BY FS_CardinalityType
<1>2. s \in [D -> S] /\ \A i, j \in D : i # j => s[i] # s[j]
  BY DEF SetToSeqs
<1>3. s \in Seq(S) /\ Len(s) = N
  BY <1>1, <1>2
<1>4. IsFiniteSet(D) /\ Cardinality(D) = N
  BY <1>1, FS_Interval
<1>5. s \in Injection(D, S)
  BY <1>2 DEF Injection, IsInjective
<1>6. s \in Surjection(D, S)
  <2>1. Cardinality(D) = Cardinality(S)
    BY <1>4
  <2> HIDE DEF D, N
  <2> QED
    BY <1>4, <1>5, <2>1, FS_Injection
<1>7. \A i \in S : \E n \in D : s[n] = i
  BY <1>6 DEF Surjection
<1> QED
  BY <1>1, <1>2, <1>3, <1>7

\* The ids of a finite set can be put in order: each has its rank.
LEMMA AscendingSome ==
    ASSUME NEW S \in SUBSET Nat, IsFiniteSet(S)
    PROVE  Ascending(S) \in SetToSeqs(S)
<1> DEFINE N == Cardinality(S)
           D == 1 .. N
           Rank(i) == Cardinality(Below(S, i))
           s == [n \in D |-> CHOOSE i \in S : Rank(i) = n - 1]
<1>1. N \in Nat
  BY FS_CardinalityType
<1>2. ASSUME NEW n \in D PROVE s[n] \in S /\ Rank(s[n]) = n - 1
  <2>1. n - 1 \in Nat /\ n - 1 < Cardinality(S)
    BY <1>1
  <2>2. \E i \in S : Rank(i) = n - 1
    BY <2>1, RankExists
  <2> HIDE DEF Rank
  <2> QED
    BY <2>2
<1> HIDE DEF s
<1>3. DOMAIN s = D /\ s = [n \in D |-> s[n]]
  BY DEF s
<1>4. ASSUME NEW m \in D, NEW n \in D, m < n PROVE s[m] < s[n]
  <2>1. /\ s[m] \in S /\ s[n] \in S /\ s[m] \in Nat /\ s[n] \in Nat
        /\ Rank(s[m]) = m - 1 /\ Rank(s[n]) = n - 1
    BY <1>2
  <2>2. m \in Nat /\ n \in Nat
    BY <1>1
  <2>3. CASE s[m] = s[n]
    BY <1>4, <2>1, <2>2, <2>3
  <2>4. CASE s[n] < s[m]
    <3>1. Rank(s[n]) < Rank(s[m])
      BY <2>1, <2>4, BelowGrows
    <3> QED
      BY <1>4, <2>1, <2>2, <3>1
  <2> QED
    BY <2>1, <2>3, <2>4
<1>5. s \in SetToSeqs(S)
  <2>1. s \in [D -> S]
    BY <1>2, <1>3
  <2>2. \A i, j \in D : i # j => s[i] # s[j]
    <3> TAKE i, j \in D
    <3>1. s[i] \in S /\ s[j] \in S
      BY <1>2
    <3>2. i \in Nat /\ j \in Nat /\ s[i] \in Nat /\ s[j] \in Nat
      <4>1. i \in Nat /\ j \in Nat
        BY <1>1
      <4>2. \A x \in S : x \in Nat
        OBVIOUS
      <4> QED
        BY <3>1, <4>1, <4>2
    <3> QED
      BY <1>4, <3>2
  <2> QED
    BY <2>1, <2>2 DEF SetToSeqs
<1>6. \A m, n \in DOMAIN s : m < n => s[m] < s[n]
  BY <1>3, <1>4
<1> QED
  BY <1>5, <1>6 DEF Ascending

----------------------------------------------------------------------------
(* Clocks.                                                                 *)

LEMMA ClocksType ==
    /\ DOMAIN Clocks \in SUBSET Nat /\ IsFiniteSet(DOMAIN Clocks)
    /\ \A c \in DOMAIN Clocks : c \in Vectors /\ On(c) \in {0, 1} /\ 1 - On(c) \in {0, 1}
<1>1. DOMAIN Clocks \subseteq Named /\ Named \subseteq Nat /\ IsFiniteSet(Named)
  BY ClocksAssumption, LinesAssumption DEF Named
<1>2. IsFiniteSet(DOMAIN Clocks)
  BY <1>1, FS_Subset
<1> QED
  <2>1. \A c \in DOMAIN Clocks : c \in Vectors /\ On(c) \in {0, 1}
    BY ClocksAssumption DEF On
  <2>2. \A x \in {0, 1} : 1 - x \in {0, 1}
    OBVIOUS
  <2> QED
    BY <1>1, <1>2, <2>1, <2>2

\* u is w with the clocks of S at the values of F from the last time stamp on.
ClocksSet(w, u, S, F) ==
    /\ Good(u) /\ u.step = w.step
    /\ u.log # <<>> /\ Len(u.log) = Len(w.log)
    /\ \A n \in DOMAIN w.log : u.log[n].time = w.log[n].time
    /\ \A c \in S : \A t \in Int : LastTime(w) <= t => Shows(u, <<c, NoElement>>, t, F[c])
    /\ \A p, y : \A t \in Int :
          Shows(w, p, t, y) /\ (t < LastTime(w) \/ \A c \in S : p # <<c, NoElement>>)
          => Shows(u, p, t, y)

LEMMA ClocksChanged ==
    ASSUME NEW w, Good(w), w.log # <<>>, LastTime(w) \in Int,
           NEW S \in SUBSET DOMAIN Clocks, NEW F \in [S -> {0, 1}],
           NEW c, DOMAIN c = DOMAIN Ascending(S), Len(c) = Len(Ascending(S)),
           \A n \in DOMAIN c : c[n] = <<<<Ascending(S)[n], NoElement>>, F[Ascending(S)[n]]>>
    PROVE  ClocksSet(w, AllChanged(w, c), S, F)
<1> DEFINE s == Ascending(S)
           u == AllChanged(w, c)
<1>1. S \in SUBSET Nat /\ IsFiniteSet(S)
  BY ClocksType, FS_Subset
<1>2. s \in SetToSeqs(S)
  BY <1>1, AscendingSome
<1> HIDE DEF s
<1>3. /\ Len(s) \in Nat /\ DOMAIN s = 1 .. Len(s)
      /\ \A n \in DOMAIN s : s[n] \in S
      /\ \A i \in S : \E n \in DOMAIN s : s[n] = i
  BY <1>1, <1>2, SeqsFacts
<1>4. DOMAIN c = 1 .. Len(c) /\ Len(c) \in Nat /\ DOMAIN c = DOMAIN s
  BY <1>3 DEF s
<1>5. \A n \in DOMAIN c : /\ c[n][1] = <<s[n], NoElement>> /\ c[n][2] = F[s[n]]
                          /\ s[n] \in S /\ c[n][2] \in Shownable
  <2> TAKE n \in DOMAIN c
  <2>1. c[n] = <<<<s[n], NoElement>>, F[s[n]]>>
    BY DEF s
  <2>2. s[n] \in S
    BY <1>3, <1>4
  <2>3. F[s[n]] \in Shownable
    BY <2>2 DEF Shownable
  <2> QED
    BY <2>1, <2>2, <2>3
<1>6. ASSUME NEW m \in DOMAIN c, NEW n \in DOMAIN c, c[m][1] = c[n][1] PROVE c[m][2] = c[n][2]
  <2>1. <<s[m], NoElement>> = <<s[n], NoElement>>
    BY <1>5, <1>6
  <2>2. s[m] = s[n]
    BY <2>1
  <2> QED
    BY <1>5, <2>2
<1>7. Extends(w, u, c)
  BY <1>4, <1>5, <1>6, AllChangedFacts
<1> HIDE DEF u
<1>8. ASSUME NEW i \in S, NEW t \in Int, LastTime(w) <= t
      PROVE  Shows(u, <<i, NoElement>>, t, F[i])
  <2>1. PICK n \in DOMAIN c : s[n] = i
    BY <1>3, <1>4
  <2>2. Shows(u, c[n][1], t, c[n][2])
    BY <1>7, <1>8 DEF Extends
  <2> QED
    BY <1>5, <2>1, <2>2
<1>9. ASSUME NEW p, NEW y, NEW t \in Int, Shows(w, p, t, y),
             t < LastTime(w) \/ \A i \in S : p # <<i, NoElement>>
      PROVE  Shows(u, p, t, y)
  <2>1. LastTime(w) <= t => \A n \in DOMAIN c : c[n][1] = p => c[n][2] = y
    <3>1. CASE t < LastTime(w)
      BY <1>9, <3>1
    <3>2. CASE \A i \in S : p # <<i, NoElement>>
      BY <1>5, <3>2
    <3> QED
      BY <1>9, <3>1, <3>2
  <2> QED
    BY <1>7, <1>9, <2>1 DEF Extends
<1> QED
  BY <1>7, <1>8, <1>9 DEF ClocksSet, Extends, u

LEMMA ClocksOnFacts ==
    ASSUME NEW w, Good(w), w.log # <<>>, LastTime(w) \in Int
    PROVE  ClocksSet(w, ClocksOn(w), DOMAIN Clocks, [c \in DOMAIN Clocks |-> On(c)])
<1> DEFINE S == DOMAIN Clocks
           F == [c \in S |-> On(c)]
           s == Ascending(S)
           d == [n \in DOMAIN s |-> <<<<s[n], NoElement>>, On(s[n])>>]
<1>1. S \in SUBSET DOMAIN Clocks /\ S \in SUBSET Nat /\ IsFiniteSet(S) /\ F \in [S -> {0, 1}]
  BY ClocksType
<1>2. s \in SetToSeqs(S)
  BY <1>1, AscendingSome
<1>3. /\ Len(s) \in Nat /\ DOMAIN s = 1 .. Len(s)
      /\ \A n \in DOMAIN s : s[n] \in S
  <2> HIDE DEF s, S
  <2> QED
    BY <1>1, <1>2, SeqsFacts
<1>4. ClocksOn(w) = AllChanged(w, d)
  BY DEF ClocksOn
<1> HIDE DEF s
<1>5. DOMAIN d = DOMAIN s /\ \A n \in DOMAIN d : d[n] = <<<<s[n], NoElement>>, F[s[n]]>>
  BY <1>3
<1>6. Len(d) = Len(s)
  BY <1>3
<1> HIDE DEF d, F, S
<1>7. ClocksSet(w, AllChanged(w, d), S, F)
  BY <1>1, <1>5, <1>6, ClocksChanged DEF s
<1> QED
  BY <1>4, <1>7 DEF F, S

\* Off is where a clock is half a step before.
Steady == {c \in DOMAIN Clocks : Clocks[c] # "event"}

LEMMA ClocksOffFacts ==
    ASSUME NEW w, Good(w), w.log # <<>>, LastTime(w) \in Int
    PROVE  ClocksSet(w, ClocksOff(w), Steady, [c \in Steady |-> 1 - On(c)])
<1> DEFINE S == Steady
           F == [c \in S |-> 1 - On(c)]
           s == Ascending(S)
           d == [n \in DOMAIN s |-> <<<<s[n], NoElement>>, 1 - On(s[n])>>]
<1>1. S \in SUBSET DOMAIN Clocks /\ S \in SUBSET Nat /\ IsFiniteSet(S) /\ F \in [S -> {0, 1}]
  <2>1. S \in SUBSET DOMAIN Clocks
    BY DEF Steady
  <2> HIDE DEF S
  <2> QED
    BY <2>1, ClocksType, FS_Subset
<1>2. s \in SetToSeqs(S)
  BY <1>1, AscendingSome
<1>3. /\ Len(s) \in Nat /\ DOMAIN s = 1 .. Len(s)
      /\ \A n \in DOMAIN s : s[n] \in S
  <2> HIDE DEF s, S
  <2> QED
    BY <1>1, <1>2, SeqsFacts
<1>4. ClocksOff(w) = AllChanged(w, d)
  BY DEF ClocksOff, Steady
<1> HIDE DEF s
<1>5. DOMAIN d = DOMAIN s /\ \A n \in DOMAIN d : d[n] = <<<<s[n], NoElement>>, F[s[n]]>>
  BY <1>3
<1>6. Len(d) = Len(s)
  BY <1>3
<1> HIDE DEF d, F, S
<1>7. ClocksSet(w, AllChanged(w, d), S, F)
  BY <1>1, <1>5, <1>6, ClocksChanged DEF s
<1> QED
  BY <1>4, <1>7 DEF F, S

----------------------------------------------------------------------------
(* update_time.                                                            *)

\* The log is empty before the first step, and ends with the last one's time.
Timed(w) ==
    /\ w.step \in Nat \cup {-1}
    /\ w.log = <<>> <=> w.step = -1
    /\ w.log # <<>> => LastTime(w) = 10 * w.step

OnEdge(w, c, t) ==
    t % 10 = 0 =>
       /\ Shows(w, <<c, NoElement>>, t, On(c))
       /\ t > 0 /\ c \in Steady => Shows(w, <<c, NoElement>>, t - 5, 1 - On(c))

EdgesOk(w) == \A n \in DOMAIN w.log : \A c \in DOMAIN Clocks : OnEdge(w, c, w.log[n].time)

\* Other signals than those of id are shown as before, and so are those before
\* the time t0.
Keeps(w, u, id, t0) ==
    \A a, b, y : \A t \in Int :
       /\ Shows(w, <<a, b>>, t, y)
       /\ a # id \/ t < t0
       /\ a \notin DOMAIN Clocks \/ b # NoElement
       => Shows(u, <<a, b>>, t, y)

LEMMA TimesBounded ==
    ASSUME NEW w, Good(w), NEW n \in DOMAIN w.log
    PROVE  /\ w.log # <<>> /\ w.log[n].time \in Nat
           /\ LastTime(w) \in Nat /\ w.log[n].time <= LastTime(w)
<1> DEFINE l == Len(w.log)
<1>1. w.log \in Seq(Entry) /\ TimesInOrder(w)
  BY DEF Good, Formed
<1>2. w.log # <<>> /\ l \in DOMAIN w.log /\ n \in Nat /\ n <= l /\ l \in Nat
  BY <1>1
<1>3. w.log[n] \in Entry /\ w.log[l] \in Entry
  BY <1>1, <1>2
<1>4. w.log[n].time \in Nat /\ w.log[l].time \in Nat
  BY <1>3 DEF Entry
<1>5. n = l \/ w.log[n].time < w.log[l].time
  BY <1>1, <1>2 DEF TimesInOrder
<1> QED
  BY <1>2, <1>4, <1>5 DEF LastTime

\* The time stamp of a step, with the clocks: v comes before it, with the clocks
\* off half a step before unless it is the first one.
LEMMA StepStamped ==
    ASSUME NEW v, Good(v), NEW n \in Nat,
           v.log # <<>> => LastTime(v) < 10 * n,
           n > 0 => \A c \in Steady : Shows(v, <<c, NoElement>>, 10 * n - 5, 1 - On(c)),
           EdgesOk(v)
    PROVE  LET u == ClocksOn(Stamped(v, 10 * n))
           IN  /\ Good(u) /\ u.log # <<>> /\ u.step = v.step
               /\ LastTime(u) = 10 * n /\ EdgesOk(u)
               /\ \A id, t0 : Keeps(v, u, id, t0)
<1> DEFINE w == Stamped(v, 10 * n)
           u == ClocksOn(w)
           T == 10 * n
<1>0. T \in Nat /\ (v.log # <<>> => LastTime(v) < T)
  OBVIOUS
<1>1. /\ Good(w) /\ w.step = v.step
      /\ w.log # <<>> /\ Len(w.log) = Len(v.log) + 1 /\ LastTime(w) = T
      /\ \A i \in DOMAIN v.log : w.log[i].time = v.log[i].time
      /\ \A p, y : \A z \in Int : Shows(v, p, z, y) => Shows(w, p, z, y)
  <2> HIDE DEF T
  <2> QED
    BY <1>0, StampedFacts DEF T
<1> HIDE DEF w
<1>2. ClocksSet(w, u, DOMAIN Clocks, [c \in DOMAIN Clocks |-> On(c)])
  BY <1>0, <1>1, ClocksOnFacts
<1> HIDE DEF u
<1>3. /\ Good(u) /\ u.step = v.step
      /\ u.log # <<>> /\ Len(u.log) = Len(w.log)
      /\ \A i \in DOMAIN w.log : u.log[i].time = w.log[i].time
      /\ \A c \in DOMAIN Clocks : \A t \in Int : T <= t => Shows(u, <<c, NoElement>>, t, On(c))
      /\ \A p, y : \A t \in Int :
            Shows(w, p, t, y) /\ (t < T \/ \A c \in DOMAIN Clocks : p # <<c, NoElement>>)
            => Shows(u, p, t, y)
  BY <1>1, <1>2 DEF ClocksSet
<1> HIDE DEF T
<1>4. /\ DOMAIN u.log = DOMAIN w.log
      /\ \A i \in DOMAIN u.log : i \in DOMAIN v.log \/ i = Len(u.log)
      /\ Len(u.log) \in DOMAIN u.log
  <2>1. u.log \in Seq(Entry) /\ w.log \in Seq(Entry) /\ v.log \in Seq(Entry)
    BY <1>1, <1>3 DEF Good, Formed
  <2> QED
    BY <1>1, <1>3, <2>1
<1>5. LastTime(u) = T
  BY <1>1, <1>3, <1>4 DEF LastTime
<1>6. ASSUME NEW p, NEW y, NEW t \in Int, Shows(v, p, t, y), t < T PROVE Shows(u, p, t, y)
  BY <1>1, <1>3, <1>6
<1>7. ASSUME NEW i \in DOMAIN u.log, NEW c \in DOMAIN Clocks PROVE OnEdge(u, c, u.log[i].time)
  <2>1. CASE i = Len(u.log)
    <3>1. u.log[i].time = T
      BY <1>5, <2>1 DEF LastTime
    <3>2. Shows(u, <<c, NoElement>>, T, On(c))
      BY <1>0, <1>3
    <3>3. ASSUME T > 0, c \in Steady PROVE Shows(u, <<c, NoElement>>, T - 5, 1 - On(c))
      <4>1. n > 0 /\ T - 5 \in Int /\ T - 5 < T
        BY <3>3 DEF T
      <4>2. Shows(v, <<c, NoElement>>, T - 5, 1 - On(c))
        BY <3>3, <4>1 DEF T
      <4> QED
        BY <1>6, <4>1, <4>2
    <3> QED
      BY <3>1, <3>2, <3>3 DEF OnEdge
  <2>2. CASE i \in DOMAIN v.log
    <3> DEFINE t == v.log[i].time
    <3>1. u.log[i].time = t
      BY <1>1, <1>3, <1>4, <2>2
    <3>2. t \in Int /\ t - 5 \in Int /\ t < T /\ t - 5 < T
      BY <1>0, <2>2, TimesBounded
    <3>3. OnEdge(v, c, t)
      BY <2>2 DEF EdgesOk
    <3> HIDE DEF t
    <3>4. OnEdge(u, c, t)
      BY <1>6, <3>2, <3>3 DEF OnEdge
    <3> QED
      BY <3>1, <3>4
  <2> QED
    BY <1>4, <2>1, <2>2
<1>8. EdgesOk(u)
  BY <1>7 DEF EdgesOk
<1>9. ASSUME NEW id, NEW t0 PROVE Keeps(v, u, id, t0)
  <2> SUFFICES ASSUME NEW a, NEW b, NEW y, NEW t \in Int, Shows(v, <<a, b>>, t, y),
                      a \notin DOMAIN Clocks \/ b # NoElement
               PROVE  Shows(u, <<a, b>>, t, y)
    BY DEF Keeps
  <2>1. \A c \in DOMAIN Clocks : <<a, b>> # <<c, NoElement>>
    OBVIOUS
  <2> QED
    BY <1>1, <1>3, <2>1
<1> QED
  BY <1>3, <1>5, <1>8, <1>9 DEF u, T, w

LEMMA HalfStamped ==
    ASSUME NEW v, Good(v), NEW n \in Nat, n > 0,
           v.log # <<>> => LastTime(v) < 10 * n - 5,
           EdgesOk(v)
    PROVE  LET u == ClocksOff(Stamped(v, 10 * n - 5))
           IN  /\ Good(u) /\ u.log # <<>> /\ u.step = v.step
               /\ LastTime(u) = 10 * n - 5 /\ EdgesOk(u)
               /\ \A c \in Steady : Shows(u, <<c, NoElement>>, 10 * n - 5, 1 - On(c))
               /\ \A id, t0 : Keeps(v, u, id, t0)
<1> DEFINE T == 10 * n - 5
           w == Stamped(v, T)
           u == ClocksOff(w)
<1>0. T \in Nat /\ T % 10 # 0 /\ (v.log # <<>> => LastTime(v) < T)
  OBVIOUS
<1>1. /\ Good(w) /\ w.step = v.step
      /\ w.log # <<>> /\ Len(w.log) = Len(v.log) + 1 /\ LastTime(w) = T
      /\ \A i \in DOMAIN v.log : w.log[i].time = v.log[i].time
      /\ \A p, y : \A z \in Int : Shows(v, p, z, y) => Shows(w, p, z, y)
  <2> HIDE DEF T
  <2> QED
    BY <1>0, StampedFacts
<1> HIDE DEF w
<1>2. ClocksSet(w, u, Steady, [c \in Steady |-> 1 - On(c)])
  BY <1>0, <1>1, ClocksOffFacts
<1> HIDE DEF u
<1>3. /\ Good(u) /\ u.step = v.step
      /\ u.log # <<>> /\ Len(u.log) = Len(w.log)
      /\ \A i \in DOMAIN w.log : u.log[i].time = w.log[i].time
      /\ \A c \in Steady : \A t \in Int : T <= t => Shows(u, <<c, NoElement>>, t, 1 - On(c))
      /\ \A p, y : \A t \in Int :
            Shows(w, p, t, y) /\ (t < T \/ \A c \in Steady : p # <<c, NoElement>>)
            => Shows(u, p, t, y)
  BY <1>1, <1>2 DEF ClocksSet
<1> HIDE DEF T
<1>4. /\ DOMAIN u.log = DOMAIN w.log
      /\ \A i \in DOMAIN u.log : i \in DOMAIN v.log \/ i = Len(u.log)
      /\ Len(u.log) \in DOMAIN u.log
  <2>1. u.log \in Seq(Entry) /\ w.log \in Seq(Entry) /\ v.log \in Seq(Entry)
    BY <1>1, <1>3 DEF Good, Formed
  <2> QED
    BY <1>1, <1>3, <2>1
<1>5. LastTime(u) = T
  BY <1>1, <1>3, <1>4 DEF LastTime
<1>6. ASSUME NEW p, NEW y, NEW t \in Int, Shows(v, p, t, y), t < T PROVE Shows(u, p, t, y)
  BY <1>1, <1>3, <1>6
<1>7. ASSUME NEW i \in DOMAIN u.log, NEW c \in DOMAIN Clocks PROVE OnEdge(u, c, u.log[i].time)
  <2>1. CASE i = Len(u.log)
    <3>1. u.log[i].time = T
      BY <1>5, <2>1 DEF LastTime
    <3> QED
      BY <1>0, <3>1 DEF OnEdge
  <2>2. CASE i \in DOMAIN v.log
    <3> DEFINE t == v.log[i].time
    <3>1. u.log[i].time = t
      BY <1>1, <1>3, <1>4, <2>2
    <3>2. t \in Int /\ t - 5 \in Int /\ t < T /\ t - 5 < T
      BY <1>0, <2>2, TimesBounded
    <3>3. OnEdge(v, c, t)
      BY <2>2 DEF EdgesOk
    <3> HIDE DEF t
    <3>4. OnEdge(u, c, t)
      BY <1>6, <3>2, <3>3 DEF OnEdge
    <3> QED
      BY <3>1, <3>4
  <2> QED
    BY <1>4, <2>1, <2>2
<1>8. EdgesOk(u)
  BY <1>7 DEF EdgesOk
<1>9. ASSUME NEW id, NEW t0 PROVE Keeps(v, u, id, t0)
  <2> SUFFICES ASSUME NEW a, NEW b, NEW y, NEW t \in Int, Shows(v, <<a, b>>, t, y),
                      a \notin DOMAIN Clocks \/ b # NoElement
               PROVE  Shows(u, <<a, b>>, t, y)
    BY DEF Keeps
  <2>1. \A c \in Steady : <<a, b>> # <<c, NoElement>>
    BY DEF Steady
  <2> QED
    BY <1>1, <1>3, <2>1
<1>10. \A c \in Steady : Shows(u, <<c, NoElement>>, T, 1 - On(c))
  BY <1>0, <1>3
<1> QED
  BY <1>3, <1>5, <1>8, <1>9, <1>10 DEF u, T, w

LEMMA KeepsMore ==
    ASSUME NEW u, NEW v, NEW w, NEW id, NEW t0, Keeps(u, v, id, t0), Keeps(v, w, id, t0)
    PROVE  Keeps(u, w, id, t0)
BY DEF Keeps

\* The step is only a number beside the log.
LEMMA StepSet ==
    ASSUME NEW v, Good(v), NEW n \in Nat
    PROVE  LET u == [v EXCEPT !.step = n]
           IN  /\ Good(u) /\ u.step = n /\ u.log = v.log
               /\ EdgesOk(v) => EdgesOk(u)
               /\ \A w, id, t0 : Keeps(w, v, id, t0) => Keeps(w, u, id, t0)
               /\ LastTime(u) = LastTime(v)
<1> DEFINE u == [v EXCEPT !.step = n]
<1>0. Formed(v) /\ Numbered(v) /\ Known(v) /\ TimesInOrder(v)
  BY DEF Good
<1>1. v = [step |-> v.step, identifiers |-> v.identifiers, log |-> v.log]
  BY <1>0 DEF Formed
<1>2. u = [step |-> n, identifiers |-> v.identifiers, log |-> v.log]
  BY <1>1
<1>3. u.step = n /\ u.identifiers = v.identifiers /\ u.log = v.log
      /\ u = [step |-> u.step, identifiers |-> u.identifiers, log |-> u.log]
  BY <1>2
<1> HIDE DEF u
<1>4. Formed(u) /\ Numbered(u) /\ Known(u) /\ TimesInOrder(u)
  BY <1>0, <1>3 DEF Formed, Numbered, Known, TimesInOrder
<1>5. \A p, t, y : Shows(v, p, t, y) <=> Shows(u, p, t, y)
  BY <1>3 DEF Shows, Hit
<1>6. EdgesOk(v) => EdgesOk(u)
  BY <1>3, <1>5 DEF EdgesOk, OnEdge
<1>7. \A w, id, t0 : Keeps(w, v, id, t0) => Keeps(w, u, id, t0)
  BY <1>5 DEF Keeps
<1>8. LastTime(u) = LastTime(v)
  BY <1>3 DEF LastTime
<1> QED
  BY <1>3, <1>4, <1>6, <1>7, <1>8 DEF Good, u

LEMMA UpdateFacts ==
    ASSUME NEW w, Good(w), Timed(w), EdgesOk(w), NEW n \in Nat
    PROVE  LET u == update_time(w, n)
           IN  /\ Good(u) /\ Timed(u) /\ EdgesOk(u) /\ u.log # <<>>
               /\ u.step = (IF w.step >= n THEN w.step ELSE n)
               /\ \A id, t0 : Keeps(w, u, id, t0)
<1> DEFINE u == update_time(w, n)
<1>0. /\ w.step \in Nat \cup {-1}
      /\ w.log = <<>> <=> w.step = -1
      /\ w.log # <<>> => LastTime(w) = 10 * w.step
  BY DEF Timed
<1>1. CASE w.step >= n
  <2>1. u = w /\ w.log # <<>>
    BY <1>0, <1>1 DEF update_time
  <2> QED
    BY <1>1, <2>1 DEF Keeps
<1>2. CASE ~(w.step >= n)
  <2> DEFINE v == IF n > 0 THEN ClocksOff(Stamped(w, 10 * n - 5)) ELSE w
             x == ClocksOn(Stamped(v, 10 * n))
  <2>1. u = [x EXCEPT !.step = n]
    BY <1>2 DEF update_time
  <2>2. w.log # <<>> => LastTime(w) < 10 * n - 5 /\ n > 0
    BY <1>0, <1>2
  <2>3. /\ Good(v) /\ v.step = w.step /\ EdgesOk(v)
        /\ v.log # <<>> => LastTime(v) < 10 * n
        /\ n > 0 => \A c \in Steady : Shows(v, <<c, NoElement>>, 10 * n - 5, 1 - On(c))
        /\ \A id, t0 : Keeps(w, v, id, t0)
    <3>1. CASE n > 0
      <4>1. v = ClocksOff(Stamped(w, 10 * n - 5))
        BY <3>1
      <4> HIDE DEF v
      <4>2. /\ Good(v) /\ v.step = w.step /\ EdgesOk(v)
            /\ LastTime(v) = 10 * n - 5
            /\ \A c \in Steady : Shows(v, <<c, NoElement>>, 10 * n - 5, 1 - On(c))
            /\ \A id, t0 : Keeps(w, v, id, t0)
        BY <2>2, <3>1, <4>1, HalfStamped
      <4> QED
        BY <4>2
    <3>2. CASE ~(n > 0)
      <4>1. v = w /\ w.log = <<>>
        BY <1>0, <1>2, <3>2
      <4> QED
        BY <3>2, <4>1 DEF Keeps
    <3> QED
      BY <3>1, <3>2
  <2> HIDE DEF v
  <2>4. /\ Good(x) /\ x.log # <<>> /\ x.step = v.step
        /\ LastTime(x) = 10 * n /\ EdgesOk(x)
        /\ \A id, t0 : Keeps(v, x, id, t0)
    BY <2>3, StepStamped
  <2> HIDE DEF x, u
  <2>5. /\ Good(u) /\ u.step = n /\ u.log = x.log /\ EdgesOk(u)
        /\ \A y, id, t0 : Keeps(y, x, id, t0) => Keeps(y, u, id, t0)
        /\ LastTime(u) = LastTime(x)
    BY <2>1, <2>4, StepSet
  <2>6. Timed(u)
    BY <2>4, <2>5 DEF Timed
  <2>7. \A id, t0 : Keeps(w, u, id, t0)
    BY <2>3, <2>4, <2>5, KeepsMore
  <2> QED
    BY <1>2, <2>4, <2>5, <2>6, <2>7 DEF u
<1> QED
  BY <1>1, <1>2

----------------------------------------------------------------------------
(* What is shown of a frame.                                               *)

Signals == Vectors \ DOMAIN Clocks

\* The lines of S hold at the time t what they hold in the frame f.
ShownIn(w, f, t, S) ==
    /\ \A id \in Signals \cap S : Shows(w, <<id, NoElement>>, t, f[id])
    /\ \A id \in Arrays \cap S : \A i \in DOMAIN f[id].data :
          Shows(w, <<id, i>>, t, f[id].data[i])

\* A bit-vector is shown as it was last seen.
PrevShown(w, prev) ==
    \A id \in Signals \cap DOMAIN prev : \A t \in Int :
        10 * w.step <= t => Shows(w, <<id, NoElement>>, t, prev[id])

LEMMA LinesApart ==
    /\ \A id \in Arrays : id \notin DOMAIN Clocks /\ id \notin Signals /\ id \in Named
    /\ \A id \in Signals : id \notin DOMAIN Clocks /\ id \notin Arrays /\ id \in Named
    /\ \A id \in Outputs \cup DOMAIN Clocks : id \notin Arrays /\ id \notin Signals
BY ClocksAssumption, LinesAssumption DEF Signals, Named

LEMMA ShownKept ==
    ASSUME NEW w, NEW u, NEW id, NEW t0 \in Int, Keeps(w, u, id, t0)
    PROVE  /\ \A f, S : \A t \in Int :
                 ShownIn(w, f, t, S) /\ (id \notin S \/ t < t0) => ShownIn(u, f, t, S)
           /\ \A prev : PrevShown(w, prev) /\ w.step <= u.step /\ w.step \in Int /\ u.step \in Int =>
                \A i \in Signals \cap DOMAIN prev : i # id => \A t \in Int :
                   10 * u.step <= t => Shows(u, <<i, NoElement>>, t, prev[i])
<1>1. ASSUME NEW f, NEW S, NEW t \in Int, ShownIn(w, f, t, S), id \notin S \/ t < t0
      PROVE  ShownIn(u, f, t, S)
  <2>1. ASSUME NEW a \in Signals \cap S PROVE Shows(u, <<a, NoElement>>, t, f[a])
    <3>1. Shows(w, <<a, NoElement>>, t, f[a]) /\ a \notin DOMAIN Clocks
      BY <1>1, LinesApart DEF ShownIn
    <3> QED
      BY <1>1, <3>1 DEF Keeps
  <2>2. ASSUME NEW a \in Arrays \cap S, NEW i \in DOMAIN f[a].data
        PROVE  Shows(u, <<a, i>>, t, f[a].data[i])
    <3>1. Shows(w, <<a, i>>, t, f[a].data[i]) /\ a \notin DOMAIN Clocks
      BY <1>1, <2>2, LinesApart DEF ShownIn
    <3> QED
      BY <1>1, <3>1 DEF Keeps
  <2> QED
    BY <2>1, <2>2 DEF ShownIn
<1>2. ASSUME NEW prev, PrevShown(w, prev), w.step <= u.step, w.step \in Int, u.step \in Int,
             NEW i \in Signals \cap DOMAIN prev, i # id, NEW t \in Int, 10 * u.step <= t
      PROVE  Shows(u, <<i, NoElement>>, t, prev[i])
  <2>1. 10 * w.step <= t
    BY <1>2
  <2>2. Shows(w, <<i, NoElement>>, t, prev[i]) /\ i \notin DOMAIN Clocks
    BY <1>2, <2>1, LinesApart DEF PrevShown
  <2> QED
    BY <1>2, <2>2 DEF Keeps
<1> QED
  BY <1>1, <1>2

\* Changes of one signal, or of the elements of one array.
LEMMA ChangesAdded ==
    ASSUME NEW w, Good(w), Timed(w), EdgesOk(w), w.log # <<>>,
           NEW id, id \notin DOMAIN Clocks, NEW u, NEW c, Extends(w, u, c),
           \A n \in DOMAIN c : c[n][1][1] = id
    PROVE  /\ Good(u) /\ Timed(u) /\ EdgesOk(u) /\ u.step = w.step
           /\ Keeps(w, u, id, 10 * w.step)
           /\ \A n \in DOMAIN c : \A t \in Int :
                 10 * w.step <= t => Shows(u, c[n][1], t, c[n][2])
<1>1. /\ Good(u) /\ u.step = w.step /\ u.log # <<>> /\ Len(u.log) = Len(w.log)
      /\ \A n \in DOMAIN w.log : u.log[n].time = w.log[n].time
  BY DEF Extends
<1>2. DOMAIN u.log = DOMAIN w.log /\ Len(w.log) \in DOMAIN w.log
  <2>1. u.log \in Seq(Entry) /\ w.log \in Seq(Entry)
    BY <1>1 DEF Good, Formed
  <2> QED
    BY <1>1, <2>1
<1>3. LastTime(u) = LastTime(w) /\ LastTime(w) = 10 * w.step /\ w.step \in Nat
  BY <1>1, <1>2 DEF LastTime, Timed
<1>4. Timed(u)
  BY <1>1, <1>3 DEF Timed
<1>5. ASSUME NEW a, NEW b, NEW t \in Int, NEW y, Shows(w, <<a, b>>, t, y), a # id \/ t < 10 * w.step
      PROVE  Shows(u, <<a, b>>, t, y)
  <2>1. LastTime(w) <= t => \A n \in DOMAIN c : c[n][1] = <<a, b>> => c[n][2] = y
    BY <1>3, <1>5
  <2> QED
    BY <1>5, <2>1 DEF Extends
<1>6. Keeps(w, u, id, 10 * w.step)
  BY <1>5 DEF Keeps
<1>7. ASSUME NEW n \in DOMAIN u.log, NEW i \in DOMAIN Clocks PROVE OnEdge(u, i, u.log[n].time)
  <2> DEFINE t == w.log[n].time
  <2>1. u.log[n].time = t /\ t \in Int /\ t - 5 \in Int
    BY <1>1, <1>2, TimesBounded
  <2>2. OnEdge(w, i, t)
    BY <1>2 DEF EdgesOk
  <2> HIDE DEF t
  <2> QED
    BY <1>5, <2>1, <2>2 DEF OnEdge
<1>8. EdgesOk(u)
  BY <1>7 DEF EdgesOk
<1>9. \A n \in DOMAIN c : \A t \in Int : 10 * w.step <= t => Shows(u, c[n][1], t, c[n][2])
  BY <1>3 DEF Extends
<1> QED
  BY <1>1, <1>4, <1>6, <1>8, <1>9

----------------------------------------------------------------------------
(* The invariant.                                                          *)

Frame == [Signals \cup Arrays -> VectorValues \cup ArrayValues]

Fits(f) ==
    /\ f \in Frame
    /\ \A id \in Signals : f[id] \in VectorValues
    /\ \A id \in Arrays : f[id] \in ArrayValues

Lines ==
    /\ mode \in Modes
    /\ pc \in {"simulate", "dump", "end"}
    /\ k \in 0 .. MaxFrames - 1
    /\ left \subseteq Named
    /\ DOMAIN prev_value \subseteq Vectors \cup Arrays
    /\ frames \in Seq(Frame)

Steps ==
    /\ pc = "simulate" => Len(frames) = k /\ writer.step < k
    /\ pc = "dump"     => Len(frames) = k /\ writer.step <= k
    /\ pc = "end"      => Len(frames) = k + 1 /\ writer.step <= k + 1

\* The frames dumped are shown, and so are the lines of the one being dumped that
\* are done.
Past(w, fs) == \A j \in 0 .. Len(fs) - 1 : ShownIn(w, fs[j + 1], 10 * j, Named)
Present == pc = "dump" => Fits(cur) /\ ShownIn(writer, cur, 10 * k, Named \ left)

WriterInv ==
    /\ Lines
    /\ Good(writer) /\ Timed(writer) /\ EdgesOk(writer)
    /\ Steps
    /\ Past(writer, frames) /\ Present
    /\ PrevShown(writer, prev_value)

LEMMA InvInit == Init => WriterInv
<1> SUFFICES ASSUME Init PROVE WriterInv
  OBVIOUS
<1>1. /\ mode \in Modes /\ pc = "simulate" /\ k = 0 /\ left = {} /\ frames = <<>>
      /\ DOMAIN prev_value = {} /\ MaxFrames \in Nat \ {0}
  BY FramesAssumption DEF Init, NoData
<1>2. Lines
  BY <1>1 DEF Lines
<1>3. /\ writer.step = -1 /\ writer.log = <<>> /\ DOMAIN writer.identifiers = {}
      /\ writer.identifiers = [p \in {} |-> 0]
      /\ writer = [step |-> writer.step, identifiers |-> writer.identifiers, log |-> writer.log]
  BY DEF Init, NewWriter, NoData
<1>4. Formed(writer)
  BY <1>3 DEF Formed
<1>5. Numbered(writer)
  BY <1>3, FS_EmptySet DEF Numbered, NumberedOnce
<1>6. Good(writer) /\ Timed(writer) /\ EdgesOk(writer)
  BY <1>3, <1>4, <1>5 DEF Good, Known, TimesInOrder, Timed, EdgesOk
<1>7. Steps /\ Past(writer, frames) /\ Present /\ PrevShown(writer, prev_value)
  BY <1>1, <1>3 DEF Steps, Past, Present, PrevShown
<1> QED
  BY <1>2, <1>6, <1>7 DEF WriterInv

LEMMA InvSimulate == WriterInv /\ Simulate => WriterInv'
<1> SUFFICES ASSUME WriterInv, Simulate PROVE WriterInv'
  OBVIOUS
<1>1. PICK v \in [Signals -> VectorValues], a \in [Arrays -> ArrayValues] :
        cur' = [i \in Signals \cup Arrays |-> IF i \in Arrays THEN a[i] ELSE v[i]]
  BY DEF Simulate, Signals
<1>2. /\ pc = "simulate" /\ pc' = "dump" /\ left' = Named
      /\ UNCHANGED <<mode, k, prev_value, writer, frames>>
  BY DEF Simulate
<1>3. Lines'
  BY <1>2 DEF WriterInv, Lines
<1>4. Steps'
  <2>1. writer.step \in Int /\ k \in Int
    BY DEF WriterInv, Timed, Lines
  <2> QED
    BY <1>2, <2>1 DEF WriterInv, Steps
<1>5. Fits(cur')
  BY <1>1, LinesApart DEF Fits, Frame
<1>6. ShownIn(writer, cur', 10 * k, Named \ Named)
  BY DEF ShownIn
<1>7. Present'
  BY <1>2, <1>5, <1>6 DEF Present
<1> QED
  BY <1>2, <1>3, <1>4, <1>7 DEF WriterInv

\* The rest of the writer's lines when the line id is done.
LEMMA InvDumped ==
    ASSUME WriterInv, pc = "dump", NEW id \in left,
           left' = left \ {id}, UNCHANGED <<mode, pc, k, cur, frames>>,
           DOMAIN prev_value' \subseteq Vectors \cup Arrays,
           Good(writer'), Timed(writer'), EdgesOk(writer'),
           writer.step <= writer'.step, writer'.step <= k,
           Keeps(writer, writer', id, 10 * k),
           \A i \in Signals \cap DOMAIN prev_value' : i # id =>
              i \in DOMAIN prev_value /\ prev_value'[i] = prev_value[i],
           id \in Signals \cap DOMAIN prev_value' => \A t \in Int :
              10 * writer'.step <= t => Shows(writer', <<id, NoElement>>, t, prev_value'[id]),
           id \in Signals => Shows(writer', <<id, NoElement>>, 10 * k, cur[id]),
           id \in Arrays => \A i \in DOMAIN cur[id].data :
              Shows(writer', <<id, i>>, 10 * k, cur[id].data[i])
    PROVE  WriterInv'
<1>0. /\ k \in Int /\ writer.step \in Int /\ writer'.step \in Int
      /\ Len(frames) = k /\ 10 * k \in Int
  BY DEF WriterInv, Lines, Timed, Steps
<1>1. Lines'
  BY DEF WriterInv, Lines
<1>2. Steps'
  BY <1>0 DEF Steps
<1>3. Past(writer', frames')
  <2> SUFFICES ASSUME NEW j \in 0 .. Len(frames) - 1
               PROVE  ShownIn(writer', frames[j + 1], 10 * j, Named)
    BY DEF Past
  <2>1. ShownIn(writer, frames[j + 1], 10 * j, Named) /\ 10 * j \in Int /\ 10 * j < 10 * k
    BY <1>0 DEF WriterInv, Past
  <2> QED
    BY <1>0, <2>1, ShownKept
<1>4. Present'
  <2>1. ShownIn(writer, cur, 10 * k, Named \ left) /\ Fits(cur)
    BY DEF WriterInv, Present
  <2>2. ShownIn(writer', cur, 10 * k, Named \ left)
    <3>1. id \notin Named \ left
      OBVIOUS
    <3> QED
      BY <1>0, <2>1, <3>1, ShownKept
  <2>3. ShownIn(writer', cur, 10 * k, Named \ (left \ {id}))
    BY <2>2 DEF ShownIn
  <2> QED
    BY <2>1, <2>3 DEF Present
<1>5. PrevShown(writer', prev_value')
  <2> SUFFICES ASSUME NEW i \in Signals \cap DOMAIN prev_value', NEW t \in Int,
                      10 * writer'.step <= t
               PROVE  Shows(writer', <<i, NoElement>>, t, prev_value'[i])
    BY DEF PrevShown
  <2>1. CASE i = id
    BY <2>1
  <2>2. CASE i # id
    <3>1. i \in DOMAIN prev_value /\ prev_value'[i] = prev_value[i]
      BY <2>2
    <3>2. PrevShown(writer, prev_value)
      BY DEF WriterInv
    <3>3. Shows(writer', <<i, NoElement>>, t, prev_value[i])
      BY <1>0, <2>2, <3>1, <3>2, ShownKept
    <3> QED
      BY <3>1, <3>3
  <2> QED
    BY <2>1, <2>2
<1> QED
  BY <1>1, <1>2, <1>3, <1>4, <1>5 DEF WriterInv

LEMMA InvVector ==
    ASSUME WriterInv, pc = "dump", NEW id \in left, AddVector(id),
           left' = left \ {id}, UNCHANGED <<mode, pc, k, cur, frames>>
    PROVE  WriterInv'
<1>0. id \in Signals /\ id \notin Arrays /\ id \notin DOMAIN Clocks /\ id \in Vectors
  BY LinesApart DEF AddVector, Signals
<1>1. /\ Good(writer) /\ Timed(writer) /\ EdgesOk(writer)
      /\ k \in Nat /\ writer.step \in Int /\ writer.step <= k /\ 10 * k \in Int
      /\ cur[id] \in VectorValues /\ cur[id] \in Shownable
      /\ DOMAIN prev_value \subseteq Vectors \cup Arrays
  BY <1>0 DEF WriterInv, Lines, Steps, Timed, Present, Fits, Shownable
<1>2. CASE NewVector(id, cur[id])
  <2> DEFINE w == update_time(writer, k)
             c == <<<<<<id, NoElement>>, cur[id]>>>>
  <2>1. writer' = Changed(w, <<id, NoElement>>, cur[id]) /\ prev_value' = With(prev_value, id, cur[id])
    BY <1>2 DEF AddVector
  <2>2. /\ Good(w) /\ Timed(w) /\ EdgesOk(w) /\ w.log # <<>>
        /\ w.step = (IF writer.step >= k THEN writer.step ELSE k)
        /\ Keeps(writer, w, id, 10 * k)
    <3> HIDE DEF w
    <3> QED
      BY <1>1, UpdateFacts DEF w
  <2> HIDE DEF w
  <2>3. w.step = k
    BY <1>1, <2>2
  <2>4. Extends(w, writer', c)
    BY <1>1, <2>1, <2>2, ChangedFacts
  <2>5. DOMAIN c = {1} /\ c[1][1] = <<id, NoElement>> /\ c[1][1][1] = id /\ c[1][2] = cur[id]
    OBVIOUS
  <2> HIDE DEF c
  <2>6. /\ Good(writer') /\ Timed(writer') /\ EdgesOk(writer') /\ writer'.step = k
        /\ Keeps(w, writer', id, 10 * k)
        /\ \A t \in Int : 10 * k <= t => Shows(writer', <<id, NoElement>>, t, cur[id])
    <3>1. \A n \in DOMAIN c : c[n][1][1] = id
      BY <2>5
    <3>2. /\ Good(writer') /\ Timed(writer') /\ EdgesOk(writer') /\ writer'.step = w.step
          /\ Keeps(w, writer', id, 10 * w.step)
          /\ \A n \in DOMAIN c : \A t \in Int :
               10 * w.step <= t => Shows(writer', c[n][1], t, c[n][2])
      BY <1>0, <2>2, <2>4, <3>1, ChangesAdded
    <3> QED
      BY <2>3, <2>5, <3>2
  <2>7. Keeps(writer, writer', id, 10 * k)
    BY <2>2, <2>6, KeepsMore
  <2>8. /\ DOMAIN prev_value' = DOMAIN prev_value \cup {id}
        /\ prev_value'[id] = cur[id]
        /\ \A i \in DOMAIN prev_value : i # id => prev_value'[i] = prev_value[i]
    BY <2>1 DEF With
  <2>9. Shows(writer', <<id, NoElement>>, 10 * k, cur[id])
    BY <1>1, <2>6
  <2> QED
    BY <1>0, <1>1, <2>6, <2>7, <2>8, <2>9, InvDumped
<1>3. CASE ~NewVector(id, cur[id])
  <2>1. UNCHANGED <<writer, prev_value>>
    BY <1>3 DEF AddVector
  <2>2. id \in DOMAIN prev_value /\ prev_value[id] = cur[id]
    BY <1>3 DEF NewVector
  <2>3. \A t \in Int : 10 * writer.step <= t => Shows(writer, <<id, NoElement>>, t, prev_value[id])
    BY <1>0, <2>2 DEF WriterInv, PrevShown
  <2>4. Shows(writer, <<id, NoElement>>, 10 * k, cur[id])
    BY <1>1, <2>2, <2>3
  <2>5. Keeps(writer, writer', id, 10 * k)
    BY <2>1 DEF Keeps
  <2> QED
    BY <1>0, <1>1, <2>1, <2>3, <2>4, <2>5, InvDumped
<1> QED
  BY <1>2, <1>3

LEMMA InvArray ==
    ASSUME WriterInv, pc = "dump", NEW id \in left, AddArray(id),
           left' = left \ {id}, UNCHANGED <<mode, pc, k, cur, frames>>
    PROVE  WriterInv'
<1>0. id \in Arrays /\ id \notin Signals /\ id \notin DOMAIN Clocks
  BY LinesApart DEF AddArray
<1> DEFINE m == cur[id]
           w == update_time(writer, k)
<1>1. /\ Good(writer) /\ Timed(writer) /\ EdgesOk(writer)
      /\ k \in Nat /\ writer.step \in Int /\ writer.step <= k /\ 10 * k \in Int
      /\ m \in ArrayValues
      /\ DOMAIN prev_value \subseteq Vectors \cup Arrays
  BY <1>0 DEF WriterInv, Lines, Steps, Timed, Present, Fits
<1>2. IsFiniteSet(DOMAIN m.data)
  BY <1>1, LinesAssumption
<1>3. PICK s \in SetToSeqs(DOMAIN m.data) :
        writer' = AllChanged(w, [n \in DOMAIN s |-> <<<<id, s[n]>>, m.data[s[n]]>>])
  BY DEF AddArray, NewElements
<1> DEFINE c == [n \in DOMAIN s |-> <<<<id, s[n]>>, m.data[s[n]]>>]
<1>4. /\ Len(s) \in Nat /\ DOMAIN s = 1 .. Len(s)
      /\ \A n \in DOMAIN s : s[n] \in DOMAIN m.data
      /\ \A i \in DOMAIN m.data : \E n \in DOMAIN s : s[n] = i
  <2> HIDE DEF m
  <2> QED
    BY <1>2, <1>3, SeqsFacts
<1>5. Len(c) \in Nat /\ DOMAIN c = 1 .. Len(c) /\ DOMAIN c = DOMAIN s
  BY <1>4
<1>6. \A n \in DOMAIN c : c[n][1] = <<id, s[n]>> /\ c[n][1][1] = id /\ c[n][2] = m.data[s[n]]
  OBVIOUS
<1>7. writer' = AllChanged(w, c)
  BY <1>3
<1> HIDE DEF c, m
<1>8. /\ Good(w) /\ Timed(w) /\ EdgesOk(w) /\ w.log # <<>>
      /\ w.step = (IF writer.step >= k THEN writer.step ELSE k)
      /\ Keeps(writer, w, id, 10 * k)
  <2> HIDE DEF w
  <2> QED
    BY <1>1, UpdateFacts DEF w
<1> HIDE DEF w
<1>9. w.step = k
  BY <1>1, <1>8
<1>10. \A n \in DOMAIN c : c[n][2] \in Shownable
  <2> TAKE n \in DOMAIN c
  <2>1. s[n] \in DOMAIN m.data /\ c[n][2] = m.data[s[n]]
    BY <1>4, <1>5, <1>6
  <2>2. c[n][2] \in {m.data[i] : i \in DOMAIN m.data}
    BY <2>1
  <2> QED
    BY <1>1, <2>2 DEF Shownable
<1>11. ASSUME NEW i \in DOMAIN c, NEW j \in DOMAIN c, c[i][1] = c[j][1] PROVE c[i][2] = c[j][2]
  <2>1. <<id, s[i]>> = <<id, s[j]>>
    BY <1>6, <1>11
  <2>2. s[i] = s[j]
    BY <2>1
  <2> QED
    BY <1>6, <2>2
<1>12. Extends(w, writer', c)
  BY <1>5, <1>7, <1>8, <1>10, <1>11, AllChangedFacts
<1>13. /\ Good(writer') /\ Timed(writer') /\ EdgesOk(writer') /\ writer'.step = k
       /\ Keeps(w, writer', id, 10 * k)
       /\ \A n \in DOMAIN c : \A t \in Int :
            10 * k <= t => Shows(writer', c[n][1], t, c[n][2])
  <2>1. \A n \in DOMAIN c : c[n][1][1] = id
    BY <1>6
  <2>2. /\ Good(writer') /\ Timed(writer') /\ EdgesOk(writer') /\ writer'.step = w.step
        /\ Keeps(w, writer', id, 10 * w.step)
        /\ \A n \in DOMAIN c : \A t \in Int :
             10 * w.step <= t => Shows(writer', c[n][1], t, c[n][2])
    BY <1>0, <1>8, <1>12, <2>1, ChangesAdded
  <2> QED
    BY <1>9, <2>2
<1>14. Keeps(writer, writer', id, 10 * k)
  BY <1>8, <1>13, KeepsMore
<1>15. prev_value' = With(prev_value, id, Copy(cur[id]))
  BY DEF AddArray
<1>16. /\ DOMAIN prev_value' = DOMAIN prev_value \cup {id}
       /\ \A i \in DOMAIN prev_value : i # id => prev_value'[i] = prev_value[i]
  BY <1>15 DEF With
<1>17. ASSUME NEW i \in DOMAIN cur[id].data
       PROVE  Shows(writer', <<id, i>>, 10 * k, cur[id].data[i])
  <2>1. PICK n \in DOMAIN s : s[n] = i
    BY <1>4, <1>17 DEF m
  <2>2. Shows(writer', c[n][1], 10 * k, c[n][2])
    BY <1>1, <1>5, <1>13, <2>1
  <2> QED
    BY <1>5, <1>6, <2>1, <2>2 DEF m
<1>18. /\ DOMAIN prev_value' \subseteq Vectors \cup Arrays
       /\ writer.step <= writer'.step /\ writer'.step <= k
  BY <1>0, <1>1, <1>13, <1>16
<1>19. \A i \in Signals \cap DOMAIN prev_value' : i # id =>
          i \in DOMAIN prev_value /\ prev_value'[i] = prev_value[i]
  BY <1>16
<1> QED
  BY <1>0, <1>13, <1>14, <1>17, <1>18, <1>19, InvDumped

LEMMA InvNothing ==
    ASSUME WriterInv, pc = "dump", NEW id \in left, AddNothing(id),
           left' = left \ {id}, UNCHANGED <<mode, pc, k, cur, frames>>
    PROVE  WriterInv'
<1>1. id \notin Arrays /\ id \notin Signals /\ UNCHANGED <<writer, prev_value>>
  BY LinesApart DEF AddNothing
<1>2. /\ Good(writer) /\ Timed(writer) /\ EdgesOk(writer)
      /\ writer.step \in Int /\ writer.step <= k
      /\ DOMAIN prev_value \subseteq Vectors \cup Arrays
  BY DEF WriterInv, Lines, Steps, Timed
<1>3. Keeps(writer, writer', id, 10 * k)
  BY <1>1 DEF Keeps
<1>4. /\ DOMAIN prev_value' \subseteq Vectors \cup Arrays
      /\ Good(writer') /\ Timed(writer') /\ EdgesOk(writer')
      /\ writer.step <= writer'.step /\ writer'.step <= k
  BY <1>1, <1>2
<1>5. \A i \in Signals \cap DOMAIN prev_value' : i # id =>
         i \in DOMAIN prev_value /\ prev_value'[i] = prev_value[i]
  BY <1>1
<1> QED
  BY <1>1, <1>3, <1>4, <1>5, InvDumped

LEMMA InvAdd == WriterInv /\ AddValueChange => WriterInv'
<1> SUFFICES ASSUME WriterInv, AddValueChange PROVE WriterInv'
  OBVIOUS
<1> DEFINE id == CHOOSE i \in left : \A j \in left : i <= j
<1>1. /\ pc = "dump" /\ left # {}
      /\ AddVector(id) \/ AddArray(id) \/ AddNothing(id)
      /\ left' = left \ {id} /\ UNCHANGED <<mode, pc, k, cur, frames>>
  BY DEF AddValueChange
<1>2. id \in left
  <2>1. left \in SUBSET Nat
    BY LinesAssumption DEF WriterInv, Lines
  <2> QED
    BY <1>1, <2>1, LeastNumber
<1> HIDE DEF id
<1> QED
  BY <1>1, <1>2, InvVector, InvArray, InvNothing

LEMMA InvFrameDumped == WriterInv /\ FrameDumped => WriterInv'
<1> SUFFICES ASSUME WriterInv, FrameDumped PROVE WriterInv'
  OBVIOUS
<1>1. /\ pc = "dump" /\ left = {} /\ frames' = Append(frames, cur)
      /\ UNCHANGED <<mode, cur, left, prev_value>>
      /\ \/ k + 1 < MaxFrames /\ pc' = "simulate" /\ k' = k + 1 /\ writer' = writer
         \/ /\ pc' = "end" /\ k' = k
            /\ writer' = IF mode = "sat" THEN update_time(writer, k + 1) ELSE writer
  BY DEF FrameDumped
<1>2. /\ Good(writer) /\ Timed(writer) /\ EdgesOk(writer)
      /\ k \in Nat /\ k < MaxFrames /\ MaxFrames \in Nat
      /\ writer.step \in Int /\ writer.step <= k
      /\ frames \in Seq(Frame) /\ cur \in Frame /\ Len(frames) = k
      /\ ShownIn(writer, cur, 10 * k, Named)
      /\ Past(writer, frames) /\ PrevShown(writer, prev_value)
  BY <1>1, FramesAssumption DEF WriterInv, Lines, Steps, Timed, Present, Fits
<1>3. /\ frames' \in Seq(Frame) /\ Len(frames') = k + 1
      /\ frames'[k + 1] = cur /\ \A j \in 0 .. k - 1 : frames'[j + 1] = frames[j + 1]
  BY <1>1, <1>2
<1>4. Past(writer, frames')
  <2> SUFFICES ASSUME NEW j \in 0 .. k PROVE ShownIn(writer, frames'[j + 1], 10 * j, Named)
    BY <1>2, <1>3 DEF Past
  <2>1. CASE j = k
    BY <1>2, <1>3, <2>1
  <2>2. CASE j \in 0 .. k - 1
    BY <1>2, <1>3, <2>2 DEF Past
  <2> QED
    BY <1>2, <2>1, <2>2
<1>5. Present'
  BY <1>1 DEF Present
<1>6. CASE k + 1 < MaxFrames /\ pc' = "simulate" /\ k' = k + 1 /\ writer' = writer
  <2>1. Lines'
    BY <1>1, <1>2, <1>3, <1>6 DEF WriterInv, Lines
  <2>2. Steps'
    BY <1>2, <1>3, <1>6 DEF Steps
  <2> QED
    BY <1>1, <1>2, <1>4, <1>5, <1>6, <2>1, <2>2 DEF WriterInv
<1>7. CASE pc' = "end" /\ k' = k /\ writer' = (IF mode = "sat" THEN update_time(writer, k + 1) ELSE writer)
  <2>1. Lines'
    BY <1>1, <1>2, <1>3, <1>7 DEF WriterInv, Lines
  <2>2. CASE mode # "sat"
    <3>1. Steps' /\ writer' = writer
      BY <1>2, <1>3, <1>7, <2>2 DEF Steps
    <3> QED
      BY <1>1, <1>2, <1>4, <1>5, <2>1, <3>1 DEF WriterInv
  <2>3. CASE mode = "sat"
    <3>1. writer' = update_time(writer, k + 1)
      BY <1>7, <2>3
    <3>2. /\ Good(writer') /\ Timed(writer') /\ EdgesOk(writer')
          /\ writer'.step = k + 1
          /\ \A id, t0 : Keeps(writer, writer', id, t0)
      <4> DEFINE n == k + 1
                 u == update_time(writer, n)
      <4>1. n \in Nat /\ ~(writer.step >= n)
        BY <1>2
      <4> HIDE DEF n, u
      <4>2. /\ Good(u) /\ Timed(u) /\ EdgesOk(u)
            /\ u.step = (IF writer.step >= n THEN writer.step ELSE n)
            /\ \A id, t0 : Keeps(writer, u, id, t0)
        BY <1>2, <4>1, UpdateFacts DEF u
      <4> QED
        BY <3>1, <4>1, <4>2 DEF n, u
    <3>3. Steps'
      BY <1>2, <1>3, <1>7, <3>2 DEF Steps
    <3>4. Past(writer', frames')
      <4>0. 0 .. Len(frames') - 1 = 0 .. k
        BY <1>2, <1>3
      <4> SUFFICES ASSUME NEW j \in 0 .. k PROVE ShownIn(writer', frames'[j + 1], 10 * j, Named)
        BY <4>0 DEF Past
      <4>1. ShownIn(writer, frames'[j + 1], 10 * j, Named)
        BY <1>2, <1>3, <1>4 DEF Past
      <4>2. 10 * j \in Int /\ 10 * j + 1 \in Int /\ 10 * j < 10 * j + 1
        BY <1>2
      <4>3. Keeps(writer, writer', 0, 10 * j + 1)
        BY <3>2
      <4> QED
        BY <4>1, <4>2, <4>3, ShownKept
    <3>5. PrevShown(writer', prev_value)
      <4> SUFFICES ASSUME NEW i \in Signals \cap DOMAIN prev_value, NEW t \in Int,
                          10 * writer'.step <= t
                   PROVE  Shows(writer', <<i, NoElement>>, t, prev_value[i])
        BY DEF PrevShown
      <4>1. i \in Nat
        BY LinesApart, LinesAssumption
      <4>2. i # i + 1 /\ Keeps(writer, writer', i + 1, 0)
        BY <3>2, <4>1
      <4> QED
        BY <1>2, <3>2, <4>2, ShownKept
    <3> QED
      BY <1>1, <1>5, <2>1, <3>2, <3>3, <3>4, <3>5 DEF WriterInv
  <2> QED
    BY <2>2, <2>3
<1> QED
  BY <1>1, <1>6, <1>7

LEMMA InvNext == WriterInv /\ [Next]_vars => WriterInv'
<1> SUFFICES ASSUME WriterInv, [Next]_vars PROVE WriterInv'
  OBVIOUS
<1>1. CASE UNCHANGED vars
  BY <1>1 DEF vars, WriterInv, Lines, Steps, Present
<1>2. CASE Simulate
  BY <1>2, InvSimulate
<1>3. CASE AddValueChange
  BY <1>3, InvAdd
<1>4. CASE FrameDumped
  BY <1>4, InvFrameDumped
<1>5. CASE Terminated
  BY <1>1, <1>5 DEF Terminated
<1> QED
  BY <1>1, <1>2, <1>3, <1>4, <1>5 DEF Next

\* In every reachable state the log is in order, has the clocks on their edges
\* and shows all frames dumped: what update_time and add_value_change keep true.
THEOREM WriterInvariant == Spec => []WriterInv
BY InvInit, InvNext, PTL DEF Spec

\* The variables have their types.
THEOREM Typing == Spec => []TypeOK
<1>1. ASSUME WriterInv PROVE TypeOK
  <2>1. Lines /\ Steps /\ Timed(writer) /\ MaxFrames \in Nat
    BY <1>1, FramesAssumption DEF WriterInv
  <2>2. writer.step \in -1 .. k + 1 /\ Len(frames) <= MaxFrames
    BY <2>1 DEF Lines, Steps, Timed
  <2> QED
    BY <2>1, <2>2 DEF TypeOK, Lines
<1> QED
  BY <1>1, WriterInvariant, PTL

\* get_bv_identifier and get_am_identifier never give two signals the same
\* identifier, however many characters generate_next_identifier uses.
THEOREM Identifiers == Spec => []IdentifiersUnique
<1>1. WriterInv => IdentifiersUnique
  BY DEF WriterInv, Good, Numbered, NumberedOnce, IdentifiersUnique
<1> QED
  BY <1>1, WriterInvariant, PTL

\* The time stamps update_time writes ascend.
THEOREM Times == Spec => []TimesAscend
<1>1. WriterInv => TimesAscend
  BY DEF WriterInv, Good, TimesInOrder, TimesAscend, Log
<1> QED
  BY <1>1, WriterInvariant, PTL

\* Although add_value_change only writes what differs from prev_value, a viewer
\* shows every bit-vector as it is in each frame dumped, and every stored element.
THEOREM ValuesAreShown == Spec => []ValuesShown
<1>1. ASSUME WriterInv, NEW j \in Frames PROVE VectorsShown(j) /\ ElementsShown(j)
  <2>1. Formed(writer)
    BY <1>1 DEF WriterInv, Good
  <2>2. ShownIn(writer, frames[j + 1], 10 * j, Named)
    BY <1>1 DEF WriterInv, Past, Frames
  <2>3. ASSUME NEW id \in Signals
        PROVE  Shown(<<id, NoElement>>, 10 * j) = frames[j + 1][id]
    <3>1. Shows(writer, <<id, NoElement>>, 10 * j, frames[j + 1][id])
      BY <2>2, LinesApart DEF ShownIn
    <3> QED
      BY <2>1, <3>1, ShowsShown
  <2>4. ASSUME NEW id \in Arrays, NEW i \in DOMAIN frames[j + 1][id].data
        PROVE  Shown(<<id, i>>, 10 * j) = frames[j + 1][id].data[i]
    <3>1. Shows(writer, <<id, i>>, 10 * j, frames[j + 1][id].data[i])
      BY <2>2, LinesApart DEF ShownIn
    <3> QED
      BY <2>1, <3>1, ShowsShown
  <2> QED
    BY <2>3, <2>4 DEF VectorsShown, ElementsShown, InFrame, Signals
<1>2. WriterInv => ValuesShown
  BY <1>1 DEF ValuesShown
<1> QED
  BY <1>2, WriterInvariant, PTL

\* Whatever frames are without a change, the clocks are on at each step in the log
\* and off half a step before.
THEOREM Edges == Spec => []ChangesOnEdges
<1>1. ASSUME WriterInv, NEW n \in DOMAIN Log, NEW c \in DOMAIN Clocks, Log[n].time % 10 = 0
      PROVE  /\ Shown(<<c, NoElement>>, Log[n].time) = On(c)
             /\ Log[n].time > 0 /\ Clocks[c] # "event" =>
                  Shown(<<c, NoElement>>, Log[n].time - 5) = 1 - On(c)
  <2>1. Formed(writer)
    BY <1>1 DEF WriterInv, Good
  <2>2. OnEdge(writer, c, Log[n].time)
    BY <1>1 DEF WriterInv, EdgesOk, Log
  <2>3. Shows(writer, <<c, NoElement>>, Log[n].time, On(c))
    BY <1>1, <2>2 DEF OnEdge
  <2>4. Log[n].time > 0 /\ Clocks[c] # "event" =>
          Shows(writer, <<c, NoElement>>, Log[n].time - 5, 1 - On(c))
    BY <1>1, <2>2 DEF OnEdge, Steady
  <2> QED
    BY <2>1, <2>3, <2>4, ShowsShown
<1>2. WriterInv => ChangesOnEdges
  BY <1>1 DEF ChangesOnEdges
<1> QED
  BY <1>2, WriterInvariant, PTL

=============================================================================
