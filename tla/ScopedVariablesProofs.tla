------------------------ MODULE ScopedVariablesProofs ------------------------
(***************************************************************************)
(* Proofs about ScopedVariables, for every depth of scopes, every number   *)
(* of variables and of functions: each jump and each exception runs the    *)
(* destructors of the variables it takes out of scope.                     *)
(***************************************************************************)
EXTENDS ScopedVariables, SequenceTheorems, FiniteSetTheorems, TLAPS

\* Calls may be put together in any grouping.
LEMMA Associative ==
    ASSUME NEW S, NEW u \in Seq(S), NEW v \in Seq(S), NEW w \in Seq(S)
    PROVE  u \o (v \o w) = (u \o v) \o w
BY ConcatAssociative

\* What is declared: AstDeclareVariable's variables and thrown objects.
Objects == [id : Nat, nontrivial : BOOLEAN]

\* Induction over the natural numbers, for a set in place of a predicate: the
\* intervals from 0 are well-founded.
LEMMA SetInduction ==
    ASSUME NEW S, 0 \in S, \A n \in Nat : n \in S => n + 1 \in S
    PROVE  Nat \subseteq S
<1> SUFFICES ASSUME NEW m \in Nat, m \notin S PROVE FALSE
  OBVIOUS
<1> DEFINE T == {0 .. k : k \in Nat \ S}
           R == StrictSubsetOrdering(Nat)
<1>1. T \subseteq FiniteSubsetsOf(Nat)
  <2>1. \A k \in Nat : IsFiniteSet(0 .. k) /\ 0 .. k \in SUBSET Nat
    BY FS_Interval
  <2>2. QED
    BY <2>1 DEF FiniteSubsetsOf
<1>2. 0 .. m \in T
  OBVIOUS
<1>3. IsWellFoundedOn(R, FiniteSubsetsOf(Nat))
  BY FS_StrictSubsetOrderingWellFounded
<1>4. PICK x \in T : \A y \in T : <<y, x>> \notin R
  <2> HIDE DEF T, R
  <2>1. T # {}
    BY <1>2
  <2>2. QED
    BY <1>1, <1>3, <2>1, WFMin
<1>5. PICK k \in Nat \ S : x = 0 .. k
  BY <1>4
<1>6. k - 1 \in Nat \ S
  BY <1>5
<1>7. 0 .. k - 1 \in T
  BY <1>6
<1>8. <<0 .. k - 1, 0 .. k>> \in R
  <2>1. 0 .. k - 1 \in SUBSET Nat /\ 0 .. k \in SUBSET Nat
    BY <1>5, <1>6
  <2>2. k \in 0 .. k /\ k \notin 0 .. k - 1
    BY <1>5
  <2>3. 0 .. k - 1 \subseteq 0 .. k /\ 0 .. k - 1 # 0 .. k
    BY <1>5, <2>2
  <2>4. QED
    BY <2>1, <2>3 DEF StrictSubsetOrdering
<1>9. QED
  BY <1>4, <1>5, <1>7, <1>8

(***************************************************************************)
(* The destructor calls for a list of variables.                           *)
(***************************************************************************)
\* f has the calls for the first n variables of s, for each n.
Calls(s, f) ==
    f = [n \in 0 .. Len(s) |->
            IF n = 0 THEN <<>>
            ELSE IF s[n].nontrivial THEN <<s[n]>> \o f[n - 1]
            ELSE f[n - 1]]

\* The calls of f as equations.
Calling(s, f) ==
    /\ f \in [0 .. Len(s) -> Seq(Objects)]
    /\ f[0] = <<>>
    /\ \A n \in 1 .. Len(s) :
          f[n] = IF s[n].nontrivial THEN <<s[n]>> \o f[n - 1] ELSE f[n - 1]

LEMMA CallingCalls ==
    ASSUME NEW s \in Seq(Objects), NEW f, Calling(s, f)
    PROVE  Calls(s, f)
<1>1. \A n \in 0 .. Len(s) : n = 0 \/ n \in 1 .. Len(s)
  OBVIOUS
<1>2. \A n \in 0 .. Len(s) :
         f[n] = IF n = 0 THEN <<>>
                ELSE IF s[n].nontrivial THEN <<s[n]>> \o f[n - 1]
                ELSE f[n - 1]
  BY <1>1 DEF Calling
<1>3. f = [n \in 0 .. Len(s) |-> f[n]]
  BY DEF Calling
<1>4. QED
  BY <1>2, <1>3 DEF Calls

\* The calls exist.
LEMMA CallsExist ==
    ASSUME NEW s \in Seq(Objects)
    PROVE  \E f : Calling(s, f)
<1> DEFINE S == {m \in Nat : m <= Len(s) => \E f : Calling(SubSeq(s, 1, m), f)}
<1>1. 0 \in S
  <2> DEFINE g == [n \in 0 .. 0 |-> <<>>]
  <2>1. SubSeq(s, 1, 0) = <<>>
    BY SubSeqEmpty
  <2>2. Calling(<<>>, g)
    BY DEF Calling
  <2>3. QED
    BY <2>1, <2>2
<1>2. ASSUME NEW m \in Nat, m \in S PROVE m + 1 \in S
  <2> SUFFICES ASSUME m + 1 <= Len(s)
               PROVE  \E f : Calling(SubSeq(s, 1, m + 1), f)
    OBVIOUS
  <2> DEFINE a == SubSeq(s, 1, m)
             b == SubSeq(s, 1, m + 1)
  <2>1. PICK f : Calling(a, f)
    BY <1>2
  <2>2. /\ Len(a) = m /\ Len(b) = m + 1
        /\ \A i \in 1 .. m : b[i] = a[i]
        /\ b[m + 1] \in Objects
    <3>1. \A i \in 1 .. m + 1 : s[i] \in Objects
      BY ElementOfSeq
    <3>2. /\ Len(a) = m /\ \A i \in 1 .. m : a[i] = s[i]
      BY <3>1
    <3>3. /\ Len(b) = m + 1 /\ \A i \in 1 .. m + 1 : b[i] = s[i]
      BY <3>1
    <3>4. QED
      BY <3>1, <3>2, <3>3
  <2> HIDE DEF a, b
  <2> DEFINE last == IF b[m + 1].nontrivial THEN <<b[m + 1]>> \o f[m] ELSE f[m]
             g == [n \in 0 .. m + 1 |-> IF n = m + 1 THEN last ELSE f[n]]
  <2>3. last \in Seq(Objects)
    <3>1. f[m] \in Seq(Objects)
      BY <2>1, <2>2 DEF Calling
    <3>2. <<b[m + 1]>> \in Seq(Objects)
      BY <2>2
    <3>3. QED
      BY <3>1, <3>2, ConcatProperties
  <2>4. g[m + 1] = last /\ \A n \in 0 .. m : g[n] = f[n]
    OBVIOUS
  <2>5. g \in [0 .. m + 1 -> Seq(Objects)]
    BY <2>1, <2>2, <2>3 DEF Calling
  <2> HIDE DEF g
  <2>6. ASSUME NEW n \in 1 .. m + 1
        PROVE  g[n] = IF b[n].nontrivial THEN <<b[n]>> \o g[n - 1] ELSE g[n - 1]
    <3>1. CASE n = m + 1
      BY <2>4, <3>1
    <3>2. CASE n # m + 1
      <4>1. n \in 1 .. m /\ n - 1 \in 0 .. m /\ n \in 0 .. m
        BY <3>2
      <4>2. f[n] = IF a[n].nontrivial THEN <<a[n]>> \o f[n - 1] ELSE f[n - 1]
        BY <2>1, <2>2, <4>1 DEF Calling
      <4>3. g[n] = f[n] /\ g[n - 1] = f[n - 1] /\ b[n] = a[n]
        BY <2>2, <2>4, <4>1
      <4>4. QED
        BY <4>2, <4>3, Zenon
    <3>3. QED
      BY <3>1, <3>2
  <2>7. g[0] = <<>>
    BY <2>1, <2>4 DEF Calling
  <2>8. Calling(b, g)
    BY <2>2, <2>5, <2>6, <2>7 DEF Calling
  <2>9. QED
    BY <2>8 DEF b
<1> HIDE DEF S
<1>3. Len(s) \in S
  <2>1. Len(s) \in Nat
    OBVIOUS
  <2>2. Nat \subseteq S
    BY <1>1, <1>2, SetInduction
  <2>3. QED
    BY <2>1, <2>2
<1>4. SubSeq(s, 1, Len(s)) = s
  BY SubSeqFull
<1>5. \E f : Calling(SubSeq(s, 1, Len(s)), f)
  <2>1. Len(s) <= Len(s)
    OBVIOUS
  <2>2. QED
    BY <1>3, <2>1, Zenon DEF S
<1>6. QED
  BY <1>4, <1>5, Zenon

\* Functions that have the calls agree on a common part.
LEMMA CallsAgree ==
    ASSUME NEW s \in Seq(Objects), NEW t \in Seq(Objects),
           NEW m \in Nat, m <= Len(s), m <= Len(t),
           \A i \in 1 .. m : s[i] = t[i],
           NEW f, NEW g, Calls(s, f), Calling(t, g)
    PROVE  f[m] = g[m]
<1> DEFINE S == {n \in Nat : n <= m => f[n] = g[n]}
<1>1. \A n \in 0 .. m :
         f[n] = IF n = 0 THEN <<>>
                ELSE IF s[n].nontrivial THEN <<s[n]>> \o f[n - 1]
                ELSE f[n - 1]
  <2>1. \A n \in 0 .. Len(s) :
           f[n] = IF n = 0 THEN <<>>
                  ELSE IF s[n].nontrivial THEN <<s[n]>> \o f[n - 1]
                  ELSE f[n - 1]
    BY Zenon DEF Calls
  <2>2. \A n \in 0 .. m : n \in 0 .. Len(s)
    OBVIOUS
  <2>3. QED
    BY <2>1, <2>2, Zenon
<1>2. 0 \in S
  <2>1. 0 \in 0 .. m
    OBVIOUS
  <2>2. f[0] = <<>>
    BY <1>1, <2>1, Zenon
  <2>3. g[0] = <<>>
    BY DEF Calling
  <2>4. QED
    BY <2>2, <2>3
<1>3. ASSUME NEW k \in Nat, k \in S PROVE k + 1 \in S
  <2> SUFFICES ASSUME k + 1 <= m PROVE f[k + 1] = g[k + 1]
    OBVIOUS
  <2>1. PICK n : n = k + 1
    OBVIOUS
  <2>2. n \in 0 .. m /\ n # 0 /\ n - 1 = k /\ n \in 1 .. m /\ n \in 1 .. Len(t)
    BY <2>1
  <2>3. f[n] = IF s[n].nontrivial THEN <<s[n]>> \o f[n - 1] ELSE f[n - 1]
    BY <1>1, <2>2
  <2>4. g[n] = IF t[n].nontrivial THEN <<t[n]>> \o g[n - 1] ELSE g[n - 1]
    BY <2>2 DEF Calling
  <2>5. s[n] = t[n] /\ f[n - 1] = g[n - 1]
    BY <1>3, <2>2
  <2>6. f[n] = g[n]
    <3>1. PICK e : e = s[n] /\ e = t[n]
      BY <2>5
    <3>2. PICK h : h = f[n - 1] /\ h = g[n - 1]
      BY <2>5
    <3>3. f[n] = IF e.nontrivial THEN <<e>> \o h ELSE h
      BY <2>3, <3>1, <3>2, Zenon
    <3>4. g[n] = IF e.nontrivial THEN <<e>> \o h ELSE h
      BY <2>4, <3>1, <3>2, Zenon
    <3>5. QED
      BY <3>3, <3>4, Zenon
  <2>7. QED
    BY <2>1, <2>6
<1> HIDE DEF S
<1>4. Nat \subseteq S
  BY <1>2, <1>3, SetInduction
<1>5. QED
  BY <1>4 DEF S

\* The destructors of a list are those of any function that has its calls.
LEMMA DtorsAre ==
    ASSUME NEW s \in Seq(Objects), NEW f, Calling(s, f)
    PROVE  Dtors(s) = f[Len(s)]
<1>1. Dtors(s) = (CHOOSE g : Calls(s, g))[Len(s)]
  BY DEF Dtors, Calls
<1>2. Calls(s, CHOOSE g : Calls(s, g))
  BY CallingCalls
<1>3. Len(s) \in Nat /\ Len(s) <= Len(s)
  OBVIOUS
<1>4. PICK g : g = CHOOSE h : Calls(s, h)
  OBVIOUS
<1>5. g[Len(s)] = f[Len(s)]
  BY <1>2, <1>3, <1>4, CallsAgree
<1>6. QED
  BY <1>1, <1>4, <1>5

LEMMA DtorsType ==
    ASSUME NEW s \in Seq(Objects)
    PROVE  Dtors(s) \in Seq(Objects)
<1>1. PICK f : Calling(s, f)
  BY CallsExist
<1>2. Dtors(s) = f[Len(s)] /\ Len(s) \in 0 .. Len(s)
  BY <1>1, DtorsAre
<1>3. QED
  BY <1>1, <1>2 DEF Calling

LEMMA DtorsEmpty == Dtors(<<>>) = <<>>
<1>1. <<>> \in Seq(Objects) /\ Len(<<>>) = 0
  OBVIOUS
<1>2. PICK f : Calling(<<>>, f)
  BY <1>1, CallsExist
<1>3. Dtors(<<>>) = f[0]
  BY <1>1, <1>2, DtorsAre
<1>4. QED
  BY <1>2, <1>3 DEF Calling

\* One more variable is destroyed first.
LEMMA DtorsAppend ==
    ASSUME NEW s \in Seq(Objects), NEW e \in Objects
    PROVE  Dtors(Append(s, e)) = IF e.nontrivial THEN <<e>> \o Dtors(s)
                                                 ELSE Dtors(s)
<1>1. PICK r : r = Append(s, e)
  OBVIOUS
<1>2. PICK n : n = Len(s)
  OBVIOUS
<1>3. /\ n \in Nat /\ r \in Seq(Objects) /\ Len(r) = n + 1 /\ r[n + 1] = e
      /\ \A i \in 1 .. n : r[i] = s[i]
  BY <1>1, <1>2, AppendProperties
<1>4. PICK f : Calling(r, f)
  BY <1>3, CallsExist
<1>5. PICK g : Calling(s, g)
  BY CallsExist
<1>6. f[n] = g[n]
  <2>1. Calls(r, f)
    BY <1>3, <1>4, CallingCalls
  <2>2. n <= Len(r) /\ n <= Len(s)
    BY <1>2, <1>3
  <2>3. QED
    BY <1>3, <1>5, <2>1, <2>2, CallsAgree
<1>7. Dtors(r) = f[n + 1] /\ Dtors(s) = g[n]
  BY <1>2, <1>3, <1>4, <1>5, DtorsAre
<1>8. f[n + 1] = IF e.nontrivial THEN <<e>> \o f[n] ELSE f[n]
  <2>1. PICK m : m = n + 1
    OBVIOUS
  <2>2. m \in 1 .. Len(r) /\ m - 1 = n /\ r[m] = e
    BY <1>3, <2>1
  <2>3. f[m] = IF r[m].nontrivial THEN <<r[m]>> \o f[m - 1] ELSE f[m - 1]
    BY <1>4, <2>2 DEF Calling
  <2>4. QED
    BY <2>1, <2>2, <2>3
<1>9. QED
  BY <1>1, <1>6, <1>7, <1>8, Zenon

\* What is declared later is destroyed first.
LEMMA DtorsConcat ==
    ASSUME NEW s \in Seq(Objects), NEW t \in Seq(Objects)
    PROVE  Dtors(s \o t) = Dtors(t) \o Dtors(s)
<1> DEFINE S == {m \in Nat : m <= Len(t) =>
                    Dtors(s \o SubSeq(t, 1, m)) = Dtors(SubSeq(t, 1, m)) \o Dtors(s)}
<1>1. 0 \in S
  <2>1. SubSeq(t, 1, 0) = <<>>
    BY SubSeqEmpty
  <2>2. s \o <<>> = s /\ <<>> \o Dtors(s) = Dtors(s)
    BY ConcatEmptySeq, DtorsType
  <2>3. QED
    BY <2>1, <2>2, DtorsEmpty
<1>2. ASSUME NEW m \in Nat, m \in S PROVE m + 1 \in S
  <2> SUFFICES ASSUME m + 1 <= Len(t)
               PROVE  Dtors(s \o SubSeq(t, 1, m + 1))
                          = Dtors(SubSeq(t, 1, m + 1)) \o Dtors(s)
    OBVIOUS
  <2>1. PICK a : a = SubSeq(t, 1, m)
    OBVIOUS
  <2>2. PICK b : b = SubSeq(t, 1, m + 1)
    OBVIOUS
  <2>3. PICK e : e = t[m + 1]
    OBVIOUS
  <2>4. Dtors(s \o a) = Dtors(a) \o Dtors(s)
    BY <1>2, <2>1
  <2> HIDE DEF S
  <2>5. a \in Seq(Objects) /\ e \in Objects
    <3>1. \A i \in 1 .. m : t[i] \in Objects
      BY ElementOfSeq
    <3>2. QED
      BY <2>1, <2>3, <3>1, SubSeqProperties, ElementOfSeq
  <2>6. b = Append(a, e)
    <3>1. m + 1 \in 1 .. Len(t) /\ 1 \in 1 .. Len(t) /\ (m + 1) - 1 = m
      OBVIOUS
    <3>2. b = a \o <<e>>
      BY <2>1, <2>2, <2>3, <3>1, SubSeqRecursiveSecond
    <3>3. QED
      BY <2>5, <3>2, AppendIsConcat
  <2>7. s \o b = Append(s \o a, e)
    <3>1. <<e>> \in Seq(Objects) /\ s \o a \in Seq(Objects)
      BY <2>5, ConcatProperties
    <3>2. s \o b = s \o (a \o <<e>>)
      BY <2>5, <2>6, AppendIsConcat
    <3>3. QED
      BY <2>5, <3>1, <3>2, ConcatAssociative, AppendIsConcat
  <2>8. s \o a \in Seq(Objects)
    BY <2>5, ConcatProperties
  <2>9. /\ Dtors(s \o b) = IF e.nontrivial THEN <<e>> \o Dtors(s \o a)
                                           ELSE Dtors(s \o a)
        /\ Dtors(b) = IF e.nontrivial THEN <<e>> \o Dtors(a) ELSE Dtors(a)
    BY <2>5, <2>6, <2>7, <2>8, DtorsAppend
  <2>10. <<e>> \o (Dtors(a) \o Dtors(s)) = (<<e>> \o Dtors(a)) \o Dtors(s)
    <3>1. <<e>> \in Seq(Objects)
      BY <2>5
    <3>2. Dtors(a) \in Seq(Objects) /\ Dtors(s) \in Seq(Objects)
      BY <2>5, DtorsType
    <3>3. PICK u, v, w : u = <<e>> /\ v = Dtors(a) /\ w = Dtors(s)
      OBVIOUS
    <3>4. u \in Seq(Objects) /\ v \in Seq(Objects) /\ w \in Seq(Objects)
      BY <3>1, <3>2, <3>3
    <3>5. u \o (v \o w) = (u \o v) \o w
      BY <3>4, Associative, SMTT(30)
    <3>6. QED
      BY <3>3, <3>5, Zenon
  <2>11. Dtors(s \o b) = Dtors(b) \o Dtors(s)
    BY <2>4, <2>9, <2>10
  <2>12. QED
    BY <2>2, <2>11
<1> HIDE DEF S
<1>3. Nat \subseteq S
  BY <1>1, <1>2, SetInduction
<1>4. Len(t) \in Nat /\ Len(t) <= Len(t) /\ SubSeq(t, 1, Len(t)) = t
  BY SubSeqFull
<1>5. Len(t) \in S
  BY <1>3, <1>4
<1>6. Dtors(s \o SubSeq(t, 1, Len(t))) = Dtors(SubSeq(t, 1, Len(t))) \o Dtors(s)
  BY <1>4, <1>5, Zenon DEF S
<1>7. QED
  BY <1>4, <1>6

\* A part of a list is a list.
LEMMA PartType ==
    ASSUME NEW all \in Seq(Objects), NEW a \in Nat, NEW b \in Nat, b <= Len(all)
    PROVE  /\ SubSeq(all, a + 1, b) \in Seq(Objects)
           /\ Len(SubSeq(all, a + 1, b)) = IF a <= b THEN b - a ELSE 0
           /\ Dtors(SubSeq(all, a + 1, b)) \in Seq(Objects)
<1>1. \A i \in a + 1 .. b : all[i] \in Objects
  <2>1. \A i \in a + 1 .. b : i \in 1 .. Len(all)
    OBVIOUS
  <2>2. QED
    BY <2>1, ElementOfSeq
<1>2. /\ SubSeq(all, a + 1, b) \in Seq(Objects)
      /\ Len(SubSeq(all, a + 1, b)) = IF a + 1 <= b THEN b - (a + 1) + 1 ELSE 0
  BY <1>1, SubSeqProperties
<1>3. Dtors(SubSeq(all, a + 1, b)) \in Seq(Objects)
  BY <1>2, DtorsType
<1>4. QED
  BY <1>2, <1>3

\* The destructors of two neighbouring parts.
LEMMA DtorsParts ==
    ASSUME NEW all \in Seq(Objects),
           NEW a \in Nat, NEW b \in Nat, NEW c \in Nat,
           a <= b, b <= c, c <= Len(all)
    PROVE  Dtors(SubSeq(all, b + 1, c)) \o Dtors(SubSeq(all, a + 1, b))
               = Dtors(SubSeq(all, a + 1, c))
<1>1. SubSeq(all, a + 1, b) \o SubSeq(all, b + 1, c) = SubSeq(all, a + 1, c)
  <2>1. a + 1 \in 1 .. Len(all) + 1 /\ b \in (a + 1) - 1 .. Len(all)
        /\ c \in b .. Len(all)
    OBVIOUS
  <2>2. QED
    BY <2>1, ConcatAdjacentSubSeq
<1>2. b <= Len(all)
  OBVIOUS
<1>3. /\ SubSeq(all, a + 1, b) \in Seq(Objects)
      /\ SubSeq(all, b + 1, c) \in Seq(Objects)
  BY <1>2, PartType
<1>4. QED
  BY <1>1, <1>3, DtorsConcat

\* A part of a part is a part.
LEMMA PartOfPart ==
    ASSUME NEW all \in Seq(Objects), NEW a \in Nat, NEW b \in Nat,
           a <= b, b <= Len(all), NEW m \in 0 .. b - a, NEW n \in m .. b - a
    PROVE  SubSeq(SubSeq(all, a + 1, b), m + 1, n)
               = SubSeq(all, a + m + 1, a + n)
<1> DEFINE p == SubSeq(all, a + 1, b)
           q == SubSeq(p, m + 1, n)
           r == SubSeq(all, a + m + 1, a + n)
<1>1. \A i \in 1 .. Len(all) : all[i] \in Objects
  BY ElementOfSeq
<1>2. p \in Seq(Objects) /\ Len(p) = b - a /\ \A i \in 1 .. b - a : p[i] = all[a + i]
  <2>1. \A i \in a + 1 .. b : all[i] \in Objects
    BY <1>1
  <2>2. /\ p \in Seq(Objects)
        /\ Len(p) = IF a + 1 <= b THEN b - (a + 1) + 1 ELSE 0
        /\ \A i \in 1 .. b - (a + 1) + 1 : p[i] = all[a + 1 + i - 1]
    BY <2>1, SubSeqProperties
  <2>3. QED
    BY <2>2
<1> HIDE DEF p
<1>3. q \in Seq(Objects) /\ Len(q) = n - m /\ \A i \in 1 .. n - m : q[i] = p[m + i]
  <2>1. \A i \in m + 1 .. n : p[i] \in Objects
    <3>1. \A i \in m + 1 .. n : i \in 1 .. Len(p)
      BY <1>2
    <3>2. QED
      BY <1>2, <3>1, ElementOfSeq
  <2>2. /\ q \in Seq(Objects)
        /\ Len(q) = IF m + 1 <= n THEN n - (m + 1) + 1 ELSE 0
        /\ \A i \in 1 .. n - (m + 1) + 1 : q[i] = p[m + 1 + i - 1]
    BY <2>1, SubSeqProperties
  <2>3. QED
    BY <2>2
<1>4. r \in Seq(Objects) /\ Len(r) = n - m /\ \A i \in 1 .. n - m : r[i] = all[a + m + i]
  <2>1. \A i \in a + m + 1 .. a + n : all[i] \in Objects
    BY <1>1
  <2>2. /\ r \in Seq(Objects)
        /\ Len(r) = IF a + m + 1 <= a + n THEN a + n - (a + m + 1) + 1 ELSE 0
        /\ \A i \in 1 .. a + n - (a + m + 1) + 1 : r[i] = all[a + m + 1 + i - 1]
    BY <2>1, SubSeqProperties
  <2>3. QED
    BY <2>2
<1> HIDE DEF q, r
<1>5. ASSUME NEW i \in 1 .. n - m PROVE q[i] = r[i]
  <2>1. m + i \in 1 .. b - a /\ a + (m + i) = a + m + i
    OBVIOUS
  <2>2. q[i] = p[m + i] /\ p[m + i] = all[a + (m + i)] /\ r[i] = all[a + m + i]
    BY <1>2, <1>3, <1>4, <2>1
  <2>3. QED
    BY <2>1, <2>2
<1>6. q = r
  BY <1>3, <1>4, <1>5, SeqEqual
<1>7. QED
  BY <1>6 DEF q, r, p

(***************************************************************************)
(* The variables of the open scopes are the parts of the list of live      *)
(* variables between the marks of the scopes.                              *)
(***************************************************************************)
Scopes == [scope : Nat, objs : Seq(Objects)]
Levels == [boundary : Nat, target : Seq(Objects)]

\* The variables of s[k] are those behind the first at[k] of all, up to the
\* first at[k + 1].
Slices(s, all, at) ==
    /\ at \in [1 .. Len(s) + 1 -> 0 .. Len(all)]
    /\ at[1] = 0 /\ at[Len(s) + 1] = Len(all)
    /\ \A j, k \in 1 .. Len(s) + 1 : j <= k => at[j] <= at[k]
    /\ \A k \in 1 .. Len(s) : s[k].objs = SubSeq(all, at[k] + 1, at[k + 1])

\* The levels of t are blocks for the scopes s: each for the first variables
\* of its scope and all below, and only the innermost may leave some out.
Path(t, s, all, at) ==
    /\ Len(t) <= Len(s)
    /\ \A k \in 1 .. Len(t) :
        /\ t[k].boundary \in 0 .. at[k + 1] - at[k]
        /\ k < Len(t) => t[k].boundary = at[k + 1] - at[k]
        /\ t[k].target = Dtors(SubSeq(all, 1, at[k] + t[k].boundary))

\* A path that reaches the innermost scope and leaves no variable out.
Complete(t, s, all, at) ==
    /\ Len(t) = Len(s)
    /\ \A k \in 1 .. Len(t) :
        /\ t[k].boundary = at[k + 1] - at[k]
        /\ t[k].target = Dtors(SubSeq(all, 1, at[k + 1]))

\* What the slices say of one scope.
LEMMA SliceOf ==
    ASSUME NEW s \in Seq(Scopes), NEW all \in Seq(Objects), NEW at,
           Slices(s, all, at), NEW k \in 1 .. Len(s)
    PROVE  /\ at[k] \in 0 .. Len(all) /\ at[k + 1] \in 0 .. Len(all)
           /\ at[k] <= at[k + 1]
           /\ s[k].objs = SubSeq(all, at[k] + 1, at[k + 1])
           /\ s[k].objs \in Seq(Objects)
           /\ Len(s[k].objs) = at[k + 1] - at[k]
<1>1. k \in 1 .. Len(s) + 1 /\ k + 1 \in 1 .. Len(s) + 1 /\ k <= k + 1
  OBVIOUS
<1>2. /\ at[k] \in 0 .. Len(all) /\ at[k + 1] \in 0 .. Len(all)
      /\ at[k] <= at[k + 1]
      /\ s[k].objs = SubSeq(all, at[k] + 1, at[k + 1])
  BY <1>1 DEF Slices
<1>3. PICK a, b : a = at[k] /\ b = at[k + 1]
  OBVIOUS
<1>4. a \in Nat /\ b \in Nat /\ a <= b /\ b <= Len(all)
  BY <1>2, <1>3
<1>5. /\ SubSeq(all, a + 1, b) \in Seq(Objects)
      /\ Len(SubSeq(all, a + 1, b)) = b - a
  BY <1>4, PartType
<1>6. QED
  BY <1>2, <1>3, <1>5

\* A complete path is a path.
LEMMA CompletePath ==
    ASSUME NEW s \in Seq(Scopes), NEW all \in Seq(Objects), NEW at,
           Slices(s, all, at), NEW t, Complete(t, s, all, at)
    PROVE  Path(t, s, all, at)
<1>1. Len(t) <= Len(s)
  BY DEF Complete
<1>2. ASSUME NEW k \in 1 .. Len(t)
      PROVE  /\ t[k].boundary \in 0 .. at[k + 1] - at[k]
             /\ t[k].boundary = at[k + 1] - at[k]
             /\ at[k] + t[k].boundary = at[k + 1]
             /\ t[k].target = Dtors(SubSeq(all, 1, at[k + 1]))
  BY SliceOf DEF Complete
<1>3. QED
  BY <1>1, <1>2 DEF Path

(***************************************************************************)
(* The blocks of FIGenerateEHEntryPointForCurrentPosition.                 *)
(***************************************************************************)
Root(s, t) == IF t = <<>>
              THEN <<[boundary |-> Len(s[1].objs), target |-> Dtors(s[1].objs)]>>
              ELSE t

\* f has the branch targets of the new blocks on top of the path r.
To(s, r, f) ==
    f = [k \in Len(r) .. Len(s) |->
            IF k = Len(r)
            THEN Dtors(SubSeq(s[Len(r)].objs, r[Len(r)].boundary + 1,
                              Len(s[Len(r)].objs))) \o r[Len(r)].target
            ELSE Dtors(s[k].objs) \o f[k - 1]]

LEMMA RootPath ==
    ASSUME NEW s \in Seq(Scopes), s # <<>>, NEW all \in Seq(Objects), NEW at,
           Slices(s, all, at), NEW t \in Seq(Levels), Path(t, s, all, at)
    PROVE  /\ Root(s, t) \in Seq(Levels) /\ Root(s, t) # <<>>
           /\ Path(Root(s, t), s, all, at)
<1>1. CASE t # <<>>
  BY <1>1 DEF Root
<1>2. CASE t = <<>>
  <2>1. 1 \in 1 .. Len(s) /\ at[1] = 0
    BY DEF Slices
  <2>2. /\ s[1].objs \in Seq(Objects) /\ Len(s[1].objs) = at[2] /\ at[2] \in Nat
        /\ s[1].objs = SubSeq(all, 1, at[2])
    <3>1. PICK k : k = 1
      OBVIOUS
    <3>2. at[k] = 0 /\ at[k + 1] = at[2] /\ 0 + 1 = 1
      BY <2>1, <3>1
    <3> k \in 1 .. Len(s)
      BY <2>1, <3>1
    <3>3. /\ at[k + 1] \in 0 .. Len(all)
          /\ s[k].objs = SubSeq(all, at[k] + 1, at[k + 1])
          /\ s[k].objs \in Seq(Objects)
          /\ Len(s[k].objs) = at[k + 1] - at[k]
      BY SliceOf
    <3>4. QED
      BY <3>1, <3>2, <3>3
  <2> DEFINE b == Len(s[1].objs)
             d == Dtors(s[1].objs)
  <2>3. b \in Nat /\ d \in Seq(Objects)
    BY <2>2, DtorsType
  <2>4. d = Dtors(SubSeq(all, 1, at[2]))
    BY <2>2
  <2> HIDE DEF b, d
  <2> DEFINE r == <<[boundary |-> b, target |-> d]>>
  <2>5. Root(s, t) = r
    BY <1>2 DEF Root, b, d
  <2>6. /\ r \in Seq(Levels) /\ Len(r) = 1
        /\ r[1].boundary = b /\ r[1].target = d
    BY <2>3 DEF Levels
  <2>7. r # <<>>
    OBVIOUS
  <2> HIDE DEF r
  <2>8. Path(r, s, all, at)
    <3>1. \A k \in 1 .. Len(r) : k = 1
      BY <2>6
    <3>2. /\ r[1].boundary \in 0 .. at[1 + 1] - at[1]
          /\ r[1].boundary = at[1 + 1] - at[1]
          /\ at[1] + r[1].boundary = at[2]
      BY <2>1, <2>2, <2>6 DEF b
    <3>3. r[1].target = Dtors(SubSeq(all, 1, at[1] + r[1].boundary))
      BY <2>4, <2>6, <3>2
    <3>4. QED
      BY <2>1, <2>6, <3>1, <3>2, <3>3 DEF Path
  <2>9. QED
    BY <2>5, <2>6, <2>7, <2>8
<1>3. QED
  BY <1>1, <1>2

\* The new blocks destroy the variables of their scopes and all below.
LEMMA ToTargets ==
    ASSUME NEW s \in Seq(Scopes), NEW all \in Seq(Objects), NEW at,
           Slices(s, all, at), NEW r \in Seq(Levels), r # <<>>,
           Path(r, s, all, at), NEW k \in Len(r) .. Len(s)
    PROVE  (CHOOSE f : To(s, r, f))[k] = Dtors(SubSeq(all, 1, at[k + 1]))
<1> DEFINE n == Len(r)
           g == [i \in n .. Len(s) |-> Dtors(SubSeq(all, 1, at[i + 1]))]
           News == SubSeq(s[n].objs, r[n].boundary + 1, Len(s[n].objs))
<1>1. n \in 1 .. Len(s) /\ n \in 1 .. Len(r) /\ n \in Nat /\ Len(s) \in Nat
  BY DEF Path
<1>2. Dtors(News) \o r[n].target = Dtors(SubSeq(all, 1, at[n + 1]))
  <2>1. PICK a, b, c : a = at[n] /\ b = at[n + 1] /\ c = r[n].boundary
    OBVIOUS
  <2>2. /\ a \in Nat /\ b \in Nat /\ a <= b /\ b <= Len(all)
        /\ s[n].objs = SubSeq(all, a + 1, b)
        /\ Len(s[n].objs) = b - a
    BY <1>1, <2>1, SliceOf
  <2>3. /\ c \in 0 .. b - a
        /\ r[n].target = Dtors(SubSeq(all, 1, a + c))
    BY <1>1, <2>1 DEF Path
  <2>4. News = SubSeq(all, a + c + 1, a + (b - a))
    <3>1. b - a \in c .. b - a /\ c \in 0 .. b - a
      BY <2>2, <2>3
    <3>2. News = SubSeq(SubSeq(all, a + 1, b), c + 1, b - a)
      BY <2>1, <2>2
    <3>3. QED
      BY <2>2, <3>1, <3>2, PartOfPart
  <2> HIDE DEF News, n
  <2>5. PICK e : e = a + c
    OBVIOUS
  <2>6. e \in Nat /\ e <= b /\ 0 <= e /\ a + (b - a) = b
    BY <2>2, <2>3, <2>5
  <2>7. Dtors(SubSeq(all, e + 1, b)) \o Dtors(SubSeq(all, 0 + 1, e))
            = Dtors(SubSeq(all, 0 + 1, b))
    BY <2>2, <2>6, DtorsParts
  <2>8. 0 + 1 = 1
    OBVIOUS
  <2>9. News = SubSeq(all, e + 1, b)
    BY <2>4, <2>5, <2>6
  <2>10. r[n].target = Dtors(SubSeq(all, 1, e))
    BY <2>3, <2>5
  <2>11. QED
    BY <2>1, <2>7, <2>8, <2>9, <2>10
<1>3. ASSUME NEW i \in n + 1 .. Len(s)
      PROVE  Dtors(s[i].objs) \o Dtors(SubSeq(all, 1, at[i]))
                 = Dtors(SubSeq(all, 1, at[i + 1]))
  <2>1. PICK a, b : a = at[i] /\ b = at[i + 1]
    OBVIOUS
  <2>2. i \in 1 .. Len(s)
    BY <1>1
  <2>3. /\ a \in Nat /\ b \in Nat /\ a <= b /\ b <= Len(all) /\ 0 <= a
        /\ s[i].objs = SubSeq(all, a + 1, b)
    BY <2>1, <2>2, SliceOf
  <2>4. Dtors(SubSeq(all, a + 1, b)) \o Dtors(SubSeq(all, 0 + 1, a))
            = Dtors(SubSeq(all, 0 + 1, b))
    BY <2>3, DtorsParts
  <2>5. 0 + 1 = 1
    OBVIOUS
  <2>6. QED
    BY <2>1, <2>3, <2>4, <2>5
<1>4. \A i \in n .. Len(s) : i = n \/ (i \in n + 1 .. Len(s) /\ i - 1 \in n .. Len(s)
                                       /\ (i - 1) + 1 = i /\ i # n)
  BY <1>1
<1>5. \A i \in n .. Len(s) : g[i] = Dtors(SubSeq(all, 1, at[i + 1]))
  OBVIOUS
<1>6. To(s, r, g)
  <2> HIDE DEF n, News
  <2>1. ASSUME NEW i \in n .. Len(s)
        PROVE  Dtors(SubSeq(all, 1, at[i + 1]))
                   = IF i = n THEN Dtors(News) \o r[n].target
                              ELSE Dtors(s[i].objs) \o g[i - 1]
    <3>1. CASE i = n
      BY <1>2, <3>1
    <3>2. CASE i # n
      <4>1. i \in n + 1 .. Len(s) /\ i - 1 \in n .. Len(s) /\ (i - 1) + 1 = i
        BY <1>4, <3>2
      <4>2. g[i - 1] = Dtors(SubSeq(all, 1, at[i]))
        BY <1>5, <4>1
      <4>3. QED
        BY <1>3, <3>2, <4>1, <4>2
    <3>3. QED
      BY <3>1, <3>2
  <2>2. g = [i \in n .. Len(s) |->
                IF i = n THEN Dtors(News) \o r[n].target
                         ELSE Dtors(s[i].objs) \o g[i - 1]]
    <3>1. g = [i \in n .. Len(s) |-> g[i]]
      OBVIOUS
    <3>2. \A i \in n .. Len(s) : g[i] = IF i = n THEN Dtors(News) \o r[n].target
                                        ELSE Dtors(s[i].objs) \o g[i - 1]
      BY <1>5, <2>1
    <3> HIDE DEF g
    <3>3. QED
      BY <3>1, <3>2
  <2>3. QED
    BY <2>2 DEF To, n, News
<1> HIDE DEF g
<1>7. PICK f : f = CHOOSE h : To(s, r, h)
  OBVIOUS
<1>8. To(s, r, f)
  BY <1>6, <1>7
<1>9. \A i \in n .. Len(s) : f[i] = IF i = n THEN Dtors(News) \o r[n].target
                                    ELSE Dtors(s[i].objs) \o f[i - 1]
  BY <1>8, Zenon DEF To
<1> HIDE DEF n, News
<1> DEFINE S == {j \in Nat : n + j <= Len(s) =>
                    f[n + j] = Dtors(SubSeq(all, 1, at[n + j + 1]))}
<1>10. 0 \in S
  <2>1. n \in n .. Len(s) /\ n + 0 = n /\ n + 0 + 1 = n + 1
    BY <1>1
  <2>2. f[n] = Dtors(News) \o r[n].target
    BY <1>9, <2>1
  <2>3. QED
    BY <1>2, <2>1, <2>2
<1>11. ASSUME NEW j \in Nat, j \in S PROVE j + 1 \in S
  <2> SUFFICES ASSUME n + (j + 1) <= Len(s)
               PROVE  f[n + (j + 1)] = Dtors(SubSeq(all, 1, at[n + (j + 1) + 1]))
    OBVIOUS
  <2>1. PICK i : i = n + (j + 1)
    OBVIOUS
  <2>2. /\ i \in n .. Len(s) /\ i \in n + 1 .. Len(s) /\ i # n
        /\ i - 1 = n + j /\ n + j + 1 = i /\ n + j <= Len(s)
    BY <1>1, <2>1
  <2>3. f[n + j] = Dtors(SubSeq(all, 1, at[n + j + 1]))
    BY <1>11, <2>2
  <2> HIDE DEF S
  <2>4. f[i - 1] = Dtors(SubSeq(all, 1, at[i]))
    BY <2>2, <2>3
  <2>5. f[i] = Dtors(s[i].objs) \o f[i - 1]
    BY <1>9, <2>2
  <2>6. f[i] = Dtors(SubSeq(all, 1, at[i + 1]))
    BY <1>3, <2>2, <2>4, <2>5
  <2>7. QED
    BY <2>1, <2>6
<1> HIDE DEF S
<1>12. Nat \subseteq S
  BY <1>10, <1>11, SetInduction
<1>13. PICK j \in Nat : k = n + j
  <2>1. k - n \in Nat /\ k = n + (k - n)
    BY <1>1 DEF n
  <2>2. QED
    BY <2>1
<1>14. j \in S /\ n + j <= Len(s)
  BY <1>1, <1>12, <1>13 DEF n
<1>15. f[n + j] = Dtors(SubSeq(all, 1, at[n + j + 1]))
  BY <1>14 DEF S
<1>16. QED
  BY <1>7, <1>13, <1>15

\* FIGenerateEHEntryPointForCurrentPosition makes the path complete.
LEMMA ExtendedComplete ==
    ASSUME NEW s \in Seq(Scopes), s # <<>>, NEW all \in Seq(Objects), NEW at,
           Slices(s, all, at), NEW t \in Seq(Levels), Path(t, s, all, at)
    PROVE  /\ ExtendedTree(s, t) \in Seq(Levels)
           /\ Complete(ExtendedTree(s, t), s, all, at)
<1>1. PICK r : r = Root(s, t)
  OBVIOUS
<1>2. r \in Seq(Levels) /\ r # <<>> /\ Path(r, s, all, at)
  BY <1>1, RootPath
<1>3. PICK f : f = CHOOSE h : To(s, r, h)
  OBVIOUS
<1> DEFINE level(k) == IF k < Len(r) THEN r[k]
                       ELSE [boundary |-> Len(s[k].objs), target |-> f[k]]
           path == [k \in 1 .. Len(s) |-> level(k)]
<1>4. ExtendedTree(s, t) = path
  <2>1. ExtendedTree(s, t) =
            [k \in 1 .. Len(s) |->
                IF k < Len(Root(s, t)) THEN Root(s, t)[k]
                ELSE [boundary |-> Len(s[k].objs),
                      target |-> (CHOOSE h : To(s, Root(s, t), h))[k]]]
    BY DEF ExtendedTree, To, Root
  <2>2. QED
    BY <1>1, <1>3, <2>1, Zenon
<1>5. ASSUME NEW k \in 1 .. Len(s)
      PROVE  /\ level(k) \in Levels
             /\ level(k).boundary = at[k + 1] - at[k]
             /\ level(k).target = Dtors(SubSeq(all, 1, at[k + 1]))
  <2>1. PICK a, b : a = at[k] /\ b = at[k + 1]
    OBVIOUS
  <2>2. /\ a \in Nat /\ b \in Nat /\ a <= b /\ b <= Len(all)
        /\ Len(s[k].objs) = b - a
    BY <2>1, SliceOf
  <2>3. Dtors(SubSeq(all, 1, b)) \in Seq(Objects)
    <3>1. 0 \in Nat /\ 0 + 1 = 1
      OBVIOUS
    <3>2. Dtors(SubSeq(all, 0 + 1, b)) \in Seq(Objects)
      BY <2>2, <3>1, PartType
    <3>3. QED
      BY <3>1, <3>2
  <2>4. CASE k < Len(r)
    <3>1. k \in 1 .. Len(r)
      BY <1>2, <2>4
    <3>2. /\ r[k].boundary = b - a
          /\ r[k].target = Dtors(SubSeq(all, 1, a + r[k].boundary))
      BY <1>2, <2>1, <2>4, <3>1 DEF Path
    <3>3. a + r[k].boundary = b
      BY <2>2, <3>2
    <3>4. r[k] \in Levels /\ level(k) = r[k]
      BY <1>2, <2>4, <3>1, ElementOfSeq
    <3>5. QED
      BY <2>1, <3>2, <3>3, <3>4
  <2>5. CASE ~(k < Len(r))
    <3>1. k \in Len(r) .. Len(s)
      BY <1>2, <2>5
    <3>2. f[k] = Dtors(SubSeq(all, 1, b))
      BY <1>2, <1>3, <2>1, <3>1, ToTargets
    <3>3. level(k) = [boundary |-> b - a, target |-> f[k]]
      BY <2>2, <2>5
    <3>4. QED
      BY <2>1, <2>2, <2>3, <3>2, <3>3 DEF Levels
  <2>6. QED
    BY <2>4, <2>5
<1> HIDE DEF level
<1>6. path \in Seq(Levels) /\ Len(path) = Len(s)
  <2>1. path \in [1 .. Len(s) -> Levels] /\ Len(s) \in Nat
    BY <1>5
  <2>2. QED
    BY <2>1
<1>7. Complete(path, s, all, at)
  BY <1>5, <1>6 DEF Complete
<1>8. QED
  BY <1>4, <1>6, <1>7

(***************************************************************************)
(* The calls on the way out to a scope.                                    *)
(***************************************************************************)
\* f has the concatenations of the first sequences of q.
Flattening(q, f) ==
    f = [i \in 1 .. Len(q) |-> IF i = 1 THEN q[i] ELSE f[i - 1] \o q[i]]

\* The concatenations as equations.
Concats(q, n, g) ==
    /\ n \in Nat \ {0} /\ Len(q) = n
    /\ g = [i \in 1 .. n |-> g[i]] /\ g[1] = q[1]
    /\ \A i \in 2 .. n : g[i] = g[i - 1] \o q[i]

\* FlattenSeq is the last of any such concatenations.
LEMMA FlattenIs ==
    ASSUME NEW q, NEW n, NEW g, Concats(q, n, g)
    PROVE  FlattenSeq(q) = g[n]
<1> USE DEF Concats
<1>1. Flattening(q, g)
  <2>1. \A i \in 1 .. n : i = 1 \/ (i \in 2 .. n /\ i # 1)
    OBVIOUS
  <2>2. \A i \in 1 .. n : g[i] = IF i = 1 THEN q[i] ELSE g[i - 1] \o q[i]
    BY <2>1, Zenon
  <2>3. g = [i \in 1 .. n |-> IF i = 1 THEN q[i] ELSE g[i - 1] \o q[i]]
    BY <2>2, Zenon
  <2>4. QED
    BY <2>3, Zenon DEF Flattening
<1>2. PICK f : f = CHOOSE h : Flattening(q, h)
  OBVIOUS
<1>3. Flattening(q, f)
  BY <1>1, <1>2, Zenon
<1>4. \A i \in 1 .. n : f[i] = IF i = 1 THEN q[i] ELSE f[i - 1] \o q[i]
  BY <1>3, Zenon DEF Flattening
<1>5. FlattenSeq(q) = f[n]
  <2>1. FlattenSeq(q) = IF Len(q) = 0 THEN q
                        ELSE (CHOOSE h : Flattening(q, h))[Len(q)]
    BY Zenon DEF FlattenSeq, Flattening
  <2>2. Len(q) # 0
    OBVIOUS
  <2>3. QED
    BY <1>2, <2>1, <2>2, Zenon
<1> DEFINE S == {j \in Nat : j + 1 <= n => f[j + 1] = g[j + 1]}
<1>6. 0 \in S
  <2>1. 1 \in 1 .. n /\ 0 + 1 = 1
    OBVIOUS
  <2>2. f[1] = q[1]
    BY <1>4, <2>1
  <2>3. QED
    BY <2>1, <2>2
<1>7. ASSUME NEW j \in Nat, j \in S PROVE j + 1 \in S
  <2> SUFFICES ASSUME j + 1 + 1 <= n PROVE f[j + 1 + 1] = g[j + 1 + 1]
    OBVIOUS
  <2>1. PICK i : i = j + 1 + 1
    OBVIOUS
  <2>2. i \in 1 .. n /\ i # 1 /\ i \in 2 .. n /\ i - 1 = j + 1 /\ j + 1 <= n
    BY <2>1
  <2>3. f[i] = f[i - 1] \o q[i] /\ g[i] = g[i - 1] \o q[i]
    BY <1>4, <2>2, Zenon
  <2>4. f[j + 1] = g[j + 1]
    BY <1>7, <2>2
  <2>5. f[i - 1] = g[i - 1]
    BY <2>2, <2>4
  <2>6. f[i] = g[i]
    BY <2>3, <2>5, Zenon
  <2>7. QED
    BY <2>1, <2>6
<1> HIDE DEF S
<1>8. Nat \subseteq S
  BY <1>6, <1>7, SetInduction
<1>9. PICK j \in Nat : j + 1 = n
  <2>1. n - 1 \in Nat /\ (n - 1) + 1 = n
    OBVIOUS
  <2>2. QED
    BY <2>1
<1>10. f[j + 1] = g[j + 1]
  <2>1. j \in S /\ j + 1 <= n
    BY <1>8, <1>9
  <2>2. QED
    BY <2>1, Zenon DEF S
<1>11. QED
  BY <1>5, <1>9, <1>10

\* Scopes are numbered from 1, from the function's scope inwards.
Numbered == \A k \in 1 .. Len(scopes) : scopes[k].scope = k

\* FIGenerateDestructorSequenceUntilScope destroys the variables declared
\* since the boundary was opened, all of them for the null scope.
LEMMA UntilScope ==
    ASSUME scopes \in Seq(Scopes), scopes # <<>>, live \in Seq(Objects),
           NEW at, Slices(scopes, live, at), Numbered,
           NEW b \in 0 .. Len(scopes), NEW first, first = IF b = 0 THEN 1 ELSE b
    PROVE  DestructorSequenceUntil(b) = Dtors(SubSeq(live, at[first] + 1, Len(live)))
<1> DEFINE L == Len(scopes)
           hits == {k \in 1 .. L : scopes[k].scope = b}
           n == L - first + 1
           q == [k \in 1 .. n |-> Dtors(scopes[L + 1 - k].objs)]
           g == [i \in 1 .. n |-> Dtors(SubSeq(live, at[L + 1 - i] + 1, Len(live)))]
<1>1. L \in Nat \ {0} /\ first \in 1 .. L
  OBVIOUS
<1>2. first = IF hits = {} THEN 1 ELSE CHOOSE k \in hits : \A j \in hits : j <= k
  <2>1. CASE b = 0
    <3>1. hits = {}
      BY <2>1 DEF Numbered
    <3>2. QED
      BY <2>1, <3>1
  <2>2. CASE b # 0
    <3>1. hits = {b}
      BY <2>2 DEF Numbered
    <3>2. (CHOOSE k \in {b} : \A j \in {b} : j <= k) = b
      OBVIOUS
    <3>3. QED
      BY <2>2, <3>1, <3>2
  <2>3. QED
    BY <2>1, <2>2
<1>3. DestructorSequenceUntil(b) = FlattenSeq(q)
  <2>1. DestructorSequenceUntil(b) =
          FlattenSeq([k \in 1 .. (L - (IF hits = {} THEN 1
                                       ELSE CHOOSE k \in hits : \A j \in hits : j <= k) + 1) |->
                        Dtors(scopes[L + 1 - k].objs)])
    BY DEF DestructorSequenceUntil
  <2> HIDE DEF L, hits
  <2>2. QED
    BY <1>2, <2>1
<1>4. n \in Nat \ {0} /\ Len(q) = n
  <2>1. n \in Nat \ {0}
    BY <1>1
  <2> HIDE DEF n
  <2>2. QED
    BY <2>1
<1>5. ASSUME NEW i \in 1 .. n, NEW k, k = L + 1 - i
      PROVE  /\ q[i] = Dtors(SubSeq(live, at[k] + 1, at[k + 1]))
             /\ k \in 1 .. L
  <2>1. k \in 1 .. L
    BY <1>1, <1>5
  <2>2. scopes[k].objs = SubSeq(live, at[k] + 1, at[k + 1])
    BY <2>1, SliceOf
  <2>3. q[i] = Dtors(scopes[k].objs)
    BY <1>5
  <2>4. QED
    BY <2>1, <2>2, <2>3
<1>6. at[L + 1] = Len(live)
  BY DEF Slices
<1>7. g[1] = q[1]
  <2>1. PICK i : i = 1
    OBVIOUS
  <2>2. i \in 1 .. n /\ L + 1 - i = L
    BY <1>1, <1>4, <2>1
  <2>3. q[i] = Dtors(SubSeq(live, at[L] + 1, at[L + 1]))
    BY <1>5, <2>2
  <2>4. g[i] = Dtors(SubSeq(live, at[L] + 1, Len(live)))
    BY <2>2
  <2> HIDE DEF q, g
  <2>5. QED
    BY <1>6, <2>1, <2>3, <2>4
<1>8. ASSUME NEW i \in 2 .. n PROVE g[i] = g[i - 1] \o q[i]
  <2>1. PICK k : k = L + 1 - i
    OBVIOUS
  <2>2. /\ i \in 1 .. n /\ i - 1 \in 1 .. n /\ L + 1 - (i - 1) = k + 1
        /\ k \in 1 .. L /\ k + 1 \in 1 .. L
    BY <1>1, <1>4, <2>1
  <2>3. q[i] = Dtors(SubSeq(live, at[k] + 1, at[k + 1]))
    BY <1>5, <2>1, <2>2
  <2>4. /\ g[i] = Dtors(SubSeq(live, at[k] + 1, Len(live)))
        /\ g[i - 1] = Dtors(SubSeq(live, at[k + 1] + 1, Len(live)))
    BY <2>1, <2>2
  <2> HIDE DEF q, g
  <2>5. PICK a, c, d : a = at[k] /\ c = at[k + 1] /\ d = Len(live)
    OBVIOUS
  <2>6. a \in Nat /\ c \in Nat /\ d \in Nat /\ a <= c /\ c <= d /\ d <= Len(live)
    BY <2>2, <2>5, SliceOf
  <2>7. Dtors(SubSeq(live, c + 1, d)) \o Dtors(SubSeq(live, a + 1, c))
            = Dtors(SubSeq(live, a + 1, d))
    BY <2>6, DtorsParts
  <2>8. QED
    BY <2>3, <2>4, <2>5, <2>7
<1>9. g[n] = Dtors(SubSeq(live, at[first] + 1, Len(live)))
  <2>1. n \in 1 .. n /\ L + 1 - n = first
    BY <1>1, <1>4
  <2>2. QED
    BY <2>1
<1>10. FlattenSeq(q) = g[n]
  <2>1. g = [i \in 1 .. n |-> g[i]]
    OBVIOUS
  <2> HIDE DEF q, g, n
  <2>2. Concats(q, n, g)
    BY <1>4, <1>7, <1>8, <2>1, Zenon DEF Concats
  <2>3. QED
    BY <2>2, FlattenIs
<1>11. QED
  BY <1>3, <1>9, <1>10

(***************************************************************************)
(* Opening and closing scopes, and declaring variables.                    *)
(***************************************************************************)
\* More variables leave the first ones as they are.
LEMMA PrefixKept ==
    ASSUME NEW all \in Seq(Objects), NEW more \in Seq(Objects),
           NEW a \in Nat, NEW m \in Nat, m <= Len(all)
    PROVE  SubSeq(all \o more, a + 1, m) = SubSeq(all, a + 1, m)
<1>1. CASE a < m
  <2>1. a + 1 \in 1 .. Len(all) /\ m \in 1 .. Len(all)
    BY <1>1
  <2>2. QED
    BY <2>1, SubSeqOfConcat1
<1>2. CASE ~(a < m)
  <2>1. m < a + 1
    BY <1>2
  <2>2. QED
    BY <2>1, SubSeqEmpty
<1>3. QED
  BY <1>1, <1>2

\* And behind them come the new ones.
LEMMA RestIsMore ==
    ASSUME NEW all \in Seq(Objects), NEW more \in Seq(Objects)
    PROVE  /\ SubSeq(all \o more, Len(all) + 1, Len(all) + Len(more)) = more
           /\ all \o more \in Seq(Objects)
           /\ Len(all \o more) = Len(all) + Len(more)
<1>1. /\ all \o more \in Seq(Objects)
      /\ Len(all \o more) = Len(all) + Len(more)
  BY ConcatProperties
<1>2. SubSeq(more, 1, Len(more)) = more
  BY SubSeqFull
<1>3. CASE more = <<>>
  <2>1. Len(all) + Len(more) < Len(all) + 1
    BY <1>3
  <2>2. QED
    BY <1>1, <1>3, <2>1, SubSeqEmpty
<1>4. CASE more # <<>>
  <2>1. PICK m, n : m = Len(all) + 1 /\ n = Len(all) + Len(more)
    OBVIOUS
  <2>2. /\ m \in Len(all) + 1 .. Len(all) + Len(more)
        /\ n \in Len(all) + 1 .. Len(all) + Len(more)
        /\ m - Len(all) = 1 /\ n - Len(all) = Len(more)
    BY <1>4, <2>1, EmptySeq
  <2>3. SubSeq(all \o more, m, n) = SubSeq(more, m - Len(all), n - Len(all))
    BY <2>2, SubSeqOfConcat2
  <2>4. QED
    BY <1>1, <1>2, <2>1, <2>2, <2>3
<1>5. QED
  BY <1>3, <1>4

\* The marks after a scope with n variables was opened on top of s.
Pushed(s, at, n) == [k \in 1 .. Len(s) + 2 |->
                        IF k <= Len(s) + 1 THEN at[k] ELSE at[Len(s) + 1] + n]

LEMMA SlicesPush ==
    ASSUME NEW s \in Seq(Scopes), NEW all \in Seq(Objects), NEW at,
           Slices(s, all, at), NEW e \in Scopes
    PROVE  Slices(Append(s, e), all \o e.objs, Pushed(s, at, Len(e.objs)))
<1>1. PICK L : L = Len(s)
  OBVIOUS
<1>2. PICK objs : objs = e.objs
  OBVIOUS
<1>3. PICK n : n = Len(objs)
  OBVIOUS
<1>4. PICK to : to = Pushed(s, at, n)
  OBVIOUS
<1>5. PICK r : r = Append(s, e)
  OBVIOUS
<1>6. L \in Nat /\ objs \in Seq(Objects) /\ n \in Nat
  BY <1>1, <1>2, <1>3 DEF Scopes
<1>7. /\ r \in Seq(Scopes) /\ Len(r) = L + 1 /\ r[L + 1] = e
      /\ \A k \in 1 .. L : r[k] = s[k]
  BY <1>1, <1>5, AppendProperties
<1>8. /\ all \o objs \in Seq(Objects) /\ Len(all \o objs) = Len(all) + n
      /\ SubSeq(all \o objs, Len(all) + 1, Len(all) + n) = objs
  BY <1>3, <1>6, RestIsMore
<1>9. at[L + 1] = Len(all) /\ at[1] = 0
  BY <1>1 DEF Slices
<1>10. /\ \A k \in 1 .. L + 1 : to[k] = at[k]
       /\ to[L + 2] = Len(all) + n
       /\ DOMAIN to = 1 .. L + 2
  BY <1>1, <1>4, <1>6, <1>9 DEF Pushed
<1>11. \A k \in 1 .. L + 1 : at[k] \in 0 .. Len(all)
  BY <1>1 DEF Slices
<1>12. to \in [1 .. Len(r) + 1 -> 0 .. Len(all \o objs)]
  <2>1. Len(r) + 1 = L + 2
    BY <1>6, <1>7
  <2>2. \A k \in 1 .. L + 2 : k \in 1 .. L + 1 \/ k = L + 2
    BY <1>6
  <2>3. ASSUME NEW k \in 1 .. L + 2 PROVE to[k] \in 0 .. Len(all) + n
    <3>1. Len(all) \in Nat
      OBVIOUS
    <3>2. CASE k \in 1 .. L + 1
      <4>1. to[k] \in 0 .. Len(all)
        BY <1>10, <1>11, <3>2
      <4>2. 0 .. Len(all) \subseteq 0 .. Len(all) + n
        BY <1>6, <3>1
      <4>3. QED
        BY <4>1, <4>2
    <3>3. CASE k = L + 2
      <4>1. to[k] = Len(all) + n
        BY <1>10, <3>3
      <4>2. QED
        BY <1>6, <3>1, <4>1
    <3>4. QED
      BY <2>2, <3>2, <3>3
  <2>4. to = [k \in 1 .. L + 2 |-> to[k]]
    BY <1>1, <1>4, <1>10 DEF Pushed
  <2>5. QED
    BY <1>8, <2>1, <2>3, <2>4
<1>13. ASSUME NEW j \in 1 .. L + 2, NEW k \in 1 .. L + 2, j <= k
       PROVE  to[j] <= to[k]
  <2>1. CASE k = L + 2
    <3>1. to[j] \in 0 .. Len(all) + n
      <4>1. j \in 1 .. Len(r) + 1
        BY <1>6, <1>7
      <4>2. QED
        BY <1>8, <1>12, <4>1
    <3>2. QED
      BY <1>10, <2>1, <3>1
  <2>2. CASE k # L + 2
    <3>1. j \in 1 .. L + 1 /\ k \in 1 .. L + 1
      BY <1>6, <1>13, <2>2
    <3>2. at[j] <= at[k]
      BY <1>1, <1>13, <3>1 DEF Slices
    <3>3. QED
      BY <1>10, <3>1, <3>2
  <2>3. QED
    BY <2>1, <2>2
<1>14. ASSUME NEW k \in 1 .. L + 1
       PROVE  r[k].objs = SubSeq(all \o objs, to[k] + 1, to[k + 1])
  <2>1. CASE k = L + 1
    <3>1. to[k] = Len(all) /\ to[k + 1] = Len(all) + n
      <4>1. k + 1 = L + 2
        BY <1>6, <2>1
      <4>2. QED
        BY <1>9, <1>10, <2>1, <4>1
    <3>2. QED
      BY <1>2, <1>7, <1>8, <2>1, <3>1
  <2>2. CASE k # L + 1
    <3>1. k \in 1 .. L /\ k \in 1 .. Len(s) /\ k + 1 \in 1 .. L + 1
      BY <1>1, <1>6, <2>2
    <3>2. PICK a, b : a = at[k] /\ b = at[k + 1]
      OBVIOUS
    <3>3. /\ a \in Nat /\ b \in Nat /\ b <= Len(all)
          /\ s[k].objs = SubSeq(all, a + 1, b)
      BY <3>1, <3>2, SliceOf
    <3>4. SubSeq(all \o objs, a + 1, b) = SubSeq(all, a + 1, b)
      BY <1>6, <3>3, PrefixKept
    <3>5. to[k] = a /\ to[k + 1] = b /\ r[k] = s[k]
      BY <1>7, <1>10, <3>1, <3>2
    <3>6. QED
      BY <3>3, <3>4, <3>5
  <2>3. QED
    BY <2>1, <2>2
<1>15. to[1] = 0 /\ to[Len(r) + 1] = Len(all \o objs)
  <2>1. Len(r) + 1 = L + 2 /\ 1 \in 1 .. L + 1
    BY <1>6, <1>7
  <2>2. QED
    BY <1>8, <1>9, <1>10, <2>1
<1>16. Slices(r, all \o objs, to)
  <2>1. Len(r) + 1 = L + 2
    BY <1>6, <1>7
  <2>2. \A j, k \in 1 .. Len(r) + 1 : j <= k => to[j] <= to[k]
    BY <1>13, <2>1
  <2>3. \A k \in 1 .. Len(r) : r[k].objs = SubSeq(all \o objs, to[k] + 1, to[k + 1])
    BY <1>7, <1>14
  <2>4. QED
    BY <1>12, <1>15, <2>2, <2>3 DEF Slices
<1>17. QED
  BY <1>2, <1>3, <1>4, <1>5, <1>16

\* The blocks made so far stay right when a scope is opened.
LEMMA PathPush ==
    ASSUME NEW s \in Seq(Scopes), NEW all \in Seq(Objects), NEW at,
           Slices(s, all, at), NEW e \in Scopes,
           NEW t, Len(t) \in Nat, Path(t, s, all, at)
    PROVE  Path(t, Append(s, e), all \o e.objs, Pushed(s, at, Len(e.objs)))
<1>1. PICK to : to = Pushed(s, at, Len(e.objs))
  OBVIOUS
<1>2. PICK L : L = Len(s)
  OBVIOUS
<1>3. e.objs \in Seq(Objects) /\ L \in Nat
  BY <1>2 DEF Scopes
<1>4. \A k \in 1 .. L + 1 : to[k] = at[k]
  BY <1>1, <1>2, <1>3 DEF Pushed
<1>5. Len(Append(s, e)) = L + 1
  BY <1>2, AppendProperties
<1>6. Len(t) <= L
  BY <1>2 DEF Path
<1>7. ASSUME NEW k \in 1 .. Len(t)
      PROVE  /\ t[k].boundary \in 0 .. to[k + 1] - to[k]
             /\ k < Len(t) => t[k].boundary = to[k + 1] - to[k]
             /\ t[k].target = Dtors(SubSeq(all \o e.objs, 1, to[k] + t[k].boundary))
  <2>1. k \in 1 .. Len(s) /\ to[k] = at[k] /\ to[k + 1] = at[k + 1]
    BY <1>2, <1>3, <1>4, <1>6
  <2>2. PICK a, b, m : a = at[k] /\ b = at[k + 1] /\ m = t[k].boundary
    OBVIOUS
  <2>3. a \in Nat /\ b \in Nat /\ a <= b /\ b <= Len(all)
    BY <2>1, <2>2, SliceOf
  <2>4. /\ m \in 0 .. b - a /\ (k < Len(t) => m = b - a)
        /\ t[k].target = Dtors(SubSeq(all, 1, a + m))
    BY <2>2 DEF Path
  <2>5. SubSeq(all \o e.objs, 1, a + m) = SubSeq(all, 1, a + m)
    <3>1. a + m \in Nat /\ a + m <= Len(all) /\ 0 + 1 = 1 /\ 0 \in Nat
      BY <2>3, <2>4
    <3>2. SubSeq(all \o e.objs, 0 + 1, a + m) = SubSeq(all, 0 + 1, a + m)
      BY <1>3, <3>1, PrefixKept
    <3>3. QED
      BY <3>1, <3>2
  <2>6. QED
    BY <2>1, <2>2, <2>4, <2>5
<1>8. Len(t) <= Len(Append(s, e))
  BY <1>3, <1>5, <1>6
<1>9. QED
  BY <1>1, <1>7, <1>8 DEF Path

\* The path without the block of the scope that is closed.
LEMMA CompletePop ==
    ASSUME NEW s \in Seq(Scopes), NEW all \in Seq(Objects), NEW at,
           Slices(s, all, at), NEW e \in Scopes,
           NEW p \in Seq(Levels),
           Complete(p, Append(s, e), all \o e.objs, Pushed(s, at, Len(e.objs)))
    PROVE  /\ PopTree(p, Len(s)) \in Seq(Levels)
           /\ Complete(PopTree(p, Len(s)), s, all, at)
<1>1. PICK to : to = Pushed(s, at, Len(e.objs))
  OBVIOUS
<1>2. PICK L : L = Len(s)
  OBVIOUS
<1>3. e.objs \in Seq(Objects) /\ L \in Nat
  BY <1>2 DEF Scopes
<1>4. \A k \in 1 .. L + 1 : to[k] = at[k]
  BY <1>1, <1>2, <1>3 DEF Pushed
<1>5. Len(p) = L + 1
  <2>1. Len(Append(s, e)) = L + 1
    BY <1>2, AppendProperties
  <2>2. QED
    BY <2>1 DEF Complete
<1>6. PICK q : q = SubSeq(p, 1, L)
  OBVIOUS
<1>7. PopTree(p, Len(s)) = q
  BY <1>2, <1>3, <1>5, <1>6 DEF PopTree
<1>8. q \in Seq(Levels) /\ Len(q) = L /\ \A k \in 1 .. L : q[k] = p[k]
  <2>1. \A k \in 1 .. L : p[k] \in Levels
    <3>1. \A k \in 1 .. L : k \in 1 .. Len(p)
      BY <1>3, <1>5
    <3>2. QED
      BY <3>1, ElementOfSeq
  <2>2. QED
    BY <1>3, <1>6, <2>1, SubSeqProperties
<1>9. ASSUME NEW k \in 1 .. L
      PROVE  /\ q[k].boundary = at[k + 1] - at[k]
             /\ q[k].target = Dtors(SubSeq(all, 1, at[k + 1]))
  <2>1. /\ k \in 1 .. Len(s) /\ k \in 1 .. Len(p)
        /\ to[k] = at[k] /\ to[k + 1] = at[k + 1]
    <3>1. k \in 1 .. L + 1 /\ k + 1 \in 1 .. L + 1
      BY <1>3
    <3>2. QED
      BY <1>2, <1>4, <1>5, <3>1
  <2>2. PICK b : b = at[k + 1]
    OBVIOUS
  <2>3. b \in Nat /\ b <= Len(all)
    BY <2>1, <2>2, SliceOf
  <2>4. /\ p[k].boundary = b - at[k]
        /\ p[k].target = Dtors(SubSeq(all \o e.objs, 1, b))
    BY <1>1, <2>1, <2>2 DEF Complete
  <2>5. SubSeq(all \o e.objs, 1, b) = SubSeq(all, 1, b)
    <3>1. 0 + 1 = 1 /\ 0 \in Nat
      OBVIOUS
    <3>2. SubSeq(all \o e.objs, 0 + 1, b) = SubSeq(all, 0 + 1, b)
      BY <1>3, <2>3, <3>1, PrefixKept
    <3>3. QED
      BY <3>1, <3>2
  <2>6. QED
    BY <1>8, <2>2, <2>4, <2>5
<1>10. QED
  BY <1>2, <1>7, <1>8, <1>9 DEF Complete

\* r, rest and to are the scopes, the variables and the marks without the
\* innermost scope.
Popped(s, all, at, L, r, rest, to) ==
    /\ r = SubSeq(s, 1, L - 1)
    /\ rest = SubSeq(all, 1, at[L])
    /\ to = [k \in 1 .. L |-> at[k]]

\* PopScope: the variables of the innermost scope are gone.
LEMMA SlicesPop ==
    ASSUME NEW s \in Seq(Scopes), s # <<>>, NEW all \in Seq(Objects), NEW at,
           Slices(s, all, at), NEW L, L = Len(s),
           NEW r, NEW rest, NEW to, Popped(s, all, at, L, r, rest, to)
    PROVE  /\ r \in Seq(Scopes) /\ Len(r) = L - 1
           /\ rest \in Seq(Objects)
           /\ Slices(r, rest, to)
<1> USE DEF Popped
<1>1. L \in Nat \ {0}
  BY EmptySeq
<1>2. r \in Seq(Scopes) /\ Len(r) = L - 1 /\ \A k \in 1 .. L - 1 : r[k] = s[k]
  <2>1. \A k \in 1 .. L - 1 : k \in 1 .. Len(s)
    BY <1>1
  <2>2. \A k \in 1 .. L - 1 : s[k] \in Scopes
    BY <2>1, ElementOfSeq
  <2>3. L - 1 \in Int /\ 1 \in Int
    BY <1>1
  <2>4. /\ r \in Seq(Scopes) /\ Len(r) = IF 1 <= L - 1 THEN L - 1 - 1 + 1 ELSE 0
        /\ \A k \in 1 .. L - 1 - 1 + 1 : r[k] = s[1 + k - 1]
    BY <2>2, <2>3, SubSeqProperties
  <2>5. QED
    BY <1>1, <2>4
<1>3. PICK m : m = at[L]
  OBVIOUS
<1>4. m \in 0 .. Len(all) /\ \A k \in 1 .. L : at[k] \in Nat /\ at[k] <= m
  <2>1. \A k \in 1 .. L : k \in 1 .. L + 1 /\ L \in 1 .. L + 1 /\ k <= L
    BY <1>1
  <2>2. /\ \A k \in 1 .. L : at[k] \in 0 .. Len(all)
        /\ \A k \in 1 .. L : at[k] <= m
    BY <1>3, <2>1 DEF Slices
  <2>3. QED
    BY <1>1, <1>3, <2>2
<1>5. rest = SubSeq(all, 0 + 1, m) /\ 0 \in Nat /\ m \in Nat /\ m <= Len(all)
  BY <1>3, <1>4
<1>6. rest \in Seq(Objects) /\ Len(rest) = m
  BY <1>4, <1>5, PartType
<1>7. to \in [1 .. Len(r) + 1 -> 0 .. Len(rest)]
  <2>1. Len(r) + 1 = L
    BY <1>1, <1>2
  <2>2. \A k \in 1 .. L : at[k] \in 0 .. Len(rest)
    BY <1>4, <1>6
  <2>3. QED
    BY <2>1, <2>2
<1>8. \A k \in 1 .. L : to[k] = at[k]
  OBVIOUS
<1>9. to[1] = 0 /\ to[Len(r) + 1] = Len(rest)
  <2>1. Len(r) + 1 = L /\ 1 \in 1 .. L /\ L \in 1 .. L
    BY <1>1, <1>2
  <2>2. at[1] = 0
    BY DEF Slices
  <2>3. QED
    BY <1>3, <1>6, <1>8, <2>1, <2>2
<1>10. \A j, k \in 1 .. Len(r) + 1 : j <= k => to[j] <= to[k]
  <2>1. \A k \in 1 .. Len(r) + 1 : k \in 1 .. L /\ k \in 1 .. Len(s) + 1
    BY <1>1, <1>2
  <2>2. QED
    BY <1>8, <2>1 DEF Slices
<1>11. ASSUME NEW k \in 1 .. Len(r)
       PROVE  r[k].objs = SubSeq(rest, to[k] + 1, to[k + 1])
  <2>1. k \in 1 .. L - 1 /\ k \in 1 .. Len(s) /\ k \in 1 .. L /\ k + 1 \in 1 .. L
    BY <1>1, <1>2
  <2>2. PICK a, b : a = at[k] /\ b = at[k + 1]
    OBVIOUS
  <2>3. /\ a \in Nat /\ b \in Nat /\ a <= b /\ b <= m
        /\ s[k].objs = SubSeq(all, a + 1, b)
    BY <1>4, <2>1, <2>2, SliceOf
  <2>4. SubSeq(rest, a + 1, b) = SubSeq(all, 0 + a + 1, 0 + b)
    <3>1. a \in 0 .. m - 0 /\ b \in a .. m - 0 /\ 0 <= m
      BY <1>4, <2>3
    <3>2. QED
      BY <1>5, <3>1, PartOfPart
  <2>5. 0 + a + 1 = a + 1 /\ 0 + b = b
    BY <2>3
  <2>6. to[k] = a /\ to[k + 1] = b /\ r[k] = s[k]
    BY <1>2, <1>8, <2>1, <2>2
  <2>7. QED
    BY <2>3, <2>4, <2>5, <2>6
<1>12. Slices(r, rest, to)
  BY <1>7, <1>9, <1>10, <1>11 DEF Slices
<1>13. QED
  BY <1>2, <1>6, <1>12

\* PopScope drops the block of the scope it closes, and no other.
LEMMA PathPop ==
    ASSUME NEW s \in Seq(Scopes), s # <<>>, NEW all \in Seq(Objects), NEW at,
           Slices(s, all, at), NEW L, L = Len(s),
           NEW r, NEW rest, NEW to, Popped(s, all, at, L, r, rest, to),
           NEW t \in Seq(Levels), Path(t, s, all, at)
    PROVE  /\ PopTree(t, L - 1) \in Seq(Levels)
           /\ Path(PopTree(t, L - 1), r, rest, to)
<1> USE DEF Popped
<1>1. L \in Nat \ {0} /\ Len(t) \in Nat /\ Len(t) <= L
  BY EmptySeq DEF Path
<1>2. Len(r) = L - 1
  BY SlicesPop
<1>3. PICK q : q = PopTree(t, L - 1)
  OBVIOUS
<1>4. /\ q \in Seq(Levels) /\ Len(q) <= L - 1 /\ Len(q) <= Len(t)
      /\ \A k \in 1 .. Len(q) : q[k] = t[k]
      /\ Len(q) = Len(t) \/ (Len(q) = L - 1 /\ Len(t) = L)
  <2>1. CASE Len(t) > L - 1
    <3>1. Len(t) = L
      BY <1>1, <2>1
    <3>2. q = SubSeq(t, 1, L - 1)
      BY <1>3, <2>1, <3>1 DEF PopTree
    <3>3. \A k \in 1 .. L - 1 : t[k] \in Levels
      <4>1. \A k \in 1 .. L - 1 : k \in 1 .. Len(t)
        BY <1>1, <3>1
      <4>2. QED
        BY <4>1, ElementOfSeq
    <3>4. L - 1 \in Int /\ 1 \in Int
      BY <1>1
    <3>5. /\ q \in Seq(Levels) /\ Len(q) = IF 1 <= L - 1 THEN L - 1 - 1 + 1 ELSE 0
          /\ \A k \in 1 .. L - 1 - 1 + 1 : q[k] = t[1 + k - 1]
      BY <3>2, <3>3, <3>4, SubSeqProperties
    <3>6. Len(q) = L - 1 /\ \A k \in 1 .. L - 1 : q[k] = t[k]
      <4>1. L - 1 - 1 + 1 = L - 1 /\ L - 1 \in Nat
        BY <1>1
      <4>2. \A k \in 1 .. L - 1 : 1 + k - 1 = k
        BY <4>1
      <4>3. Len(q) = L - 1
        BY <3>5, <4>1
      <4>4. \A k \in 1 .. L - 1 : q[k] = t[k]
        BY <3>5, <4>1, <4>2
      <4>5. QED
        BY <4>3, <4>4
    <3>7. QED
      BY <1>1, <3>1, <3>5, <3>6
  <2>2. CASE ~(Len(t) > L - 1)
    <3>1. q = t
      BY <1>3, <2>2 DEF PopTree
    <3>2. QED
      BY <1>1, <2>2, <3>1
  <2>3. QED
    BY <2>1, <2>2
<1>5. ASSUME NEW k \in 1 .. Len(q)
      PROVE  /\ q[k].boundary \in 0 .. to[k + 1] - to[k]
             /\ k < Len(q) => q[k].boundary = to[k + 1] - to[k]
             /\ q[k].target = Dtors(SubSeq(rest, 1, to[k] + q[k].boundary))
  <2>1. /\ k \in 1 .. L /\ k + 1 \in 1 .. L /\ k \in 1 .. Len(t) /\ k \in 1 .. Len(s)
        /\ (k < Len(q) => k < Len(t))
    BY <1>1, <1>4
  <2>2. to[k] = at[k] /\ to[k + 1] = at[k + 1] /\ q[k] = t[k]
    BY <1>4, <2>1
  <2>3. PICK a, b, m : a = at[k] /\ b = at[k + 1] /\ m = t[k].boundary
    OBVIOUS
  <2>4. a \in Nat /\ b \in Nat /\ a <= b /\ b <= Len(all)
    BY <2>1, <2>3, SliceOf
  <2>5. /\ m \in 0 .. b - a /\ (k < Len(t) => m = b - a)
        /\ t[k].target = Dtors(SubSeq(all, 1, a + m))
    BY <2>1, <2>3 DEF Path
  <2>6. PICK c : c = at[L]
    OBVIOUS
  <2>7. c \in Nat /\ b <= c /\ c <= Len(all)
    <3>1. L \in 1 .. L + 1 /\ k + 1 \in 1 .. L + 1 /\ k + 1 <= L
      BY <1>1, <2>1
    <3>2. at[L] \in 0 .. Len(all) /\ at[k + 1] <= at[L]
      BY <3>1 DEF Slices
    <3>3. QED
      BY <2>3, <2>6, <3>2
  <2>8. SubSeq(rest, 1, a + m) = SubSeq(all, 1, a + m)
    <3>1. /\ 0 \in 0 .. c - 0 /\ a + m \in 0 .. c - 0 /\ 0 <= c /\ 0 \in Nat
          /\ 0 + 0 + 1 = 1 /\ 0 + 1 = 1 /\ 0 + (a + m) = a + m
      BY <2>4, <2>5, <2>7
    <3>2. SubSeq(SubSeq(all, 0 + 1, c), 0 + 1, a + m)
              = SubSeq(all, 0 + 0 + 1, 0 + (a + m))
      BY <2>7, <3>1, PartOfPart
    <3>3. QED
      BY <2>6, <3>1, <3>2
  <2>9. QED
    BY <2>1, <2>2, <2>3, <2>5, <2>8
<1>6. Path(q, r, rest, to)
  BY <1>2, <1>4, <1>5 DEF Path
<1>7. QED
  BY <1>3, <1>4, <1>6

\* r and to are the scopes and the marks with e in the innermost scope.
Grown(s, all, at, e, L, r, to) ==
    /\ r = [s EXCEPT ![L].objs = Append(@, e)]
    /\ to = [k \in 1 .. L + 1 |-> IF k <= L THEN at[k] ELSE Len(all) + 1]

\* AstDeclareVariable: one more variable in the innermost scope.
LEMMA SlicesGrow ==
    ASSUME NEW s \in Seq(Scopes), s # <<>>, NEW all \in Seq(Objects), NEW at,
           Slices(s, all, at), NEW e \in Objects, NEW L, L = Len(s),
           NEW r, NEW to, Grown(s, all, at, e, L, r, to)
    PROVE  /\ r \in Seq(Scopes) /\ Len(r) = L
           /\ \A k \in 1 .. L : r[k].scope = s[k].scope
           /\ Append(all, e) \in Seq(Objects)
           /\ Slices(r, Append(all, e), to)
<1> USE DEF Grown
<1>1. L \in Nat \ {0} /\ L \in 1 .. Len(s)
  BY EmptySeq
<1>2. PICK top : top = [s[L] EXCEPT !.objs = Append(@, e)]
  OBVIOUS
<1>3. s[L] \in Scopes /\ s[L].objs \in Seq(Objects)
  <2>1. s[L] \in Scopes
    BY <1>1, ElementOfSeq
  <2>2. QED
    BY <2>1 DEF Scopes
<1>4. top \in Scopes /\ top.scope = s[L].scope /\ top.objs = Append(s[L].objs, e)
  <2>1. Append(s[L].objs, e) \in Seq(Objects)
    BY <1>3, AppendProperties
  <2>2. QED
    BY <1>2, <1>3, <2>1 DEF Scopes
<1>5. r = [s EXCEPT ![L] = top]
  BY <1>2
<1>6. /\ r \in Seq(Scopes) /\ Len(r) = L
      /\ \A k \in 1 .. L : r[k] = IF k = L THEN top ELSE s[k]
  <2>1. PICK q : q = [s EXCEPT ![L] = top]
    OBVIOUS
  <2>2. /\ q \in Seq(Scopes) /\ Len(q) = Len(s)
        /\ \A k \in 1 .. Len(s) : q[k] = IF k = L THEN top ELSE s[k]
    BY <1>1, <1>4, <2>1, ExceptSeq
  <2>3. QED
    BY <1>5, <2>1, <2>2
<1>7. /\ Append(all, e) \in Seq(Objects) /\ Len(Append(all, e)) = Len(all) + 1
      /\ Append(all, e) = all \o <<e>>
  BY AppendProperties, AppendIsConcat
<1>8. Len(all) \in Nat /\ <<e>> \in Seq(Objects)
  OBVIOUS
<1>9. /\ \A k \in 1 .. L + 1 : at[k] \in 0 .. Len(all)
      /\ at[1] = 0 /\ at[L + 1] = Len(all)
  BY DEF Slices
<1>10. to[L + 1] = Len(all) + 1 /\ \A k \in 1 .. L : to[k] = at[k]
  BY <1>1
<1>11. \A k \in 1 .. L + 1 : k \in 1 .. L \/ k = L + 1
  BY <1>1
<1>12. ASSUME NEW k \in 1 .. L + 1 PROVE to[k] \in 0 .. Len(all) + 1
  BY <1>1, <1>8, <1>9, <1>10, <1>11
<1>13. to \in [1 .. Len(r) + 1 -> 0 .. Len(Append(all, e))]
  BY <1>6, <1>7, <1>12
<1>14. to[1] = 0 /\ to[Len(r) + 1] = Len(Append(all, e))
  BY <1>1, <1>6, <1>7, <1>9, <1>10
<1>15. ASSUME NEW j \in 1 .. L + 1, NEW k \in 1 .. L + 1, j <= k
       PROVE  to[j] <= to[k]
  <2>1. CASE k = L + 1
    <3>1. to[j] \in 0 .. Len(all) + 1
      BY <1>12
    <3>2. QED
      BY <1>10, <2>1, <3>1
  <2>2. CASE k # L + 1
    <3>1. j \in 1 .. L /\ k \in 1 .. L
      BY <1>1, <1>15, <2>2
    <3>2. at[j] <= at[k]
      BY <1>15 DEF Slices
    <3>3. QED
      BY <1>10, <3>1, <3>2
  <2>3. QED
    BY <2>1, <2>2
<1>16. ASSUME NEW k \in 1 .. L
       PROVE  r[k].objs = SubSeq(Append(all, e), to[k] + 1, to[k + 1])
  <2> k \in 1 .. Len(s)
    OBVIOUS
  <2>1. PICK a, b : a = at[k] /\ b = at[k + 1]
    OBVIOUS
  <2>2. /\ a \in Nat /\ b \in Nat /\ a <= b /\ b <= Len(all)
        /\ s[k].objs = SubSeq(all, a + 1, b)
    <3>1. /\ at[k] \in 0 .. Len(all) /\ at[k + 1] \in 0 .. Len(all)
          /\ at[k] <= at[k + 1]
          /\ s[k].objs = SubSeq(all, at[k] + 1, at[k + 1])
      BY SliceOf, SMTT(30)
    <3>2. QED
      BY <2>1, <3>1
  <2>3. SubSeq(all \o <<e>>, a + 1, b) = SubSeq(all, a + 1, b)
    BY <1>8, <2>2, PrefixKept
  <2>4. to[k] = a
    BY <1>10, <2>1
  <2>5. CASE k # L
    <3>1. k + 1 \in 1 .. L /\ to[k + 1] = b
      BY <1>1, <1>10, <2>1, <2>5
    <3>2. r[k].objs = s[k].objs
      BY <1>6, <2>5
    <3>3. QED
      BY <1>7, <2>2, <2>3, <2>4, <3>1, <3>2
  <2>6. CASE k = L
    <3>1. b = Len(all) /\ to[k + 1] = b + 1
      BY <1>9, <1>10, <2>1, <2>6
    <3>2. r[k].objs = Append(SubSeq(all, a + 1, b), e)
      BY <1>4, <1>6, <2>2, <2>6
    <3>3. SubSeq(Append(all, e), a + 1, b + 1) = Append(SubSeq(all, a + 1, b), e)
      <4>1. PICK x, n : x = Append(all, e) /\ n = b + 1
        OBVIOUS
      <4>2. /\ x \in Seq(Objects) /\ n = Len(x) /\ x[n] = e /\ n - 1 = b
            /\ a + 1 \in 1 .. Len(x) /\ n \in a + 1 .. Len(x)
        BY <1>7, <2>2, <3>1, <4>1, AppendProperties
      <4>3. SubSeq(x, a + 1, n) = SubSeq(x, a + 1, n - 1) \o <<x[n]>>
        BY <4>2, SubSeqRecursiveSecond
      <4>4. SubSeq(x, a + 1, b) = SubSeq(all, a + 1, b)
        BY <1>7, <2>3, <4>1
      <4>5. SubSeq(all, a + 1, b) \in Seq(Objects)
        BY <2>2, PartType
      <4>6. Append(SubSeq(all, a + 1, b), e) = SubSeq(all, a + 1, b) \o <<e>>
        BY <4>5, AppendIsConcat
      <4>7. SubSeq(x, a + 1, n) = SubSeq(all, a + 1, b) \o <<e>>
        BY <4>2, <4>3, <4>4, Zenon
      <4>8. QED
        BY <4>1, <4>6, <4>7, Zenon
    <3>4. QED
      BY <2>4, <3>1, <3>2, <3>3
  <2>7. QED
    BY <2>5, <2>6
<1>17. Slices(r, Append(all, e), to)
  <2>1. \A j, k \in 1 .. Len(r) + 1 : j <= k => to[j] <= to[k]
    BY <1>6, <1>15
  <2>2. \A k \in 1 .. Len(r) :
            r[k].objs = SubSeq(Append(all, e), to[k] + 1, to[k + 1])
    BY <1>6, <1>16
  <2>3. QED
    BY <1>13, <1>14, <2>1, <2>2 DEF Slices
<1>18. \A k \in 1 .. L : r[k].scope = s[k].scope
  BY <1>4, <1>6
<1>19. QED
  BY <1>6, <1>7, <1>17, <1>18

\* The blocks made so far stay right when a variable is declared.
LEMMA PathGrow ==
    ASSUME NEW s \in Seq(Scopes), s # <<>>, NEW all \in Seq(Objects), NEW at,
           Slices(s, all, at), NEW e \in Objects, NEW L, L = Len(s),
           NEW r, Len(r) = L, NEW to, Grown(s, all, at, e, L, r, to),
           NEW t, Len(t) \in Nat, Path(t, s, all, at)
    PROVE  Path(t, r, Append(all, e), to)
<1> USE DEF Grown
<1>1. L \in Nat \ {0} /\ Len(t) <= L
  BY EmptySeq DEF Path
<1>2. Append(all, e) = all \o <<e>> /\ <<e>> \in Seq(Objects)
  BY AppendIsConcat
<1>3. at[L + 1] = Len(all) /\ to[L + 1] = Len(all) + 1
      /\ \A k \in 1 .. L : to[k] = at[k]
  BY <1>1 DEF Slices
<1>4. ASSUME NEW k \in 1 .. Len(t)
      PROVE  /\ t[k].boundary \in 0 .. to[k + 1] - to[k]
             /\ k < Len(t) => t[k].boundary = to[k + 1] - to[k]
             /\ t[k].target = Dtors(SubSeq(Append(all, e), 1, to[k] + t[k].boundary))
  <2>1. k \in 1 .. Len(s) /\ k \in 1 .. L
    BY <1>1
  <2>2. PICK a, b, m : a = at[k] /\ b = at[k + 1] /\ m = t[k].boundary
    OBVIOUS
  <2>3. a \in Nat /\ b \in Nat /\ a <= b /\ b <= Len(all)
    BY <2>1, <2>2, SliceOf, SMTT(30)
  <2>4. /\ m \in 0 .. b - a /\ (k < Len(t) => m = b - a)
        /\ t[k].target = Dtors(SubSeq(all, 1, a + m))
    BY <2>2 DEF Path
  <2>5. SubSeq(Append(all, e), 1, a + m) = SubSeq(all, 1, a + m)
    <3>1. a + m \in Nat /\ a + m <= Len(all) /\ 0 + 1 = 1 /\ 0 \in Nat
      BY <2>3, <2>4
    <3>2. SubSeq(all \o <<e>>, 0 + 1, a + m) = SubSeq(all, 0 + 1, a + m)
      BY <1>2, <3>1, PrefixKept
    <3>3. QED
      BY <1>2, <3>1, <3>2
  <2>6. to[k] = a /\ (k < L => to[k + 1] = b) /\ (k = L => to[k + 1] = b + 1)
    BY <1>1, <1>3, <2>1, <2>2
  <2>7. to[k + 1] \in {b, b + 1} /\ (k < Len(t) => to[k + 1] = b)
    BY <1>1, <2>1, <2>6
  <2>8. m \in 0 .. to[k + 1] - a
    BY <2>3, <2>4, <2>7
  <2>9. QED
    BY <2>2, <2>4, <2>5, <2>6, <2>7, <2>8
<1>5. QED
  BY <1>1, <1>4 DEF Path

(***************************************************************************)
(* The inductive invariant.                                                *)
(***************************************************************************)
Kinds == {"fn", "scope", "while", "for", "body", "step", "throw"}
Walks == [kind : Kinds, mark : Nat, dead : BOOLEAN]

Shapes ==
    /\ scopes \in Seq(Scopes) /\ tree \in Seq(Levels) /\ targets \in Seq(Nat)
    /\ walk \in Seq(Walks) /\ live \in Seq(Objects) /\ noexcept \in BOOLEAN

\* Where the variables of each scope begin, and the number of live variables.
Marks == [k \in 1 .. Len(walk) + 1 |->
             IF k <= Len(walk) THEN walk[k].mark ELSE Len(live)]

\* Scopes are numbered, but for the scope without a node that a throw opens.
Numbering ==
    \A k \in 1 .. Len(scopes) :
        scopes[k].scope = k \/ (k = Len(scopes) /\ walk[k].kind = "throw")

\* The manager's scopes are the scopes of the walk, and its path of blocks
\* belongs to them.
Nested ==
    /\ Len(scopes) = Len(walk)
    /\ Numbering
    /\ Slices(scopes, live, Marks)
    /\ Path(tree, scopes, live, Marks)

\* The scopes that the bodies of the open loops have, or will have.
LoopScopes == {k \in 1 .. Len(walk) : walk[k].kind = "while"}
         \cup {k + 1 : k \in {j \in 1 .. Len(walk) : walk[j].kind \in {"for", "step"}}}

Rising(t) ==
    /\ \A i, j \in 1 .. Len(t) : i < j => t[i] < t[j]
    /\ \A i \in 1 .. Len(t) : i < t[i]
Values(t) == {t[i] : i \in 1 .. Len(t)}

\* The targets of break and continue are the scopes of the loops' bodies, the
\* innermost loop last; a for loop is followed by its body.
Loops ==
    /\ Rising(targets)
    /\ Values(targets) = LoopScopes
    /\ \A k \in 1 .. Len(walk) :
        /\ walk[k].kind = "fn" <=> k = 1
        /\ walk[k].kind = "for" /\ k < Len(walk) => walk[k + 1].kind = "body"
        /\ walk[k].kind = "body" => walk[k - 1].kind = "for"
        /\ walk[k].kind = "step" => k = Len(walk)

Counted ==
    /\ num = NumNontrivial(live)
    /\ fn \in 0 .. MaxFns /\ catch \in {0, fn} /\ made \in 0 .. MaxObjects

ScopeInvariant == Shapes /\ Nested /\ Loops /\ Counted

(***************************************************************************)
(* The scopes and the path of blocks.                                      *)
(***************************************************************************)
LEMMA TwoMore ==
    ASSUME NEW L \in Nat
    PROVE  \A k \in 1 .. L + 2 : k \in 1 .. L \/ k = L + 1 \/ k = L + 2
OBVIOUS

\* Opening a scope.
LEMMA PushStep ==
    ASSUME Shapes, Nested, NEW kind \in Kinds,
           walk = <<>> \/ Inner.kind # "throw",
           NEW node \in Nat, node = Len(scopes) + 1 \/ kind = "throw",
           scopes' = Append(scopes, [scope |-> node, objs |-> <<>>]),
           walk' = Append(walk, Open(kind)), UNCHANGED <<live, tree>>
    PROVE  /\ scopes' \in Seq(Scopes) /\ walk' \in Seq(Walks)
           /\ Nested'
<1>1. PICK e : e = [scope |-> node, objs |-> <<>>]
  OBVIOUS
<1>2. PICK w : w = Open(kind)
  OBVIOUS
<1>3. PICK L : L = Len(scopes)
  OBVIOUS
<1>4. L \in Nat /\ L = Len(walk) /\ Len(live) \in Nat
  BY <1>3 DEF Shapes, Nested
<1>5. e \in Scopes /\ e.objs = <<>> /\ e.scope = node /\ Len(e.objs) = 0
  BY <1>1, <1>3, <1>4 DEF Scopes
<1>6. w \in Walks /\ w.mark = Len(live) /\ w.kind = kind
  BY <1>2, <1>4 DEF Walks, Open
<1>7. /\ scopes' \in Seq(Scopes) /\ Len(scopes') = L + 1 /\ scopes'[L + 1] = e
      /\ \A k \in 1 .. L : scopes'[k] = scopes[k]
  BY <1>1, <1>3, <1>5, AppendProperties DEF Shapes
<1>8. /\ walk' \in Seq(Walks) /\ Len(walk') = L + 1 /\ walk'[L + 1] = w
      /\ \A k \in 1 .. L : walk'[k] = walk[k]
  BY <1>2, <1>4, <1>6, AppendProperties DEF Shapes
<1>9. live' = live \o e.objs
  BY <1>5, ConcatEmptySeq DEF Shapes
<1>10. Marks' = Pushed(scopes, Marks, Len(e.objs))
  <2>1. Marks' = [k \in 1 .. L + 1 + 1 |->
                     IF k <= L + 1 THEN walk'[k].mark ELSE Len(live)]
    BY <1>8 DEF Marks
  <2>2. Pushed(scopes, Marks, Len(e.objs)) =
            [k \in 1 .. L + 2 |-> IF k <= L + 1 THEN Marks[k] ELSE Marks[L + 1] + 0]
    BY <1>3, <1>5 DEF Pushed
  <2>3. \A k \in 1 .. L + 1 :
            Marks[k] = IF k <= L THEN walk[k].mark ELSE Len(live)
    BY <1>4 DEF Marks
  <2>4. \A k \in 1 .. L + 2 :
            (IF k <= L + 1 THEN walk'[k].mark ELSE Len(live))
                = IF k <= L + 1 THEN Marks[k] ELSE Marks[L + 1] + 0
    <3>1. ASSUME NEW k \in 1 .. L PROVE walk'[k].mark = Marks[k]
      BY <1>4, <1>8, <2>3
    <3>2. walk'[L + 1].mark = Marks[L + 1] /\ Marks[L + 1] = Len(live)
      BY <1>4, <1>6, <1>8, <2>3
    <3>3. \A k \in 1 .. L + 2 : k \in 1 .. L \/ k = L + 1 \/ k = L + 2
      BY <1>4, TwoMore
    <3>4. QED
      BY <1>4, <3>1, <3>2, <3>3
  <2>5. L + 1 + 1 = L + 2
    BY <1>4
  <2>6. QED
    BY <2>1, <2>2, <2>4, <2>5
<1>11. Slices(scopes, live, Marks)' /\ Path(tree, scopes, live, Marks)'
  <2>1. scopes' = Append(scopes, e) /\ tree' = tree
    BY <1>1
  <2>2. Len(tree) \in Nat
    BY DEF Shapes
  <2>3. /\ Slices(Append(scopes, e), live \o e.objs,
                  Pushed(scopes, Marks, Len(e.objs)))
        /\ Path(tree, Append(scopes, e), live \o e.objs,
                Pushed(scopes, Marks, Len(e.objs)))
    BY <1>5, <2>2, SlicesPush, PathPush DEF Shapes, Nested
  <2>4. QED
    BY <1>9, <1>10, <2>1, <2>3
<1>12. Numbering'
  <2>1. \A k \in 1 .. L + 1 : k \in 1 .. L \/ k = L + 1
    BY <1>4
  <2>2. ASSUME NEW k \in 1 .. L PROVE scopes'[k].scope = k
    <3>1. k = L => walk[k].kind # "throw"
      BY <1>4, EmptySeq DEF Inner
    <3>2. scopes[k].scope = k \/ (k = L /\ walk[k].kind = "throw")
      BY <1>3 DEF Nested, Numbering
    <3>3. QED
      BY <1>7, <3>1, <3>2
  <2>3. scopes'[L + 1].scope = L + 1 \/ walk'[L + 1].kind = "throw"
    BY <1>3, <1>5, <1>6, <1>7, <1>8
  <2>4. QED
    BY <1>7, <2>1, <2>2, <2>3 DEF Numbering
<1>13. QED
  BY <1>7, <1>8, <1>11, <1>12 DEF Nested

\* The scopes without the innermost one.
LEMMA SlicesWithout ==
    ASSUME Shapes, Nested, scopes # <<>>, NEW L, L = Len(scopes),
           NEW r, NEW rest, NEW to, Popped(scopes, live, Marks, L, r, rest, to)
    PROVE  /\ r \in Seq(Scopes) /\ Len(r) = L - 1
           /\ rest \in Seq(Objects) /\ Slices(r, rest, to)
<1>1. /\ scopes \in Seq(Scopes) /\ live \in Seq(Objects)
      /\ Slices(scopes, live, Marks)
  BY DEF Shapes, Nested
<1>2. QED
  BY <1>1, SlicesPop

\* Closing a scope.
LEMMA PopStep ==
    ASSUME Shapes, Nested, walk # <<>>,
           scopes' = SubSeq(scopes, 1, Len(scopes) - 1),
           tree' = PopTree(tree, Len(scopes) - 1),
           live' = SubSeq(live, 1, Inner.mark),
           walk' \in Seq(Walks), Len(walk') = Len(walk) - 1,
           \A k \in 1 .. Len(walk) - 1 : walk'[k].mark = walk[k].mark
    PROVE  /\ scopes' \in Seq(Scopes) /\ tree' \in Seq(Levels)
           /\ live' \in Seq(Objects)
           /\ Nested'
<1>1. PICK L : L = Len(scopes)
  OBVIOUS
<1>2. L \in Nat \ {0} /\ L = Len(walk)
  BY <1>1, EmptySeq DEF Shapes, Nested
<1>3. scopes \in Seq(Scopes) /\ scopes # <<>> /\ live \in Seq(Objects)
      /\ tree \in Seq(Levels)
  BY <1>1, <1>2 DEF Shapes
<1>4. \A k \in 1 .. L : Marks[k] = walk[k].mark
  BY <1>2 DEF Marks
<1>5. live' = SubSeq(live, 1, Marks[L])
  <2>1. Inner.mark = Marks[L]
    BY <1>2, <1>4 DEF Inner
  <2>2. QED
    BY <2>1, Zenon
<1>6. PICK to : to = [k \in 1 .. L |-> Marks[k]]
  OBVIOUS
<1>7. /\ scopes' \in Seq(Scopes) /\ Len(scopes') = L - 1
      /\ live' \in Seq(Objects)
      /\ Slices(scopes', live', to)
  <2>1. PICK r, rest : r = scopes' /\ rest = live'
    OBVIOUS
  <2>2. Popped(scopes, live, Marks, L, r, rest, to)
    BY <1>1, <1>5, <1>6, <2>1 DEF Popped
  <2>3. /\ r \in Seq(Scopes) /\ Len(r) = L - 1
        /\ rest \in Seq(Objects) /\ Slices(r, rest, to)
    BY <1>1, <1>3, <2>2, SlicesWithout
  <2>4. QED
    BY <2>1, <2>3
<1>8. /\ tree' \in Seq(Levels) /\ Path(tree', scopes', live', to)
  <2>1. PICK r, rest : r = scopes' /\ rest = live'
    OBVIOUS
  <2>2. Popped(scopes, live, Marks, L, r, rest, to)
    BY <1>1, <1>5, <1>6, <2>1 DEF Popped
  <2>3. /\ PopTree(tree, L - 1) \in Seq(Levels)
        /\ Path(PopTree(tree, L - 1), r, rest, to)
    BY <1>1, <1>3, <2>2, PathPop DEF Nested
  <2>4. QED
    BY <1>1, <2>1, <2>3
<1>9. Marks' = to
  <2>1. Len(walk') + 1 = L
    BY <1>2
  <2>2. to[L] = Len(live')
    <3>1. Len(scopes') + 1 = L
      BY <1>2, <1>7
    <3>2. QED
      BY <1>7, <3>1 DEF Slices
  <2>3. Marks' = [k \in 1 .. L |-> IF k <= L - 1 THEN walk'[k].mark ELSE Len(live')]
    <3>1. Len(walk') = L - 1
      BY <1>2
    <3>2. QED
      BY <2>1, <3>1 DEF Marks
  <2>4. \A k \in 1 .. L : (IF k <= L - 1 THEN walk'[k].mark ELSE Len(live')) = to[k]
    <3>1. ASSUME NEW k \in 1 .. L - 1 PROVE walk'[k].mark = to[k]
      BY <1>2, <1>4, <1>6
    <3>2. \A k \in 1 .. L : k \in 1 .. L - 1 \/ (k = L /\ ~(k <= L - 1))
      BY <1>2
    <3>3. ASSUME NEW k \in 1 .. L
          PROVE  (IF k <= L - 1 THEN walk'[k].mark ELSE Len(live')) = to[k]
      <4>1. CASE k \in 1 .. L - 1
        BY <3>1, <4>1
      <4>2. CASE k = L /\ ~(k <= L - 1)
        BY <2>2, <4>2
      <4>3. QED
        BY <3>2, <4>1, <4>2
    <3>4. QED
      BY <3>3
  <2>5. to = [k \in 1 .. L |-> to[k]]
    BY <1>6
  <2>6. QED
    BY <2>3, <2>4, <2>5
<1>10. Numbering'
  <2>1. \A k \in 1 .. L - 1 : k \in 1 .. L /\ k # L
    BY <1>2
  <2>2. \A k \in 1 .. L - 1 : scopes'[k] = scopes[k]
    <3>1. \A k \in 1 .. L - 1 : scopes[k] \in Scopes
      BY <1>1, <1>3, <2>1, ElementOfSeq
    <3>2. L - 1 \in Int /\ 1 \in Int /\ L - 1 - 1 + 1 = L - 1
      BY <1>2
    <3>3. PICK r : r = SubSeq(scopes, 1, L - 1)
      OBVIOUS
    <3>4. \A k \in 1 .. L - 1 - 1 + 1 : r[k] = scopes[1 + k - 1]
      BY <3>1, <3>2, <3>3, SubSeqProperties
    <3>5. \A k \in 1 .. L - 1 : r[k] = scopes[k]
      BY <3>2, <3>4
    <3>6. QED
      BY <1>1, <3>3, <3>5
  <2>3. QED
    BY <1>1, <1>7, <2>1, <2>2 DEF Nested, Numbering
<1>11. Slices(scopes, live, Marks)' /\ Path(tree, scopes, live, Marks)'
  BY <1>7, <1>8, <1>9
<1>12. QED
  BY <1>2, <1>7, <1>8, <1>10, <1>11 DEF Nested

\* The innermost scope with one more variable, and a path that belongs to the
\* scopes without it.
LEMMA GrowFacts ==
    ASSUME Shapes, Nested, walk # <<>>, NEW e \in Objects,
           NEW L, L = Len(scopes), NEW r, NEW to,
           Grown(scopes, live, Marks, e, L, r, to),
           NEW t \in Seq(Levels), Path(t, scopes, live, Marks)
    PROVE  /\ r \in Seq(Scopes) /\ Len(r) = L
           /\ \A k \in 1 .. L : r[k].scope = scopes[k].scope
           /\ Append(live, e) \in Seq(Objects)
           /\ Slices(r, Append(live, e), to)
           /\ Path(t, r, Append(live, e), to)
<1>1. scopes \in Seq(Scopes) /\ scopes # <<>> /\ live \in Seq(Objects)
      /\ Slices(scopes, live, Marks)
  BY EmptySeq DEF Shapes, Nested
<1>2. /\ r \in Seq(Scopes) /\ Len(r) = L
      /\ \A k \in 1 .. L : r[k].scope = scopes[k].scope
      /\ Append(live, e) \in Seq(Objects)
      /\ Slices(r, Append(live, e), to)
  BY <1>1, SlicesGrow
<1>3. Path(t, r, Append(live, e), to)
  <2>1. Len(t) \in Nat
    OBVIOUS
  <2>2. QED
    BY <1>1, <1>2, <2>1, PathGrow DEF Nested
<1>4. QED
  BY <1>2, <1>3

\* The marks of the grown scopes.
LEMMA GrownMarks ==
    ASSUME Shapes, Nested, walk # <<>>, NEW e \in Objects,
           live' = Append(live, e), Len(walk') = Len(walk),
           \A k \in 1 .. Len(walk) : walk'[k].mark = walk[k].mark,
           NEW L, L = Len(scopes), NEW r, r = [scopes EXCEPT ![L].objs = Append(@, e)]
    PROVE  Grown(scopes, live, Marks, e, L, r, Marks')
<1>1. L \in Nat \ {0} /\ L = Len(walk)
  BY EmptySeq DEF Shapes, Nested
<1>2. Len(live') = Len(live) + 1
  BY AppendProperties DEF Shapes
<1>3. Marks' = [k \in 1 .. L + 1 |-> IF k <= L THEN Marks[k] ELSE Len(live) + 1]
  <2>1. Marks' = [k \in 1 .. L + 1 |-> IF k <= L THEN walk'[k].mark ELSE Len(live) + 1]
    BY <1>1, <1>2 DEF Marks
  <2>2. \A k \in 1 .. L : walk'[k].mark = Marks[k]
    BY <1>1 DEF Marks
  <2>3. \A k \in 1 .. L + 1 : (k <= L => k \in 1 .. L)
    BY <1>1
  <2>4. \A k \in 1 .. L + 1 : (IF k <= L THEN walk'[k].mark ELSE Len(live) + 1)
                                = (IF k <= L THEN Marks[k] ELSE Len(live) + 1)
    BY <2>2, <2>3
  <2>5. QED
    BY <2>1, <2>4
<1>4. QED
  BY <1>3 DEF Grown

\* Declaring a variable: the path of the scopes so far belongs to the new ones.
LEMMA GrowStep ==
    ASSUME Shapes, Nested, walk # <<>>, NEW e \in Objects,
           scopes' = [scopes EXCEPT ![Len(scopes)].objs = Append(@, e)],
           live' = Append(live, e), Len(walk') = Len(walk),
           \A k \in 1 .. Len(walk) : walk'[k].mark = walk[k].mark,
           \A k \in 1 .. Len(walk) : walk'[k].kind = walk[k].kind,
           NEW t \in Seq(Levels), Path(t, scopes, live, Marks)
    PROVE  /\ scopes' \in Seq(Scopes) /\ Len(scopes') = Len(scopes)
           /\ live' \in Seq(Objects)
           /\ Slices(scopes', live', Marks') /\ Path(t, scopes', live', Marks')
           /\ Numbering'
<1>1. PICK L, r, to : L = Len(scopes) /\ r = scopes' /\ to = Marks'
  OBVIOUS
<1>2. Grown(scopes, live, Marks, e, L, r, to) /\ L = Len(scopes)
  <2>1. r = [scopes EXCEPT ![L].objs = Append(@, e)] /\ L = Len(scopes)
    BY <1>1
  <2>2. Grown(scopes, live, Marks, e, L, r, Marks')
    BY <2>1, GrownMarks
  <2>3. QED
    BY <1>1, <2>2
<1>3. /\ r \in Seq(Scopes) /\ Len(r) = L
      /\ \A k \in 1 .. L : r[k].scope = scopes[k].scope
      /\ Append(live, e) \in Seq(Objects)
      /\ Slices(r, Append(live, e), to)
      /\ Path(t, r, Append(live, e), to)
  BY <1>2, GrowFacts
<1>4. Numbering'
  <2>1. Len(walk) = L
    BY <1>1 DEF Nested
  <2>2. QED
    BY <1>1, <1>3, <2>1 DEF Nested, Numbering
<1>5. QED
  BY <1>1, <1>3, <1>4

\* Steps that leave the scopes and the variables as they are.
LEMMA SameStep ==
    ASSUME Shapes, Nested, UNCHANGED <<scopes, live>>,
           walk' \in Seq(Walks), Len(walk') = Len(walk),
           \A k \in 1 .. Len(walk) : walk'[k].mark = walk[k].mark,
           \A k \in 1 .. Len(walk) : walk'[k].kind = walk[k].kind,
           Path(tree', scopes, live, Marks)
    PROVE  Nested'
<1>1. Marks' = Marks
  <2>1. \A k \in 1 .. Len(walk) + 1 :
            (IF k <= Len(walk) THEN walk'[k].mark ELSE Len(live))
                = IF k <= Len(walk) THEN walk[k].mark ELSE Len(live)
    <3>1. Len(walk) \in Nat
      BY DEF Shapes
    <3>2. \A k \in 1 .. Len(walk) + 1 : k <= Len(walk) => k \in 1 .. Len(walk)
      BY <3>1
    <3>3. QED
      BY <3>2
  <2>2. Marks' = [k \in 1 .. Len(walk) + 1 |->
                     IF k <= Len(walk) THEN walk'[k].mark ELSE Len(live)]
    BY DEF Marks
  <2>3. QED
    BY <2>1, <2>2 DEF Marks
<1>2. Numbering'
  BY DEF Nested, Numbering
<1>3. QED
  BY <1>1, <1>2 DEF Nested

(***************************************************************************)
(* The targets of break and continue.                                      *)
(***************************************************************************)
\* The last of rising targets is the greatest.
LEMMA LastIsGreatest ==
    ASSUME NEW t \in Seq(Nat), t # <<>>, Rising(t), NEW n, n = Len(t)
    PROVE  /\ n \in Nat \ {0} /\ t[n] \in Values(t) /\ n < t[n]
           /\ \A x \in Values(t) : x <= t[n]
<1>1. n \in Nat \ {0} /\ n \in 1 .. Len(t)
  BY EmptySeq
<1>2. ASSUME NEW i \in 1 .. Len(t) PROVE t[i] <= t[n]
  <2>1. t[i] \in Nat /\ t[n] \in Nat
    BY <1>1, ElementOfSeq
  <2>2. i < n => t[i] < t[n]
    BY <1>1 DEF Rising
  <2>3. i < n \/ i = n
    BY <1>1
  <2>4. QED
    BY <2>1, <2>2, <2>3
<1>3. n < t[n] /\ t[n] \in Values(t)
  BY <1>1 DEF Rising, Values
<1>4. QED
  BY <1>1, <1>2, <1>3 DEF Values

\* One more loop.
LEMMA RisingPush ==
    ASSUME NEW t \in Seq(Nat), Rising(t), NEW x \in Nat, Len(t) + 1 < x,
           \A y \in Values(t) : y < x
    PROVE  /\ Append(t, x) \in Seq(Nat) /\ Rising(Append(t, x))
           /\ Values(Append(t, x)) = Values(t) \cup {x}
<1>1. PICK r, n : r = Append(t, x) /\ n = Len(t)
  OBVIOUS
<1>2. /\ n \in Nat /\ r \in Seq(Nat) /\ Len(r) = n + 1 /\ r[n + 1] = x
      /\ \A i \in 1 .. n : r[i] = t[i]
  BY <1>1, AppendProperties
<1>3. \A i \in 1 .. n : t[i] \in Values(t)
  BY <1>1 DEF Values
<1>4. \A i \in 1 .. n + 1 : i \in 1 .. n \/ i = n + 1
  BY <1>2
<1>5. Values(r) = Values(t) \cup {x}
  <2>1. Values(r) = {r[i] : i \in 1 .. n + 1} /\ Values(t) = {t[i] : i \in 1 .. n}
    BY <1>1, <1>2 DEF Values
  <2>2. \A i \in 1 .. n + 1 : r[i] \in Values(t) \cup {x}
    BY <1>2, <1>3, <1>4
  <2>3. \A i \in 1 .. n : i \in 1 .. n + 1
    BY <1>2
  <2>4. x \in Values(r)
    BY <1>2, <2>1
  <2>5. Values(t) \subseteq Values(r)
    BY <1>2, <2>1, <2>3
  <2>6. QED
    BY <2>1, <2>2, <2>4, <2>5
<1>6. ASSUME NEW i \in 1 .. n + 1, NEW j \in 1 .. n + 1, i < j
      PROVE  r[i] < r[j]
  <2>1. i \in 1 .. n
    BY <1>2, <1>6
  <2>2. CASE j \in 1 .. n
    BY <1>1, <1>2, <1>6, <2>1, <2>2 DEF Rising
  <2>3. CASE j = n + 1
    BY <1>2, <1>3, <2>1, <2>3
  <2>4. QED
    BY <1>4, <2>2, <2>3
<1>7. ASSUME NEW i \in 1 .. n + 1 PROVE i < r[i]
  <2>1. CASE i \in 1 .. n
    BY <1>1, <1>2, <2>1 DEF Rising
  <2>2. CASE i = n + 1
    BY <1>1, <1>2, <2>2
  <2>3. QED
    BY <1>4, <2>1, <2>2
<1>8. Rising(r)
  BY <1>2, <1>6, <1>7 DEF Rising
<1>9. QED
  BY <1>1, <1>2, <1>5, <1>8

\* One loop less.
LEMMA RisingPop ==
    ASSUME NEW t \in Seq(Nat), t # <<>>, Rising(t), NEW n, n = Len(t)
    PROVE  /\ SubSeq(t, 1, n - 1) \in Seq(Nat) /\ Rising(SubSeq(t, 1, n - 1))
           /\ Values(SubSeq(t, 1, n - 1)) = Values(t) \ {t[n]}
<1>1. n \in Nat \ {0}
  BY EmptySeq
<1>2. PICK r : r = SubSeq(t, 1, n - 1)
  OBVIOUS
<1>3. r \in Seq(Nat) /\ Len(r) = n - 1 /\ \A i \in 1 .. n - 1 : r[i] = t[i]
  <2>1. \A i \in 1 .. n - 1 : i \in 1 .. Len(t)
    BY <1>1
  <2>2. \A i \in 1 .. n - 1 : t[i] \in Nat
    BY <2>1, ElementOfSeq
  <2>3. n - 1 \in Int /\ 1 \in Int /\ n - 1 - 1 + 1 = n - 1
    BY <1>1
  <2>4. /\ r \in Seq(Nat) /\ Len(r) = IF 1 <= n - 1 THEN n - 1 - 1 + 1 ELSE 0
        /\ \A i \in 1 .. n - 1 - 1 + 1 : r[i] = t[1 + i - 1]
    BY <1>2, <2>2, <2>3, SubSeqProperties
  <2>5. Len(r) = n - 1
    BY <1>1, <2>4
  <2>6. \A i \in 1 .. n - 1 : r[i] = t[i]
    BY <2>3, <2>4
  <2>7. QED
    BY <2>4, <2>5, <2>6
<1>4. \A i \in 1 .. n - 1 : i \in 1 .. Len(t) /\ i \in 1 .. n /\ i < n
  BY <1>1
<1>5. Rising(r)
  BY <1>3, <1>4 DEF Rising
<1>6. Values(r) = Values(t) \ {t[n]}
  <2>1. Values(r) = {t[i] : i \in 1 .. n - 1} /\ Values(t) = {t[i] : i \in 1 .. n}
    BY <1>3 DEF Values
  <2>2. ASSUME NEW i \in 1 .. n - 1 PROVE t[i] \in Values(t) /\ t[i] # t[n]
    <3>1. n \in 1 .. Len(t) /\ t[i] \in Nat /\ t[n] \in Nat
      BY <1>1, <1>4, ElementOfSeq
    <3>2. t[i] < t[n]
      BY <1>4, <3>1 DEF Rising
    <3>3. QED
      BY <1>4, <2>1, <3>1, <3>2
  <2>3. \A i \in 1 .. n : i \in 1 .. n - 1 \/ i = n
    BY <1>1
  <2>4. \A x \in Values(t) \ {t[n]} : x \in Values(r)
    BY <2>1, <2>3
  <2>5. QED
    BY <2>1, <2>2, <2>4
<1>7. QED
  BY <1>2, <1>3, <1>5, <1>6

\* Where a statement may stand, the loops' scopes are open.
LEMMA LoopsOpen ==
    ASSUME Shapes, Loops, InBlock, NEW L, L = Len(walk)
    PROVE  /\ L \in Nat \ {0} /\ LoopScopes \subseteq 1 .. L
           /\ LoopScopes = {k \in 1 .. L : walk[k].kind \in {"while", "body"}}
           /\ Len(targets) < L
<1>1. L \in Nat \ {0} /\ walk[L].kind \notin {"for", "step"}
  BY EmptySeq DEF Shapes, InBlock, Here, Inner
<1>2. \A k \in 1 .. L :
        /\ walk[k].kind = "fn" <=> k = 1
        /\ walk[k].kind = "for" /\ k < L => walk[k + 1].kind = "body"
        /\ walk[k].kind = "body" => walk[k - 1].kind = "for"
        /\ walk[k].kind = "step" => k = L
  BY DEF Loops
<1>3. ASSUME NEW k \in 1 .. L, walk[k].kind \in {"for", "step"}
      PROVE  walk[k].kind = "for" /\ k + 1 \in 1 .. L /\ walk[k + 1].kind = "body"
  <2>1. k # L
    BY <1>1, <1>3
  <2>2. walk[k].kind = "for" /\ k < L /\ k + 1 \in 1 .. L
    BY <1>1, <1>2, <1>3, <2>1
  <2>3. QED
    BY <1>2, <2>2
<1>4. ASSUME NEW k \in 1 .. L, walk[k].kind = "body"
      PROVE  k - 1 \in 1 .. L /\ walk[k - 1].kind = "for" /\ (k - 1) + 1 = k
  <2>1. k # 1
    BY <1>2, <1>4
  <2>2. QED
    BY <1>1, <1>2, <1>4, <2>1
<1>5. LoopScopes = {k \in 1 .. L : walk[k].kind \in {"while", "body"}}
  <2>1. ASSUME NEW x \in LoopScopes
        PROVE  x \in 1 .. L /\ walk[x].kind \in {"while", "body"}
    <3>1. CASE x \in 1 .. L /\ walk[x].kind = "while"
      BY <3>1
    <3>2. ASSUME NEW j \in 1 .. L, walk[j].kind \in {"for", "step"}, x = j + 1
          PROVE  x \in 1 .. L /\ walk[x].kind \in {"while", "body"}
      BY <1>3, <3>2
    <3>3. QED
      BY <3>1, <3>2 DEF LoopScopes
  <2>2. ASSUME NEW x \in 1 .. L, walk[x].kind \in {"while", "body"}
        PROVE  x \in LoopScopes
    <3>1. CASE walk[x].kind = "while"
      BY <3>1 DEF LoopScopes
    <3>2. CASE walk[x].kind = "body"
      <4>1. PICK j : j = x - 1
        OBVIOUS
      <4>2. j \in 1 .. L /\ walk[j].kind = "for" /\ x = j + 1
        BY <1>4, <3>2, <4>1
      <4>3. QED
        BY <4>2 DEF LoopScopes
    <3>3. QED
      BY <2>2, <3>1, <3>2
  <2>3. QED
    BY <2>1, <2>2
<1>6. Len(targets) < L
  <2>1. CASE targets = <<>>
    BY <1>1, <2>1
  <2>2. CASE targets # <<>>
    <3>1. PICK n : n = Len(targets)
      OBVIOUS
    <3>2. targets[n] \in LoopScopes /\ n < targets[n] /\ n \in Nat
      BY <2>2, <3>1, LastIsGreatest DEF Loops, Shapes
    <3>3. targets[n] \in 1 .. L
      BY <1>5, <3>2
    <3>4. QED
      BY <1>1, <3>1, <3>2, <3>3
  <2>3. QED
    BY <2>1, <2>2
<1>7. QED
  BY <1>1, <1>5, <1>6

\* Opening a scope keeps the loops and their targets together.
LEMMA LoopsPush ==
    ASSUME Shapes, Loops, Here,
           NEW kind \in {"scope", "while", "for", "body", "throw"},
           NEW L, L = Len(walk), walk' = Append(walk, Open(kind)),
           \/ kind = "body" /\ Inner.kind = "for" /\ targets' = targets
           \/ kind \in {"scope", "throw"} /\ InBlock /\ targets' = targets
           \/ kind = "while" /\ InBlock /\ targets' = Append(targets, L + 1)
           \/ kind = "for" /\ InBlock /\ targets' = Append(targets, L + 2)
    PROVE  Loops' /\ targets' \in Seq(Nat)
<1>1. L \in Nat \ {0} /\ Inner = walk[L]
  BY EmptySeq DEF Shapes, Here, Inner
<1>2. PICK w : w = Open(kind)
  OBVIOUS
<1>3. w \in Walks /\ w.kind = kind
  BY <1>2 DEF Walks, Open, Kinds, Shapes
<1>4. /\ Len(walk') = L + 1 /\ walk'[L + 1] = w
      /\ \A k \in 1 .. L : walk'[k] = walk[k]
  BY <1>2, <1>3, AppendProperties DEF Shapes
<1>5. \A k \in 1 .. L + 1 : k \in 1 .. L \/ k = L + 1
  BY <1>1
<1>6. \A k \in 1 .. L :
        /\ walk[k].kind = "fn" <=> k = 1
        /\ walk[k].kind = "for" /\ k < L => walk[k + 1].kind = "body"
        /\ walk[k].kind = "body" => walk[k - 1].kind = "for"
        /\ walk[k].kind = "step" => k = L
  BY DEF Loops
<1>7. (walk[L].kind = "for" /\ kind = "body") \/ (InBlock /\ kind # "body")
  BY <1>1
<1>8. walk[L].kind # "step" /\ (walk[L].kind = "for" <=> kind = "body")
  BY <1>1, <1>7 DEF InBlock
<1>9. ASSUME NEW k \in 1 .. L + 1
      PROVE  /\ walk'[k].kind = "fn" <=> k = 1
             /\ walk'[k].kind = "for" /\ k < L + 1 => walk'[k + 1].kind = "body"
             /\ walk'[k].kind = "body" => walk'[k - 1].kind = "for"
             /\ walk'[k].kind = "step" => k = L + 1
  <2>1. CASE k \in 1 .. L
    <3>1. walk'[k] = walk[k]
      BY <1>4, <2>1
    <3>2. walk[k].kind = "for" => walk'[k + 1].kind = "body"
      <4>1. CASE k = L
        BY <1>3, <1>4, <1>8, <4>1
      <4>2. CASE k # L
        <5>1. k < L /\ k + 1 \in 1 .. L
          BY <1>1, <2>1, <4>2
        <5>2. QED
          BY <1>4, <1>6, <2>1, <5>1
      <4>3. QED
        BY <4>1, <4>2
    <3>3. walk[k].kind = "body" => walk'[k - 1].kind = "for"
      <4>1. walk[k].kind = "body" => k # 1
        BY <1>6, <2>1
      <4>2. k # 1 => k - 1 \in 1 .. L
        BY <1>1, <2>1
      <4>3. QED
        BY <1>4, <1>6, <2>1, <4>1, <4>2
    <3>4. walk[k].kind # "step"
      BY <1>6, <1>8, <2>1
    <3>5. walk[k].kind = "fn" <=> k = 1
      BY <1>6, <2>1
    <3>6. QED
      BY <3>1, <3>2, <3>3, <3>4, <3>5
  <2>2. CASE k = L + 1
    <3>1. walk'[k].kind = kind /\ k # 1 /\ ~(k < L + 1) /\ k - 1 = L
      BY <1>1, <1>3, <1>4, <2>2
    <3>2. kind = "body" => walk'[k - 1].kind = "for"
      <4>1. L \in 1 .. L
        BY <1>1
      <4>2. QED
        BY <1>4, <1>8, <3>1, <4>1
    <3>3. QED
      BY <2>2, <3>1, <3>2
  <2>3. QED
    BY <1>5, <2>1, <2>2
<1>10. LoopScopes' = LoopScopes \cup (IF kind = "while" THEN {L + 1}
                                      ELSE IF kind = "for" THEN {L + 2} ELSE {})
  <2>1. LoopScopes' = {k \in 1 .. L + 1 : walk'[k].kind = "while"}
               \cup {k + 1 : k \in {j \in 1 .. L + 1 : walk'[j].kind \in {"for", "step"}}}
    BY <1>4 DEF LoopScopes
  <2>2. {k \in 1 .. L + 1 : walk'[k].kind = "while"}
            = {k \in 1 .. L : walk[k].kind = "while"}
              \cup (IF kind = "while" THEN {L + 1} ELSE {})
    BY <1>1, <1>3, <1>4, <1>5
  <2>3. {j \in 1 .. L + 1 : walk'[j].kind \in {"for", "step"}}
            = {j \in 1 .. L : walk[j].kind \in {"for", "step"}}
              \cup (IF kind = "for" THEN {L + 1} ELSE {})
    BY <1>1, <1>3, <1>4, <1>5
  <2>4. PICK A : A = {j \in 1 .. L : walk[j].kind \in {"for", "step"}}
    OBVIOUS
  <2>5. L + 1 + 1 = L + 2
    BY <1>1
  <2>6. LoopScopes = {k \in 1 .. L : walk[k].kind = "while"} \cup {k + 1 : k \in A}
    BY <2>4 DEF LoopScopes
  <2>7. CASE kind = "for"
    <3>1. {k + 1 : k \in A \cup {L + 1}} = {k + 1 : k \in A} \cup {L + 2}
      BY <2>5
    <3>2. QED
      BY <2>1, <2>2, <2>3, <2>4, <2>6, <2>7, <3>1
  <2>8. CASE kind # "for"
    <3>1. A \cup {} = A
      OBVIOUS
    <3>2. QED
      BY <2>1, <2>2, <2>3, <2>4, <2>6, <2>8, <3>1
  <2>9. QED
    BY <2>7, <2>8
<1>11. Rising(targets)' /\ Values(targets)' = LoopScopes' /\ targets' \in Seq(Nat)
  <2>1. Rising(targets) /\ Values(targets) = LoopScopes /\ targets \in Seq(Nat)
    BY DEF Loops, Shapes
  <2>2. CASE kind \in {"body", "scope", "throw"}
    <3>1. targets' = targets
      BY <2>2
    <3>2. LoopScopes' = LoopScopes
      BY <1>10, <2>2
    <3>3. QED
      BY <2>1, <3>1, <3>2
  <2>3. ASSUME NEW x \in {L + 1, L + 2}, InBlock, targets' = Append(targets, x),
               LoopScopes' = LoopScopes \cup {x}
        PROVE  Rising(targets)' /\ Values(targets)' = LoopScopes' /\ targets' \in Seq(Nat)
    <3>1. LoopScopes \subseteq 1 .. L /\ Len(targets) < L /\ Len(targets) \in Nat
      BY <2>1, <2>3, LoopsOpen
    <3>2. x \in Nat /\ Len(targets) + 1 < x
      <4>1. PICK n : n = Len(targets)
        OBVIOUS
      <4>2. n \in Nat /\ n < L
        BY <3>1, <4>1
      <4>3. x \in Nat /\ n + 1 < x
        BY <1>1, <4>2
      <4>4. QED
        BY <4>1, <4>3
    <3>3. \A y \in Values(targets) : y < x
      <4>1. \A y \in 1 .. L : y < x
        BY <1>1
      <4>2. QED
        BY <2>1, <3>1, <4>1, Zenon
    <3>4. PICK t : t = Append(targets, x)
      OBVIOUS
    <3>5. t \in Seq(Nat) /\ Rising(t) /\ Values(t) = Values(targets) \cup {x}
      BY <2>1, <3>2, <3>3, <3>4, RisingPush
    <3>6. targets' = t
      BY <2>3, <3>4
    <3>7. QED
      BY <2>1, <2>3, <3>5, <3>6
  <2>4. CASE kind = "while"
    BY <1>10, <2>3, <2>4
  <2>5. CASE kind = "for"
    BY <1>10, <2>3, <2>5
  <2>6. QED
    BY <2>2, <2>4, <2>5
<1>12. QED
  BY <1>4, <1>9, <1>11 DEF Loops

\* Closing a scope: the targets of a loop that is left go with it.
LEMMA LoopsPop ==
    ASSUME Shapes, Loops, walk # <<>>, Inner.kind # "for", NEW L, L = Len(walk),
           walk' \in Seq(Walks), Len(walk') = L - 1,
           \A k \in 1 .. L - 1 :
               walk'[k].kind = IF k = L - 1 /\ Inner.kind = "body" THEN "step"
                               ELSE walk[k].kind,
           targets' = IF Inner.kind \in {"while", "step"}
                      THEN SubSeq(targets, 1, Len(targets) - 1) ELSE targets
    PROVE  Loops' /\ targets' \in Seq(Nat)
<1>1. L \in Nat \ {0} /\ Inner = walk[L] /\ L \in 1 .. L
  BY EmptySeq DEF Shapes, Inner
<1>2. PICK in : in = walk[L].kind
  OBVIOUS
<1>3. \A k \in 1 .. L :
        /\ walk[k].kind = "fn" <=> k = 1
        /\ walk[k].kind = "for" /\ k < L => walk[k + 1].kind = "body"
        /\ walk[k].kind = "body" => walk[k - 1].kind = "for"
        /\ walk[k].kind = "step" => k = L
  BY DEF Loops
<1>4. \A k \in 1 .. L - 1 :
         walk'[k].kind = IF k = L - 1 /\ in = "body" THEN "step" ELSE walk[k].kind
  BY <1>1, <1>2
<1>5. in # "for" /\ (in = "body" => L > 1 /\ walk[L - 1].kind = "for")
  <2>1. in = "body" => L # 1
    BY <1>1, <1>2, <1>3
  <2>2. QED
    BY <1>1, <1>2, <1>3, <2>1
<1>6. \A k \in 1 .. L - 1 : k \in 1 .. L /\ k < L /\ k # L
  BY <1>1
<1>7. ASSUME NEW k \in 1 .. L - 1
      PROVE  /\ walk'[k].kind = "fn" <=> k = 1
             /\ walk'[k].kind = "for" /\ k < L - 1 => walk'[k + 1].kind = "body"
             /\ walk'[k].kind = "body" => walk'[k - 1].kind = "for"
             /\ walk'[k].kind = "step" => k = L - 1
  <2>1. CASE k = L - 1 /\ in = "body"
    <3>1. walk'[k].kind = "step" /\ ~(k < L - 1)
      BY <1>1, <1>4, <2>1
    <3>2. k # 1
      <4>1. walk[k].kind = "for"
        BY <1>5, <2>1
      <4>2. QED
        BY <1>3, <1>6, <4>1
    <3>3. QED
      BY <2>1, <3>1, <3>2
  <2>2. CASE ~(k = L - 1 /\ in = "body")
    <3>1. walk'[k].kind = walk[k].kind /\ k \in 1 .. L /\ k # L
      BY <1>4, <1>6, <2>2
    <3>2. walk[k].kind = "for" /\ k < L - 1 => walk'[k + 1].kind = "body"
      <4> SUFFICES ASSUME walk[k].kind = "for", k < L - 1
                   PROVE  walk'[k + 1].kind = "body"
        OBVIOUS
      <4>1. k + 1 \in 1 .. L - 1 /\ walk[k + 1].kind = "body"
        BY <1>1, <1>3, <1>6
      <4>2. ~(k + 1 = L - 1 /\ in = "body")
        BY <1>5, <4>1
      <4>3. QED
        BY <1>4, <4>1, <4>2
    <3>3. walk[k].kind = "body" => walk'[k - 1].kind = "for"
      <4> SUFFICES ASSUME walk[k].kind = "body"
                   PROVE  walk'[k - 1].kind = "for"
        OBVIOUS
      <4>1. k # 1 /\ walk[k - 1].kind = "for"
        BY <1>3, <3>1
      <4>2. k - 1 \in 1 .. L - 1 /\ k - 1 # L - 1
        BY <1>1, <4>1
      <4>3. QED
        BY <1>4, <4>1, <4>2
    <3>4. walk[k].kind # "step"
      BY <1>3, <3>1
    <3>5. walk[k].kind = "fn" <=> k = 1
      BY <1>3, <3>1
    <3>6. QED
      BY <3>1, <3>2, <3>3, <3>4, <3>5
  <2>3. QED
    BY <2>1, <2>2
<1>8. LoopScopes' = LoopScopes \ (IF in = "while" THEN {L}
                                  ELSE IF in = "step" THEN {L + 1} ELSE {})
  <2>1. LoopScopes' = {k \in 1 .. L - 1 : walk'[k].kind = "while"}
               \cup {k + 1 : k \in {j \in 1 .. L - 1 : walk'[j].kind \in {"for", "step"}}}
    BY DEF LoopScopes
  <2>2. {k \in 1 .. L - 1 : walk'[k].kind = "while"}
            = {k \in 1 .. L - 1 : walk[k].kind = "while"}
    <3>1. \A k \in 1 .. L - 1 : walk'[k].kind = "while" <=> walk[k].kind = "while"
      BY <1>1, <1>4, <1>5
    <3>2. QED
      BY <3>1
  <2>3. {j \in 1 .. L - 1 : walk'[j].kind \in {"for", "step"}}
            = {j \in 1 .. L - 1 : walk[j].kind \in {"for", "step"}}
    <3>1. \A k \in 1 .. L - 1 : walk'[k].kind \in {"for", "step"}
                                  <=> walk[k].kind \in {"for", "step"}
      BY <1>1, <1>4, <1>5
    <3>2. QED
      BY <3>1
  <2>4. PICK A, B : /\ A = {j \in 1 .. L - 1 : walk[j].kind \in {"for", "step"}}
                    /\ B = {k \in 1 .. L - 1 : walk[k].kind = "while"}
    OBVIOUS
  <2>5. LoopScopes' = B \cup {k + 1 : k \in A}
    BY <2>1, <2>2, <2>3, <2>4
  <2>6. \A k \in 1 .. L : k \in 1 .. L - 1 \/ k = L
    BY <1>1
  <2>7. {k \in 1 .. L : walk[k].kind = "while"} = B \cup (IF in = "while" THEN {L} ELSE {})
    BY <1>1, <1>2, <1>6, <2>4, <2>6
  <2>8. {j \in 1 .. L : walk[j].kind \in {"for", "step"}}
            = A \cup (IF in = "step" THEN {L} ELSE {})
    BY <1>1, <1>2, <1>5, <1>6, <2>4, <2>6
  <2>9. LoopScopes = (B \cup (IF in = "while" THEN {L} ELSE {}))
                     \cup {k + 1 : k \in A \cup (IF in = "step" THEN {L} ELSE {})}
    BY <2>7, <2>8 DEF LoopScopes
  <2>10. \A k \in A : k \in 1 .. L - 1 /\ k + 1 # L + 1
    BY <1>1, <2>4
  <2>11. ASSUME in # "body", NEW k \in A PROVE k + 1 # L
    <3> SUFFICES ASSUME k + 1 = L PROVE FALSE
      OBVIOUS
    <3>1. k \in 1 .. L /\ k < L /\ k # L
      BY <1>6, <2>10
    <3>2. walk[k].kind = "for"
      BY <1>3, <2>4, <3>1
    <3>3. walk[L].kind = "body"
      BY <1>3, <3>1, <3>2
    <3>4. QED
      BY <1>2, <2>11, <3>3
  <2>12. \A k \in B : k # L /\ k # L + 1
    BY <1>1, <2>4
  <2>13. CASE in = "while"
    <3>1. LoopScopes = (B \cup {L}) \cup {k + 1 : k \in A}
      BY <2>9, <2>13
    <3>2. QED
      BY <2>5, <2>11, <2>12, <2>13, <3>1
  <2>14. CASE in = "step"
    <3>1. LoopScopes = B \cup {k + 1 : k \in A \cup {L}}
      BY <2>9, <2>14
    <3>2. {k + 1 : k \in A \cup {L}} = {k + 1 : k \in A} \cup {L + 1}
      OBVIOUS
    <3>3. QED
      BY <2>5, <2>10, <2>12, <2>14, <3>1, <3>2
  <2>15. CASE in \notin {"while", "step"}
    <3>1. LoopScopes = B \cup {k + 1 : k \in A}
      BY <2>9, <2>15
    <3>2. QED
      BY <2>5, <2>15, <3>1
  <2>16. QED
    BY <2>13, <2>14, <2>15
<1>9. Rising(targets)' /\ Values(targets)' = LoopScopes' /\ targets' \in Seq(Nat)
  <2>1. Rising(targets) /\ Values(targets) = LoopScopes /\ targets \in Seq(Nat)
    BY DEF Loops, Shapes
  <2>2. CASE in \notin {"while", "step"}
    <3>1. targets' = targets /\ LoopScopes' = LoopScopes
      BY <1>1, <1>2, <1>8, <2>2
    <3>2. QED
      BY <2>1, <3>1
  <2>3. CASE in \in {"while", "step"}
    <3>1. PICK m : m = IF in = "while" THEN L ELSE L + 1
      OBVIOUS
    <3>2. LoopScopes' = LoopScopes \ {m}
      BY <1>8, <2>3, <3>1
    <3>3. m \in LoopScopes /\ m \in Nat
      <4>1. CASE in = "while"
        BY <1>1, <1>2, <3>1, <4>1 DEF LoopScopes
      <4>2. CASE in = "step"
        <5>1. L \in {j \in 1 .. L : walk[j].kind \in {"for", "step"}} /\ m = L + 1
          BY <1>1, <1>2, <3>1, <4>2
        <5>2. QED
          BY <1>1, <5>1 DEF LoopScopes
      <4>3. QED
        BY <2>3, <4>1, <4>2
    <3>4. \A x \in LoopScopes : x \in Nat /\ x <= m
      <4>1. ASSUME NEW k \in 1 .. L, walk[k].kind = "while"
            PROVE  k \in Nat /\ k <= m
        BY <1>1, <3>1
      <4>2. ASSUME NEW k \in 1 .. L, walk[k].kind \in {"for", "step"}
            PROVE  k + 1 \in Nat /\ k + 1 <= m
        <5>1. CASE in = "step"
          BY <1>1, <3>1, <5>1
        <5>2. CASE in = "while"
          <6>1. k # L
            BY <1>2, <4>2, <5>2
          <6>2. QED
            BY <1>1, <3>1, <5>2, <6>1
        <5>3. QED
          BY <2>3, <5>1, <5>2
      <4>3. QED
        BY <4>1, <4>2 DEF LoopScopes
    <3>5. targets # <<>>
      <4>1. targets = <<>> => Values(targets) = {}
        BY DEF Values
      <4>2. QED
        BY <2>1, <3>3, <4>1
    <3>6. PICK n : n = Len(targets)
      OBVIOUS
    <3>7. targets[n] = m
      <4>1. targets[n] \in LoopScopes /\ \A x \in LoopScopes : x <= targets[n]
        BY <2>1, <3>5, <3>6, LastIsGreatest
      <4>2. targets[n] \in Nat /\ targets[n] <= m /\ m <= targets[n]
        BY <3>3, <3>4, <4>1
      <4>3. QED
        BY <3>3, <4>2
    <3>8. PICK t : t = SubSeq(targets, 1, n - 1)
      OBVIOUS
    <3>9. t \in Seq(Nat) /\ Rising(t) /\ Values(t) = Values(targets) \ {targets[n]}
      BY <2>1, <3>5, <3>6, <3>8, RisingPop
    <3>10. targets' = t
      BY <1>1, <1>2, <2>3, <3>6, <3>8
    <3>11. QED
      BY <2>1, <3>2, <3>7, <3>9, <3>10
  <2>4. QED
    BY <2>2, <2>3
<1>10. QED
  BY <1>7, <1>9 DEF Loops

(***************************************************************************)
(* The jumps.                                                              *)
(***************************************************************************)
\* An exception where the variables alive are those of the scopes s: the path
\* is extended and its innermost block destroys them all.
LEMMA Throws ==
    ASSUME NEW s \in Seq(Scopes), s # <<>>, NEW all \in Seq(Objects), NEW at,
           Slices(s, all, at), tree \in Seq(Levels), Path(tree, s, all, at),
           NEW count, count = NumNontrivial(all),
           NEW path, path = ExtendedTree(s, tree)
    PROVE  /\ path \in Seq(Levels) /\ Complete(path, s, all, at)
           /\ (IF StraightToCatch(count) THEN <<>> ELSE path[Len(s)].target)
                  = IF noexcept THEN <<>> ELSE Dtors(SubSeq(all, 0 + 1, Len(all)))
<1>1. path \in Seq(Levels) /\ Complete(path, s, all, at)
  BY ExtendedComplete
<1>2. Dtors(all) \in Seq(Objects) /\ count = Len(Dtors(all))
  BY DtorsType DEF NumNontrivial
<1>3. 0 + 1 = 1 /\ SubSeq(all, 1, Len(all)) = all
  BY SubSeqFull
<1>4. path[Len(s)].target = Dtors(all)
  <2>1. PICK L : L = Len(s)
    OBVIOUS
  <2>2. L \in 1 .. Len(path) /\ at[L + 1] = Len(all)
    BY <1>1, <2>1, EmptySeq DEF Complete, Slices
  <2>3. path[L].target = Dtors(SubSeq(all, 1, at[L + 1]))
    BY <1>1, <2>2 DEF Complete
  <2>4. QED
    BY <1>3, <2>1, <2>2, <2>3
<1>5. count = 0 => Dtors(all) = <<>>
  BY <1>2, EmptySeq
<1>6. QED
  BY <1>1, <1>3, <1>4, <1>5 DEF StraightToCatch

\* The destructors on the way to a scope are those of the variables declared
\* since it was opened.
LEMMA WaysOut ==
    ASSUME Shapes, Nested, walk # <<>>, Inner.kind # "throw",
           NEW b \in 0 .. Len(walk),
           NEW mark, mark = IF b = 0 THEN 0 ELSE walk[b].mark
    PROVE  /\ DestructorSequenceUntil(b) = Dtors(SubSeq(live, mark + 1, Len(live)))
           /\ mark \in 0 .. Len(live)
<1>1. PICK first : first = IF b = 0 THEN 1 ELSE b
  OBVIOUS
<1>2. /\ scopes \in Seq(Scopes) /\ scopes # <<>> /\ live \in Seq(Objects)
      /\ Slices(scopes, live, Marks) /\ b \in 0 .. Len(scopes)
      /\ Len(walk) \in Nat \ {0}
  BY EmptySeq DEF Shapes, Nested
<1> Numbered
  BY DEF Nested, Numbering, Numbered, Inner
<1>3. DestructorSequenceUntil(b) = Dtors(SubSeq(live, Marks[first] + 1, Len(live)))
  BY <1>1, <1>2, UntilScope
<1>4. Marks[first] = mark
  <2>1. CASE b = 0
    BY <1>1, <1>2, <2>1 DEF Slices
  <2>2. CASE b # 0
    <3>1. b \in 1 .. Len(walk) + 1 /\ b <= Len(walk)
      BY <1>2, <2>2
    <3>2. QED
      BY <1>1, <2>2, <3>1 DEF Marks
  <2>3. QED
    BY <2>1, <2>2
<1>5. mark \in 0 .. Len(live)
  <2>1. first \in 1 .. Len(scopes) + 1
    BY <1>1, <1>2
  <2>2. QED
    BY <1>2, <1>4, <2>1 DEF Slices
<1>6. QED
  BY <1>3, <1>4, <1>5

\* break and continue leave the scopes up to the innermost loop's body.
LEMMA BreakTarget ==
    ASSUME Shapes, Loops, InBlock, targets # <<>>
    PROVE  /\ targets[Len(targets)] \in 1 .. Len(walk)
           /\ LoopMark = walk[targets[Len(targets)]].mark
<1>1. PICK b, L : b = targets[Len(targets)] /\ L = Len(walk)
  OBVIOUS
<1>2. PICK bodies : bodies = {k \in 1 .. L : walk[k].kind \in {"while", "body"}}
  OBVIOUS
<1>3. bodies \subseteq 1 .. L /\ LoopScopes = bodies
  BY <1>1, <1>2, LoopsOpen
<1>4. b \in bodies /\ \A x \in bodies : x <= b
  <2>1. PICK n : n = Len(targets)
    OBVIOUS
  <2>2. targets[n] \in Values(targets) /\ \A x \in Values(targets) : x <= targets[n]
    BY <2>1, LastIsGreatest DEF Loops, Shapes
  <2>3. QED
    BY <1>1, <1>3, <2>1, <2>2 DEF Loops
<1>5. (CHOOSE k \in bodies : \A j \in bodies : j <= k) = b
  <2>1. ASSUME NEW k \in bodies, \A j \in bodies : j <= k PROVE k = b
    <3>1. k \in Nat /\ b \in Nat /\ k <= b /\ b <= k
      BY <1>3, <1>4, <2>1
    <3>2. QED
      BY <3>1
  <2>2. QED
    BY <1>4, <2>1
<1>6. LoopMark = walk[b].mark
  <2>1. LoopMark = walk[CHOOSE k \in bodies : \A j \in bodies : j <= k].mark
    BY <1>1, <1>2 DEF LoopMark
  <2>2. QED
    BY <1>5, <2>1
<1>7. QED
  BY <1>1, <1>3, <1>4, <1>6

(***************************************************************************)
(* The walk.                                                               *)
(***************************************************************************)
\* Steps that stay in the same AST nodes.
LEMMA LoopsSame ==
    ASSUME Shapes, Loops, targets' = targets,
           walk' \in Seq(Walks), Len(walk') = Len(walk),
           \A k \in 1 .. Len(walk) : walk'[k].kind = walk[k].kind
    PROVE  Loops'
<1>1. PICK L : L = Len(walk)
  OBVIOUS
<1>2. L \in Nat /\ L = Len(walk') /\ \A k \in 1 .. L : walk'[k].kind = walk[k].kind
  BY <1>1 DEF Shapes
<1>3. \A k \in 1 .. L :
        /\ walk[k].kind = "fn" <=> k = 1
        /\ walk[k].kind = "for" /\ k < L => walk[k + 1].kind = "body"
        /\ walk[k].kind = "body" => walk[k - 1].kind = "for"
        /\ walk[k].kind = "step" => k = L
  BY <1>1 DEF Loops
<1>4. ASSUME NEW k \in 1 .. L
      PROVE  /\ walk'[k].kind = "fn" <=> k = 1
             /\ walk'[k].kind = "for" /\ k < L => walk'[k + 1].kind = "body"
             /\ walk'[k].kind = "body" => walk'[k - 1].kind = "for"
             /\ walk'[k].kind = "step" => k = L
  <2>1. k < L => k + 1 \in 1 .. L
    BY <1>2
  <2>2. walk[k].kind = "body" => k # 1
    BY <1>3
  <2>3. k # 1 => k - 1 \in 1 .. L
    BY <1>2
  <2>4. QED
    BY <1>2, <1>3, <2>1, <2>2, <2>3
<1>5. LoopScopes' = LoopScopes
  <2>1. {k \in 1 .. L : walk'[k].kind = "while"} = {k \in 1 .. L : walk[k].kind = "while"}
    BY <1>2
  <2>2. {j \in 1 .. L : walk'[j].kind \in {"for", "step"}}
            = {j \in 1 .. L : walk[j].kind \in {"for", "step"}}
    BY <1>2
  <2>3. LoopScopes = {k \in 1 .. L : walk[k].kind = "while"}
                \cup {k + 1 : k \in {j \in 1 .. L : walk[j].kind \in {"for", "step"}}}
    BY <1>1 DEF LoopScopes
  <2>4. LoopScopes' = {k \in 1 .. L : walk'[k].kind = "while"}
                \cup {k + 1 : k \in {j \in 1 .. L : walk'[j].kind \in {"for", "step"}}}
    BY <1>2 DEF LoopScopes
  <2>5. QED
    BY <2>1, <2>2, <2>3, <2>4, Zenon
<1>6. Rising(targets') /\ Values(targets') = LoopScopes'
  BY <1>5 DEF Loops
<1>7. QED
  BY <1>2, <1>4, <1>6 DEF Loops

\* The walk with a jump behind its last statement.
Jumped(w, r) == r = [w EXCEPT ![Len(w)].dead = TRUE]

LEMMA JumpedType ==
    ASSUME NEW w \in Seq(Walks), w # <<>>, NEW r, Jumped(w, r)
    PROVE  /\ r \in Seq(Walks) /\ Len(r) = Len(w)
           /\ \A k \in 1 .. Len(w) : r[k].kind = w[k].kind /\ r[k].mark = w[k].mark
<1>1. PICK L : L = Len(w)
  OBVIOUS
<1>2. L \in Nat \ {0} /\ \A k \in 1 .. L : w[k] \in Walks
  BY <1>1, EmptySeq, ElementOfSeq
<1>3. r = [w EXCEPT ![L] = [w[L] EXCEPT !.dead = TRUE]]
  BY <1>1 DEF Jumped
<1>4. PICK e : e = [w[L] EXCEPT !.dead = TRUE]
  OBVIOUS
<1>5. e \in Walks /\ e.kind = w[L].kind /\ e.mark = w[L].mark
  <2>1. w[L] \in Walks
    BY <1>2
  <2>2. QED
    BY <1>4, <2>1 DEF Walks
<1>6. r \in Seq(Walks) /\ Len(r) = L
      /\ \A k \in 1 .. L : r[k] = IF k = L THEN e ELSE w[k]
  BY <1>1, <1>2, <1>3, <1>4, <1>5
<1>7. QED
  BY <1>1, <1>5, <1>6

\* The walk without its innermost node, and with the for loop's node behind
\* its body.
Stepping(w, r) == r = [w EXCEPT ![Len(w)].kind = "step"]

LEMMA SteppingType ==
    ASSUME NEW w \in Seq(Walks), w # <<>>, NEW r, Stepping(w, r)
    PROVE  /\ r \in Seq(Walks) /\ Len(r) = Len(w)
           /\ \A k \in 1 .. Len(w) :
                /\ r[k].kind = IF k = Len(w) THEN "step" ELSE w[k].kind
                /\ r[k].mark = w[k].mark
<1>1. PICK L : L = Len(w)
  OBVIOUS
<1>2. L \in Nat \ {0} /\ \A k \in 1 .. L : w[k] \in Walks
  BY <1>1, EmptySeq, ElementOfSeq
<1>3. r = [w EXCEPT ![L] = [w[L] EXCEPT !.kind = "step"]]
  BY <1>1 DEF Stepping
<1>4. PICK e : e = [w[L] EXCEPT !.kind = "step"]
  OBVIOUS
<1>5. e \in Walks /\ e.kind = "step" /\ e.mark = w[L].mark
  <2>1. w[L] \in Walks
    BY <1>2
  <2>2. QED
    BY <1>4, <2>1 DEF Walks, Kinds
<1>6. r \in Seq(Walks) /\ Len(r) = L
      /\ \A k \in 1 .. L : r[k] = IF k = L THEN e ELSE w[k]
  BY <1>1, <1>2, <1>3, <1>4, <1>5
<1>7. QED
  BY <1>1, <1>5, <1>6

LEMMA WithoutInner ==
    ASSUME NEW w \in Seq(Walks), w # <<>>, NEW L, L = Len(w),
           NEW r, r = SubSeq(w, 1, L - 1)
    PROVE  /\ L \in Nat \ {0} /\ r \in Seq(Walks) /\ Len(r) = L - 1
           /\ \A k \in 1 .. L - 1 : r[k] = w[k]
<1>1. L \in Nat \ {0}
  BY EmptySeq
<1>2. \A k \in 1 .. L - 1 : k \in 1 .. Len(w)
  BY <1>1
<1>3. \A k \in 1 .. L - 1 : w[k] \in Walks
  BY <1>2, ElementOfSeq
<1>4. L - 1 \in Int /\ 1 \in Int /\ L - 1 - 1 + 1 = L - 1
  BY <1>1
<1>5. /\ r \in Seq(Walks) /\ Len(r) = IF 1 <= L - 1 THEN L - 1 - 1 + 1 ELSE 0
      /\ \A k \in 1 .. L - 1 - 1 + 1 : r[k] = w[1 + k - 1]
  BY <1>3, <1>4, SubSeqProperties
<1>6. Len(r) = L - 1
  BY <1>1, <1>5
<1>7. \A k \in 1 .. L - 1 : r[k] = w[k]
  BY <1>4, <1>5
<1>8. QED
  BY <1>1, <1>5, <1>6, <1>7

(***************************************************************************)
(* The count of non-trivial variables.                                     *)
(***************************************************************************)
LEMMA CountConcat ==
    ASSUME NEW s \in Seq(Objects), NEW t \in Seq(Objects)
    PROVE  /\ NumNontrivial(s \o t) = NumNontrivial(s) + NumNontrivial(t)
           /\ NumNontrivial(s) \in Nat /\ NumNontrivial(t) \in Nat
<1>1. Dtors(s \o t) = Dtors(t) \o Dtors(s)
  BY DtorsConcat
<1>2. PICK d, e : d = Dtors(s) /\ e = Dtors(t)
  OBVIOUS
<1>3. d \in Seq(Objects) /\ e \in Seq(Objects)
  BY <1>2, DtorsType
<1>4. Len(e \o d) = Len(d) + Len(e) /\ Len(d) \in Nat /\ Len(e) \in Nat
  BY <1>3
<1>5. QED
  BY <1>1, <1>2, <1>4 DEF NumNontrivial

LEMMA CountAppend ==
    ASSUME NEW s \in Seq(Objects), NEW e \in Objects
    PROVE  /\ NumNontrivial(Append(s, e))
                  = NumNontrivial(s) + IF e.nontrivial THEN 1 ELSE 0
           /\ NumNontrivial(<<e>>) = IF e.nontrivial THEN 1 ELSE 0
           /\ NumNontrivial(s) \in Nat
<1>1. PICK d : d = Dtors(s)
  OBVIOUS
<1>2. d \in Seq(Objects)
  BY <1>1, DtorsType
<1>3. Len(<<e>> \o d) = Len(d) + 1 /\ Len(d) \in Nat /\ Len(<<e>> \o <<>>) = 1
      /\ Len(<<>>) = 0
  BY <1>2
<1>4. Dtors(Append(s, e)) = IF e.nontrivial THEN <<e>> \o d ELSE d
  BY <1>1, DtorsAppend
<1>5. Dtors(Append(<<>>, e)) = IF e.nontrivial THEN <<e>> \o <<>> ELSE <<>>
  <2>1. <<>> \in Seq(Objects)
    OBVIOUS
  <2>2. Dtors(Append(<<>>, e)) = IF e.nontrivial THEN <<e>> \o Dtors(<<>>) ELSE Dtors(<<>>)
    BY <2>1, DtorsAppend
  <2>3. QED
    BY <2>2, DtorsEmpty
<1>6. Append(<<>>, e) = <<e>>
  OBVIOUS
<1>7. NumNontrivial(Append(s, e)) = Len(d) + IF e.nontrivial THEN 1 ELSE 0
  BY <1>3, <1>4 DEF NumNontrivial
<1>8. NumNontrivial(<<e>>) = IF e.nontrivial THEN 1 ELSE 0
  BY <1>3, <1>5, <1>6 DEF NumNontrivial
<1>9. QED
  BY <1>1, <1>3, <1>7, <1>8 DEF NumNontrivial

\* PopScope takes the variables of the innermost scope from the count.
LEMMA CountPop ==
    ASSUME Shapes, Nested, walk # <<>>
    PROVE  NumNontrivial(live) - NumNontrivial(scopes[Len(scopes)].objs)
               = NumNontrivial(SubSeq(live, 1, Inner.mark))
<1>1. PICK L : L = Len(scopes)
  OBVIOUS
<1>2. L \in Nat \ {0} /\ L = Len(walk) /\ L \in 1 .. Len(scopes)
      /\ scopes \in Seq(Scopes) /\ live \in Seq(Objects)
      /\ Slices(scopes, live, Marks)
  BY <1>1, EmptySeq DEF Shapes, Nested
<1>3. PICK a : a = Marks[L]
  OBVIOUS
<1>4. Inner.mark = a
  BY <1>2, <1>3 DEF Marks, Inner
<1>5. Marks[L + 1] = Len(live)
  BY <1>1, <1>2 DEF Slices
<1>6. /\ a \in 0 .. Len(live)
      /\ scopes[L].objs = SubSeq(live, a + 1, Len(live))
  <2>1. /\ Marks[L] \in 0 .. Len(live)
        /\ scopes[L].objs = SubSeq(live, Marks[L] + 1, Marks[L + 1])
    <3> /\ L \in 1 .. Len(scopes) /\ scopes \in Seq(Scopes)
        /\ live \in Seq(Objects) /\ Slices(scopes, live, Marks)
      BY <1>2
    <3>1. QED
      BY SliceOf
  <2>2. QED
    BY <1>3, <1>5, <2>1
<1>7. SubSeq(live, 1, a) \o SubSeq(live, a + 1, Len(live)) = live
  <2>1. a + 1 \in 1 .. Len(live) + 1 /\ a \in (0 + 1) - 1 .. Len(live)
        /\ Len(live) \in a .. Len(live) /\ 1 \in 1 .. Len(live) + 1
        /\ a \in 1 - 1 .. Len(live)
    BY <1>2, <1>6
  <2>2. SubSeq(live, 1, a) \o SubSeq(live, a + 1, Len(live)) = SubSeq(live, 1, Len(live))
    BY <1>2, <2>1, ConcatAdjacentSubSeq
  <2>3. QED
    BY <1>2, <2>2, SubSeqFull
<1>8. SubSeq(live, 1, a) \in Seq(Objects) /\ SubSeq(live, a + 1, Len(live)) \in Seq(Objects)
  <2>1. a \in Nat /\ 0 \in Nat /\ Len(live) \in Nat /\ a <= Len(live)
        /\ Len(live) <= Len(live) /\ 0 + 1 = 1
    BY <1>2, <1>6
  <2>2. SubSeq(live, 0 + 1, a) \in Seq(Objects)
    BY <1>2, <2>1, PartType
  <2>3. SubSeq(live, a + 1, Len(live)) \in Seq(Objects)
    BY <1>2, <2>1, PartType
  <2>4. QED
    BY <2>1, <2>2, <2>3
<1>9. PICK p, q : p = SubSeq(live, 1, a) /\ q = SubSeq(live, a + 1, Len(live))
  OBVIOUS
<1>10. NumNontrivial(p \o q) = NumNontrivial(p) + NumNontrivial(q)
       /\ NumNontrivial(p) \in Nat /\ NumNontrivial(q) \in Nat
  BY <1>8, <1>9, CountConcat
<1>11. NumNontrivial(live) = NumNontrivial(p) + NumNontrivial(q)
  BY <1>7, <1>9, <1>10
<1>12. QED
  BY <1>1, <1>4, <1>6, <1>9, <1>10, <1>11

(***************************************************************************)
(* The invariant holds at first and each action keeps it.                  *)
(***************************************************************************)
LEMMA ScopeInit == Init => ScopeInvariant
<1> SUFFICES ASSUME Init PROVE ScopeInvariant
  OBVIOUS
<1> USE DEF Init
<1>1. Shapes
  <2>1. <<>> \in Seq(Scopes) /\ <<>> \in Seq(Levels) /\ <<>> \in Seq(Nat)
        /\ <<>> \in Seq(Walks) /\ <<>> \in Seq(Objects) /\ FALSE \in BOOLEAN
    OBVIOUS
  <2>2. QED
    BY <2>1 DEF Shapes
<1>2. Len(walk) = 0 /\ Len(live) = 0 /\ Len(scopes) = 0 /\ Len(tree) = 0 /\ Len(targets) = 0
  OBVIOUS
<1>3. Marks = [k \in 1 .. 0 + 1 |-> IF k <= 0 THEN walk[k].mark ELSE 0]
  BY <1>2 DEF Marks
<1>4. \A k \in 1 .. 0 + 1 : k = 1
  OBVIOUS
<1>5. Marks \in [1 .. 0 + 1 -> 0 .. 0] /\ Marks[1] = 0 /\ Marks[0 + 1] = 0
  BY <1>3, <1>4
<1>6. Slices(scopes, live, Marks)
  <2>1. \A j, k \in 1 .. 0 + 1 : Marks[j] <= Marks[k]
    BY <1>4, <1>5
  <2>2. 1 .. 0 = {}
    OBVIOUS
  <2>3. QED
    BY <1>2, <1>5, <2>1, <2>2 DEF Slices
<1>7. Nested
  <2>1. 1 .. 0 = {}
    OBVIOUS
  <2>2. Path(tree, scopes, live, Marks)
    BY <1>2, <2>1 DEF Path
  <2>3. QED
    BY <1>2, <1>6, <2>1, <2>2 DEF Nested, Numbering
<1>8. Loops
  <2>1. 1 .. 0 = {}
    OBVIOUS
  <2>2. LoopScopes = {} /\ Values(targets) = {}
    BY <1>2, <2>1 DEF LoopScopes, Values
  <2>3. QED
    BY <1>2, <2>1, <2>2 DEF Loops, Rising
<1>9. Counted
  <2>1. NumNontrivial(live) = 0
    BY <1>2, DtorsEmpty DEF NumNontrivial
  <2>2. QED
    BY <2>1, ScopeAssumption DEF Counted
<1>10. QED
  BY <1>1, <1>7, <1>8, <1>9 DEF ScopeInvariant

LEMMA StartStep ==
    ASSUME ScopeInvariant, StartFunction
    PROVE  ScopeInvariant'
<1>1. Shapes /\ Nested /\ Counted
  BY DEF ScopeInvariant
<1>2. /\ walk = <<>> /\ fn < MaxFns /\ noexcept' \in BOOLEAN /\ fn' = fn + 1
      /\ scopes' = <<[scope |-> 1, objs |-> <<>>]>>
      /\ num' = 0 /\ tree' = <<>> /\ targets' = <<>> /\ catch' = 0
      /\ walk' = <<Open("fn")>> /\ live' = live /\ made' = made
  BY DEF StartFunction
<1>3. Len(walk) = 0 /\ Len(scopes) = 0 /\ scopes = <<>>
  BY <1>1, <1>2, EmptySeq DEF Shapes, Nested
<1>4. live = <<>>
  <2>1. Marks[1] = 0 /\ Marks[0 + 1] = Len(live)
    BY <1>1, <1>3 DEF Nested, Slices
  <2>2. QED
    BY <1>1, <2>1, EmptySeq DEF Shapes
<1>5. tree = <<>>
  <2>1. Len(tree) <= 0 /\ Len(tree) \in Nat
    BY <1>1, <1>3 DEF Shapes, Nested, Path
  <2>2. QED
    BY <1>1, <2>1, EmptySeq DEF Shapes
<1>6. scopes' \in Seq(Scopes) /\ walk' \in Seq(Walks) /\ Nested'
  <2>1. scopes' = Append(scopes, [scope |-> Len(scopes) + 1, objs |-> <<>>])
    <3>1. PICK e : e = [scope |-> 1, objs |-> <<>>]
      OBVIOUS
    <3>2. <<e>> = Append(<<>>, e) /\ 0 + 1 = 1
      OBVIOUS
    <3>3. QED
      BY <1>2, <1>3, <3>1, <3>2
  <2>2. walk' = Append(walk, Open("fn"))
    <3>1. PICK e : e = Open("fn")
      OBVIOUS
    <3>2. <<e>> = Append(<<>>, e)
      OBVIOUS
    <3>3. QED
      BY <1>2, <3>1, <3>2
  <2>3. UNCHANGED <<live, tree>> /\ "fn" \in Kinds
    BY <1>2, <1>5 DEF Kinds
  <2>4. Len(scopes) + 1 \in Nat
    BY <1>3
  <2>5. QED
    BY <1>1, <1>2, <2>1, <2>2, <2>3, <2>4, PushStep
<1>7. Shapes'
  <2>1. <<>> \in Seq(Levels) /\ <<>> \in Seq(Nat)
    OBVIOUS
  <2>2. QED
    BY <1>1, <1>2, <1>6, <2>1 DEF Shapes
<1>8. Loops'
  <2>1. Len(walk') = 1 /\ walk'[1].kind = "fn"
    BY <1>2 DEF Open
  <2>2. \A k \in 1 .. 1 : k = 1
    OBVIOUS
  <2>3. LoopScopes' = {}
    <3>1. {k \in 1 .. 1 : walk'[k].kind = "while"} = {}
      BY <2>1, <2>2
    <3>2. {j \in 1 .. 1 : walk'[j].kind \in {"for", "step"}} = {}
      BY <2>1, <2>2
    <3>3. LoopScopes' = {k \in 1 .. 1 : walk'[k].kind = "while"}
                \cup {k + 1 : k \in {j \in 1 .. 1 : walk'[j].kind \in {"for", "step"}}}
      BY <2>1 DEF LoopScopes
    <3>4. QED
      BY <3>1, <3>2, <3>3
  <2>4. Len(targets') = 0 /\ 1 .. 0 = {}
    BY <1>2
  <2>5. Values(targets') = {} /\ Rising(targets')
    BY <2>4 DEF Values, Rising
  <2>6. QED
    BY <2>1, <2>2, <2>3, <2>5 DEF Loops
<1>9. Counted'
  <2>1. NumNontrivial(live') = 0
    BY <1>2, <1>4, DtorsEmpty DEF NumNontrivial
  <2>2. fn' \in 0 .. MaxFns
    BY <1>1, <1>2, ScopeAssumption DEF Counted
  <2>3. QED
    BY <1>1, <1>2, <2>1, <2>2 DEF Counted
<1>10. QED
  BY <1>6, <1>7, <1>8, <1>9 DEF ScopeInvariant

\* The step that opens the scope of an AST node, 0 for none.
Entered(kind, node) ==
    /\ node = Len(walk) + 1 \/ kind = "throw"
    /\ scopes' = Append(scopes, [scope |-> node, objs |-> <<>>])
    /\ walk' = Append(walk, Open(kind))
    /\ \/ kind = "body" /\ Here /\ Inner.kind = "for" /\ targets' = targets
       \/ kind \in {"scope", "throw"} /\ InBlock /\ targets' = targets
       \/ kind = "while" /\ InBlock /\ targets' = Append(targets, Len(walk) + 1)
       \/ kind = "for" /\ InBlock /\ targets' = Append(targets, Len(walk) + 2)

\* Opening a scope.
LEMMA EnterStep ==
    ASSUME ScopeInvariant, EnterScope \/ EnterFor \/ EnterForBody \/ EnterThrow
    PROVE  ScopeInvariant'
<1>1. Shapes /\ Nested /\ Loops /\ Counted
  BY DEF ScopeInvariant
<1>2. PICK L : L = Len(scopes)
  OBVIOUS
<1>3. L \in Nat /\ L = Len(walk)
  BY <1>1, <1>2 DEF Shapes, Nested
<1>4. UNCHANGED <<num, tree, catch, fn, noexcept, live, made>>
  BY DEF EnterScope, EnterFor, EnterForBody, EnterThrow
<1>5. \E kind \in {"scope", "while", "for", "body", "throw"}, node \in Nat :
        Entered(kind, node)
  <2>1. L + 1 \in Nat /\ 0 \in Nat
    BY <1>3
  <2>2. CASE EnterScope
    <3>1. PICK kind \in {"scope", "while"} :
            /\ targets' = IF kind = "while" THEN Append(targets, L + 1) ELSE targets
            /\ walk' = Append(walk, Open(kind)) /\ InBlock
            /\ scopes' = Append(scopes, [scope |-> L + 1, objs |-> <<>>])
      BY <1>2, <2>2 DEF EnterScope
    <3>2. Entered(kind, L + 1)
      BY <1>2, <1>3, <3>1 DEF Entered
    <3>3. QED
      BY <2>1, <3>2
  <2>3. CASE EnterFor
    <3>1. Entered("for", L + 1)
      BY <1>2, <1>3, <2>3 DEF EnterFor, Entered
    <3>2. QED
      BY <2>1, <3>1
  <2>4. CASE EnterForBody
    <3>1. Entered("body", L + 1)
      BY <1>2, <1>3, <2>4 DEF EnterForBody, Entered
    <3>2. QED
      BY <2>1, <3>1
  <2>5. CASE EnterThrow
    <3>1. Entered("throw", 0)
      BY <2>5 DEF EnterThrow, Entered
    <3>2. QED
      BY <2>1, <3>1
  <2>6. QED
    BY <2>2, <2>3, <2>4, <2>5
<1>6. PICK kind \in {"scope", "while", "for", "body", "throw"}, node \in Nat :
        Entered(kind, node)
  BY <1>5
<1>7. scopes' \in Seq(Scopes) /\ walk' \in Seq(Walks) /\ Nested'
  <2>1. kind \in Kinds /\ UNCHANGED <<live, tree>>
    BY <1>4 DEF Kinds
  <2>2. /\ node = Len(scopes) + 1 \/ kind = "throw"
        /\ scopes' = Append(scopes, [scope |-> node, objs |-> <<>>])
        /\ walk' = Append(walk, Open(kind))
    BY <1>2, <1>3, <1>6 DEF Entered
  <2>3. Inner.kind # "throw"
    BY <1>6 DEF Entered, InBlock
  <2>4. QED
    BY <1>1, <2>1, <2>2, <2>3, PushStep
<1>8. Loops' /\ targets' \in Seq(Nat)
  <2>1. Here
    BY <1>6 DEF Entered, InBlock
  <2>2. QED
    BY <1>1, <1>3, <1>6, <2>1, LoopsPush DEF Entered
<1>9. Shapes'
  BY <1>1, <1>4, <1>7, <1>8 DEF Shapes
<1>10. Counted'
  BY <1>1, <1>4 DEF Counted
<1>11. QED
  BY <1>7, <1>8, <1>9, <1>10 DEF ScopeInvariant

\* An exception where the variables alive are those of the scopes s: the path of
\* blocks belongs to them, and the jump runs all their destructors.
LEMMA ExceptionStep ==
    ASSUME NEW s \in Seq(Scopes), s # <<>>, NEW all \in Seq(Objects), NEW at,
           Slices(s, all, at), tree \in Seq(Levels), Path(tree, s, all, at),
           NEW count, count = NumNontrivial(all), catch \in {0, fn},
           ExceptionAt(s, count, all)
    PROVE  /\ tree' \in Seq(Levels) /\ Path(tree', s, all, at)
           /\ catch' = fn
           /\ jump' = Way("throw", IF noexcept THEN <<>>
                                   ELSE Dtors(SubSeq(all, 0 + 1, Len(all))),
                          all, 0, fn)
<1>1. PICK path : path = ExtendedTree(s, tree)
  OBVIOUS
<1>2. /\ path \in Seq(Levels) /\ Complete(path, s, all, at)
      /\ (IF StraightToCatch(count) THEN <<>> ELSE path[Len(s)].target)
             = IF noexcept THEN <<>> ELSE Dtors(SubSeq(all, 0 + 1, Len(all)))
  BY <1>1, Throws
<1>3. Path(path, s, all, at)
  BY <1>2, CompletePath
<1>4. catch' = fn /\ fn = IF catch = 0 THEN fn ELSE catch
  BY DEF ExceptionAt
<1>5. CASE StraightToCatch(count)
  <2>1. /\ tree' = tree
        /\ jump' = Way("throw", <<>>, all, 0, IF catch = 0 THEN fn ELSE catch)
    BY <1>5 DEF ExceptionAt
  <2>2. <<>> = IF noexcept THEN <<>> ELSE Dtors(SubSeq(all, 0 + 1, Len(all)))
    BY <1>2, <1>5
  <2>3. QED
    BY <1>4, <2>1, <2>2
<1>6. CASE ~StraightToCatch(count)
  <2>1. /\ tree' = path
        /\ jump' = Way("throw", path[Len(s)].target, all, 0,
                       IF catch = 0 THEN fn ELSE catch)
    BY <1>1, <1>6 DEF ExceptionAt
  <2>2. path[Len(s)].target
            = IF noexcept THEN <<>> ELSE Dtors(SubSeq(all, 0 + 1, Len(all)))
    BY <1>2, <1>6
  <2>3. QED
    BY <1>2, <1>3, <1>4, <2>1, <2>2
<1>7. QED
  BY <1>5, <1>6

\* An exception at the current position.
LEMMA ExceptionHere ==
    ASSUME ScopeInvariant, walk # <<>>, ExceptionAt(scopes, num, live)
    PROVE  /\ tree' \in Seq(Levels) /\ Path(tree', scopes, live, Marks)
           /\ catch' = fn
           /\ jump' = Way("throw", IF noexcept THEN <<>>
                                   ELSE Dtors(SubSeq(live, 0 + 1, Len(live))),
                          live, 0, fn)
<1>1. /\ scopes \in Seq(Scopes) /\ scopes # <<>> /\ live \in Seq(Objects)
      /\ tree \in Seq(Levels)
      /\ Slices(scopes, live, Marks) /\ Path(tree, scopes, live, Marks)
  BY EmptySeq DEF ScopeInvariant, Shapes, Nested
<1>2. num = NumNontrivial(live) /\ catch \in {0, fn}
  BY DEF ScopeInvariant, Counted
<1>3. QED
  BY <1>1, <1>2, ExceptionStep

\* A step that stays in the same AST nodes.
SameNodes ==
    /\ walk' \in Seq(Walks) /\ Len(walk') = Len(walk)
    /\ \A k \in 1 .. Len(walk) : walk'[k].mark = walk[k].mark
    /\ \A k \in 1 .. Len(walk) : walk'[k].kind = walk[k].kind

LEMMA DeadNodes ==
    ASSUME Shapes, walk # <<>>, walk' = Dead
    PROVE  SameNodes
<1>1. walk \in Seq(Walks)
  BY DEF Shapes
<1>2. PICK r : r = walk'
  OBVIOUS
<1>3. Jumped(walk, r)
  BY <1>2 DEF Jumped, Dead
<1>4. /\ r \in Seq(Walks) /\ Len(r) = Len(walk)
      /\ \A k \in 1 .. Len(walk) :
            r[k].kind = walk[k].kind /\ r[k].mark = walk[k].mark
  BY <1>1, <1>3, JumpedType
<1>5. QED
  BY <1>2, <1>4 DEF SameNodes

\* A call that may throw, and the throw of an lvalue.
LEMMA CallStep ==
    ASSUME ScopeInvariant, CallMayThrow \/ ThrowLValue
    PROVE  ScopeInvariant'
<1>1. Shapes /\ Nested /\ Loops /\ Counted
  BY DEF ScopeInvariant
<1>2. /\ walk # <<>> /\ ExceptionAt(scopes, num, live)
      /\ UNCHANGED <<scopes, num, targets, fn, noexcept, live, made>>
      /\ walk' = walk \/ walk' = Dead
  BY DEF CallMayThrow, ThrowLValue, Here
<1>3. /\ tree' \in Seq(Levels) /\ Path(tree', scopes, live, Marks)
      /\ catch' = fn
  BY <1>2, ExceptionHere
<1>4. SameNodes
  BY <1>1, <1>2, DeadNodes DEF SameNodes, Shapes
<1>5. Nested'
  <2>1. UNCHANGED <<scopes, live>>
    BY <1>2
  <2>2. QED
    BY <1>1, <1>3, <1>4, <2>1, SameStep DEF SameNodes
<1>6. Loops'
  <2>1. targets' = targets
    BY <1>2
  <2>2. QED
    BY <1>1, <1>4, <2>1, LoopsSame DEF SameNodes
<1>7. Shapes' /\ Counted'
  BY <1>1, <1>2, <1>3, <1>4 DEF Shapes, Counted, SameNodes
<1>8. QED
  BY <1>5, <1>6, <1>7 DEF ScopeInvariant

LEMMA VarType ==
    ASSUME Counted, NEW nt \in BOOLEAN
    PROVE  Var(nt) \in Objects /\ Var(nt).nontrivial = nt
BY ScopeAssumption DEF Counted, Var, Objects

\* Declaring a variable; its constructor may throw before.
LEMMA DeclareStep ==
    ASSUME ScopeInvariant, Declare
    PROVE  /\ ScopeInvariant'
           /\ \/ jump' = NoWay
              \/ walk # <<>> /\ ExceptionAt(scopes, num, live)
<1>1. Shapes /\ Nested /\ Loops /\ Counted
  BY DEF ScopeInvariant
<1>2. walk # <<>> /\ made < MaxObjects /\ made' = made + 1
      /\ UNCHANGED <<targets, fn, noexcept, walk>>
  BY DEF Declare, Here
<1>3. PICK nt \in BOOLEAN, throws \in BOOLEAN :
        /\ IF throws THEN ExceptionAt(scopes, num, live)
                     ELSE jump' = NoWay /\ UNCHANGED <<tree, catch>>
        /\ scopes' = [scopes EXCEPT ![Len(scopes)].objs = Append(@, Var(nt))]
        /\ num' = num + IF nt THEN 1 ELSE 0
        /\ live' = Append(live, Var(nt))
  BY DEF Declare
<1>4. PICK e : e = Var(nt)
  OBVIOUS
<1>5. e \in Objects /\ e.nontrivial = nt
  BY <1>1, <1>4, VarType
<1>6. /\ tree' \in Seq(Levels) /\ Path(tree', scopes, live, Marks)
      /\ catch' \in {0, fn}
  <2>1. CASE throws
    BY <1>2, <1>3, <2>1, ExceptionHere
  <2>2. CASE ~throws
    <3>1. tree' = tree /\ catch' = catch
      BY <1>3, <2>2
    <3>2. QED
      BY <1>1, <3>1 DEF Shapes, Nested, Counted
  <2>3. QED
    BY <2>1, <2>2
<1>7. scopes' \in Seq(Scopes) /\ live' \in Seq(Objects) /\ Nested'
  <2>1. PICK t : t = tree'
    OBVIOUS
  <2>2. /\ t \in Seq(Levels) /\ Path(t, scopes, live, Marks)
        /\ Len(walk') = Len(walk)
        /\ \A k \in 1 .. Len(walk) : walk'[k].mark = walk[k].mark
        /\ \A k \in 1 .. Len(walk) : walk'[k].kind = walk[k].kind
        /\ scopes' = [scopes EXCEPT ![Len(scopes)].objs = Append(@, e)]
        /\ live' = Append(live, e)
    BY <1>2, <1>3, <1>4, <1>6, <2>1
  <2>3. /\ scopes' \in Seq(Scopes) /\ Len(scopes') = Len(scopes)
        /\ live' \in Seq(Objects)
        /\ Slices(scopes', live', Marks') /\ Path(t, scopes', live', Marks')
        /\ Numbering'
    BY <1>1, <1>2, <1>5, <2>2, GrowStep
  <2>4. Len(scopes') = Len(walk')
    BY <1>1, <2>2, <2>3 DEF Nested
  <2>5. QED
    BY <2>1, <2>3, <2>4 DEF Nested
<1>8. Loops'
  <2>1. /\ walk' \in Seq(Walks) /\ Len(walk') = Len(walk)
        /\ \A k \in 1 .. Len(walk) : walk'[k].kind = walk[k].kind
        /\ targets' = targets
    BY <1>1, <1>2 DEF Shapes
  <2>2. QED
    BY <1>1, <2>1, LoopsSame
<1>9. Shapes'
  BY <1>1, <1>2, <1>6, <1>7 DEF Shapes
<1>10. Counted'
  <2>1. NumNontrivial(live') = NumNontrivial(live) + IF nt THEN 1 ELSE 0
    BY <1>1, <1>3, <1>4, <1>5, CountAppend DEF Shapes
  <2>2. num' = NumNontrivial(live')
    BY <1>1, <1>3, <2>1 DEF Counted
  <2>3. made' \in 0 .. MaxObjects
    BY <1>1, <1>2, ScopeAssumption DEF Counted
  <2>4. QED
    BY <1>1, <1>2, <1>6, <2>2, <2>3 DEF Counted
<1>11. jump' = NoWay \/ (walk # <<>> /\ ExceptionAt(scopes, num, live))
  BY <1>2, <1>3
<1>12. QED
  BY <1>7, <1>8, <1>9, <1>10, <1>11 DEF ScopeInvariant

\* A temporary is thrown: the exception leaves it with the other variables.
LEMMA ThrowStep ==
    ASSUME ScopeInvariant, ThrowObject
    PROVE  /\ ScopeInvariant'
           /\ \E alive : jump' = Way("throw", IF noexcept THEN <<>>
                                   ELSE Dtors(SubSeq(alive, 0 + 1, Len(alive))),
                                   alive, 0, fn)
<1>1. Shapes /\ Nested /\ Loops /\ Counted
  BY DEF ScopeInvariant
<1>2. /\ walk # <<>> /\ made < MaxObjects /\ made' = made + 1 /\ walk' = Dead
      /\ UNCHANGED <<targets, fn, noexcept>>
  BY DEF ThrowObject, Here
<1>3. PICK nt \in BOOLEAN :
        /\ scopes' = [scopes EXCEPT ![Len(scopes)].objs = Append(@, Var(nt))]
        /\ num' = num + IF nt THEN 1 ELSE 0
        /\ live' = Append(live, Var(nt))
        /\ ExceptionAt(scopes', num', live')
  BY DEF ThrowObject
<1>4. PICK e : e = Var(nt)
  OBVIOUS
<1>5. e \in Objects /\ e.nontrivial = nt
  BY <1>1, <1>4, VarType
<1>6. SameNodes
  BY <1>1, <1>2, DeadNodes
<1>7. /\ tree \in Seq(Levels) /\ Path(tree, scopes, live, Marks)
      /\ Len(scopes) \in Nat \ {0} /\ Len(scopes) = Len(walk)
  BY <1>1, <1>2, EmptySeq DEF Shapes, Nested
<1>8. /\ scopes' \in Seq(Scopes) /\ Len(scopes') = Len(scopes)
      /\ live' \in Seq(Objects)
      /\ Slices(scopes', live', Marks') /\ Path(tree, scopes', live', Marks')
      /\ Numbering'
  <2>1. PICK t : t = tree
    OBVIOUS
  <2>2. /\ t \in Seq(Levels) /\ Path(t, scopes, live, Marks)
        /\ scopes' = [scopes EXCEPT ![Len(scopes)].objs = Append(@, e)]
        /\ live' = Append(live, e)
    BY <1>3, <1>4, <1>7, <2>1
  <2>3. QED
    BY <1>1, <1>2, <1>5, <1>6, <2>1, <2>2, GrowStep DEF SameNodes
<1>9. num' = NumNontrivial(live')
  <2>1. NumNontrivial(live') = NumNontrivial(live) + IF nt THEN 1 ELSE 0
    BY <1>1, <1>3, <1>4, <1>5, CountAppend DEF Shapes
  <2>2. QED
    BY <1>1, <1>3, <2>1 DEF Counted
<1>10. PICK s, all, at, count : /\ s = scopes' /\ all = live' /\ at = Marks'
                                /\ count = num'
  OBVIOUS
<1>11. /\ tree' \in Seq(Levels) /\ Path(tree', s, all, at)
       /\ catch' = fn
       /\ jump' = Way("throw", IF noexcept THEN <<>>
                               ELSE Dtors(SubSeq(all, 0 + 1, Len(all))),
                      all, 0, fn)
  <2>1. /\ s \in Seq(Scopes) /\ all \in Seq(Objects) /\ Slices(s, all, at)
        /\ Path(tree, s, all, at) /\ count = NumNontrivial(all)
        /\ ExceptionAt(s, count, all)
    BY <1>3, <1>8, <1>9, <1>10
  <2>2. s # <<>>
    <3>1. Len(s) # 0 /\ Len(<<>>) = 0
      BY <1>7, <1>8, <1>10
    <3>2. QED
      BY <3>1
  <2>3. tree \in Seq(Levels) /\ catch \in {0, fn}
    BY <1>1, <1>7 DEF Counted
  <2>4. QED
    BY <2>1, <2>2, <2>3, ExceptionStep
<1>12. Nested'
  <2>1. Len(scopes') = Len(walk')
    BY <1>6, <1>7, <1>8 DEF SameNodes
  <2>2. QED
    BY <1>8, <1>10, <1>11, <2>1 DEF Nested
<1>13. Loops'
  BY <1>1, <1>2, <1>6, LoopsSame DEF SameNodes
<1>14. Shapes'
  BY <1>1, <1>2, <1>6, <1>8, <1>11 DEF Shapes, SameNodes
<1>15. Counted'
  <2>1. made' \in 0 .. MaxObjects
    BY <1>1, <1>2, ScopeAssumption DEF Counted
  <2>2. QED
    BY <1>1, <1>2, <1>9, <1>11, <2>1 DEF Counted
<1>16. QED
  BY <1>11, <1>12, <1>13, <1>14, <1>15 DEF ScopeInvariant

\* break, continue and return only end the statements of their block.
LEMMA JumpStep ==
    ASSUME ScopeInvariant, BreakOrContinue \/ ReturnStatement
    PROVE  ScopeInvariant'
<1>1. Shapes /\ Nested /\ Loops /\ Counted
  BY DEF ScopeInvariant
<1>2. /\ walk # <<>> /\ walk' = Dead /\ UNCHANGED <<scopes, num, tree, targets, catch>>
      /\ UNCHANGED <<fn, noexcept, live, made>>
  BY DEF BreakOrContinue, ReturnStatement, InBlock, Here, manager
<1>3. SameNodes
  BY <1>1, <1>2, DeadNodes
<1>4. Nested'
  <2>1. UNCHANGED <<scopes, live>> /\ Path(tree', scopes, live, Marks)
    BY <1>1, <1>2 DEF Nested
  <2>2. QED
    BY <1>1, <1>3, <2>1, SameStep DEF SameNodes
<1>5. Loops'
  BY <1>1, <1>2, <1>3, LoopsSame DEF SameNodes
<1>6. Shapes' /\ Counted'
  BY <1>1, <1>2, <1>3 DEF Shapes, Counted, SameNodes
<1>7. QED
  BY <1>4, <1>5, <1>6 DEF ScopeInvariant

\* The walk behind the end of a scope.
LEMMA WalkOut ==
    ASSUME Shapes, Loops, LeaveScope \/ LeaveIf, NEW L, L = Len(walk)
    PROVE  /\ walk' \in Seq(Walks) /\ Len(walk') = L - 1
           /\ \A k \in 1 .. L - 1 :
                /\ walk'[k].mark = walk[k].mark
                /\ walk'[k].kind = IF k = L - 1 /\ Inner.kind = "body" THEN "step"
                                   ELSE walk[k].kind
<1>1. walk # <<>> /\ walk \in Seq(Walks)
  BY DEF Shapes, LeaveScope, LeaveIf
<1>2. PICK out : out = SubSeq(walk, 1, L - 1)
  OBVIOUS
<1>3. /\ L \in Nat \ {0} /\ out \in Seq(Walks) /\ Len(out) = L - 1
      /\ \A k \in 1 .. L - 1 : out[k] = walk[k]
  BY <1>1, <1>2, WithoutInner
<1>4. Inner = walk[L] /\ L \in 1 .. L
  BY <1>3 DEF Inner
<1>5. Inner.kind \in {"body", "scope"} => out # <<>>
  <2>1. walk[L].kind = "fn" <=> L = 1
    BY <1>4 DEF Loops
  <2>2. Inner.kind \in {"body", "scope"} => L # 1
    BY <1>4, <2>1
  <2>3. L # 1 => Len(out) # 0
    BY <1>3
  <2>4. QED
    BY <2>2, <2>3
<1>6. CASE LeaveScope /\ Inner.kind = "body"
  <2>1. walk' = [out EXCEPT ![Len(out)].kind = "step"]
    BY <1>2, <1>6 DEF LeaveScope
  <2>2. Stepping(out, walk')
    BY <2>1 DEF Stepping
  <2>3. PICK r : r = walk'
    OBVIOUS
  <2>4. /\ r \in Seq(Walks) /\ Len(r) = Len(out)
        /\ \A k \in 1 .. Len(out) :
             /\ r[k].kind = IF k = Len(out) THEN "step" ELSE out[k].kind
             /\ r[k].mark = out[k].mark
    BY <1>3, <1>5, <1>6, <2>2, <2>3, SteppingType
  <2>5. QED
    BY <1>3, <1>6, <2>3, <2>4
<1>7. CASE LeaveScope /\ Inner.kind = "scope" /\ Inner.dead
  <2>1. walk' = [out EXCEPT ![Len(out)].dead = TRUE]
    BY <1>2, <1>7 DEF LeaveScope
  <2>2. Jumped(out, walk')
    BY <2>1 DEF Jumped
  <2>3. PICK r : r = walk'
    OBVIOUS
  <2>4. /\ r \in Seq(Walks) /\ Len(r) = Len(out)
        /\ \A k \in 1 .. Len(out) : r[k].kind = out[k].kind /\ r[k].mark = out[k].mark
    BY <1>3, <1>5, <1>7, <2>2, <2>3, JumpedType
  <2>5. QED
    BY <1>3, <1>7, <2>3, <2>4
<1>8. CASE LeaveScope /\ Inner.kind # "body" /\ ~(Inner.kind = "scope" /\ Inner.dead)
  <2>1. walk' = out
    BY <1>2, <1>8 DEF LeaveScope
  <2>2. QED
    BY <1>3, <1>8, <2>1
<1>9. CASE LeaveIf
  <2>1. walk' = out /\ Inner.kind = "scope"
    BY <1>2, <1>9 DEF LeaveIf
  <2>2. QED
    BY <1>3, <2>1
<1>10. QED
  BY <1>6, <1>7, <1>8, <1>9

\* The end of a scope.
LEMMA LeaveStep ==
    ASSUME ScopeInvariant, LeaveScope \/ LeaveIf
    PROVE  ScopeInvariant'
<1>1. Shapes /\ Nested /\ Loops /\ Counted
  BY DEF ScopeInvariant
<1>2. /\ walk # <<>>
      /\ num' = num - NumNontrivial(scopes[Len(scopes)].objs)
      /\ tree' = PopTree(tree, Len(scopes) - 1)
      /\ scopes' = SubSeq(scopes, 1, Len(scopes) - 1)
      /\ live' = SubSeq(live, 1, Inner.mark)
      /\ UNCHANGED <<catch, fn, noexcept, made>>
  BY DEF LeaveScope, LeaveIf
<1>3. /\ Inner.kind # "for"
      /\ targets' = IF Inner.kind \in {"while", "step"}
                    THEN SubSeq(targets, 1, Len(targets) - 1) ELSE targets
  <2>1. CASE LeaveScope
    BY <2>1 DEF LeaveScope
  <2>2. CASE LeaveIf
    BY <2>2 DEF LeaveIf
  <2>3. QED
    BY <2>1, <2>2
<1>4. /\ walk' \in Seq(Walks) /\ Len(walk') = Len(walk) - 1
      /\ \A k \in 1 .. Len(walk) - 1 :
           /\ walk'[k].mark = walk[k].mark
           /\ walk'[k].kind = IF k = Len(walk) - 1 /\ Inner.kind = "body" THEN "step"
                              ELSE walk[k].kind
  BY <1>1, WalkOut
<1>5. /\ scopes' \in Seq(Scopes) /\ tree' \in Seq(Levels) /\ live' \in Seq(Objects)
      /\ Nested'
  <2>1. \A k \in 1 .. Len(walk) - 1 : walk'[k].mark = walk[k].mark
    BY <1>4
  <2>2. QED
    BY <1>1, <1>2, <1>4, <2>1, PopStep
<1>6. Loops' /\ targets' \in Seq(Nat)
  <2>1. PICK L : L = Len(walk)
    OBVIOUS
  <2>2. /\ walk' \in Seq(Walks) /\ Len(walk') = L - 1
        /\ \A k \in 1 .. L - 1 :
             walk'[k].kind = IF k = L - 1 /\ Inner.kind = "body" THEN "step"
                             ELSE walk[k].kind
    BY <1>4, <2>1
  <2>3. QED
    BY <1>1, <1>2, <1>3, <2>1, <2>2, LoopsPop
<1>7. Shapes'
  BY <1>1, <1>2, <1>4, <1>5, <1>6 DEF Shapes
<1>8. Counted'
  <2>1. num' = NumNontrivial(live')
    BY <1>1, <1>2, CountPop DEF Counted
  <2>2. QED
    BY <1>1, <1>2, <2>1 DEF Counted
<1>9. QED
  BY <1>5, <1>6, <1>7, <1>8 DEF ScopeInvariant

LEMMA StutterStep ==
    ASSUME ScopeInvariant, UNCHANGED vars
    PROVE  ScopeInvariant'
<1>1. /\ scopes' = scopes /\ num' = num /\ tree' = tree /\ targets' = targets
      /\ catch' = catch /\ fn' = fn /\ noexcept' = noexcept /\ walk' = walk
      /\ live' = live /\ made' = made
  BY DEF vars
<1>2. Marks' = Marks /\ LoopScopes' = LoopScopes /\ (Numbering <=> Numbering')
  BY <1>1 DEF Marks, LoopScopes, Numbering
<1>3. Shapes' /\ Nested' /\ Counted'
  BY <1>1, <1>2 DEF ScopeInvariant, Shapes, Nested, Counted
<1>4. Loops'
  BY <1>1, <1>2 DEF ScopeInvariant, Loops
<1>5. QED
  BY <1>3, <1>4 DEF ScopeInvariant

LEMMA ScopeStep ==
    ASSUME ScopeInvariant, [Next]_vars
    PROVE  ScopeInvariant'
<1>1. CASE StartFunction
  BY <1>1, StartStep
<1>2. CASE EnterScope \/ EnterFor \/ EnterForBody \/ EnterThrow
  BY <1>2, EnterStep
<1>3. CASE CallMayThrow \/ ThrowLValue
  BY <1>3, CallStep
<1>4. CASE Declare
  BY <1>4, DeclareStep
<1>5. CASE ThrowObject
  BY <1>5, ThrowStep
<1>6. CASE BreakOrContinue \/ ReturnStatement
  BY <1>6, JumpStep
<1>7. CASE LeaveScope \/ LeaveIf
  BY <1>7, LeaveStep
<1>8. CASE UNCHANGED vars
  BY <1>8, StutterStep
<1>9. Finished => UNCHANGED vars
  BY DEF Finished
<1>10. QED
  BY <1>1, <1>2, <1>3, <1>4, <1>5, <1>6, <1>7, <1>8, <1>9 DEF Next

(***************************************************************************)
(* Every generated jump destroys what it takes out of scope.               *)
(***************************************************************************)
\* No jump.
LEMMA NoJump ==
    ASSUME jump' = NoWay
    PROVE  ExceptionDestroysLive' /\ JumpDestroysLeft'
BY DEF ExceptionDestroysLive, JumpDestroysLeft, NoWay, Way

\* An exception.
LEMMA ThrowJump ==
    ASSUME NEW alive, UNCHANGED <<fn, noexcept>>,
           jump' = Way("throw", IF noexcept THEN <<>>
                                ELSE Dtors(SubSeq(alive, 0 + 1, Len(alive))),
                       alive, 0, fn)
    PROVE  ExceptionDestroysLive' /\ JumpDestroysLeft'
<1>1. PICK d : d = Dtors(SubSeq(alive, 0 + 1, Len(alive)))
  OBVIOUS
<1>2. jump' = Way("throw", IF noexcept THEN <<>> ELSE d, alive, 0, fn)
  BY <1>1
<1>3. /\ jump'.kind = "throw" /\ jump'.alive = alive /\ jump'.mark = 0
      /\ jump'.to = fn /\ jump'.dtors = IF noexcept THEN <<>> ELSE d
  BY <1>2 DEF Way
<1>4. Leaving' = d
  BY <1>1, <1>3 DEF Leaving
<1>5. QED
  BY <1>3, <1>4 DEF ExceptionDestroysLive, JumpDestroysLeft

\* Another way out of the scopes.
LEMMA WayJump ==
    ASSUME NEW kind \in {"break", "return", "end"}, NEW alive, NEW mark, NEW to,
           jump' = Way(kind, Dtors(SubSeq(alive, mark + 1, Len(alive))),
                       alive, mark, to)
    PROVE  ExceptionDestroysLive' /\ JumpDestroysLeft'
<1>1. PICK d : d = Dtors(SubSeq(alive, mark + 1, Len(alive)))
  OBVIOUS
<1>2. /\ jump'.kind = kind /\ jump'.alive = alive /\ jump'.mark = mark
      /\ jump'.dtors = d
  BY <1>1 DEF Way
<1>3. Leaving' = d
  BY <1>1, <1>2 DEF Leaving
<1>4. QED
  BY <1>2, <1>3 DEF ExceptionDestroysLive, JumpDestroysLeft

LEMMA JumpsStep ==
    ASSUME ScopeInvariant, ExceptionDestroysLive, JumpDestroysLeft, [Next]_vars
    PROVE  ExceptionDestroysLive' /\ JumpDestroysLeft'
<1>1. Shapes /\ Nested /\ Loops /\ Counted
  BY DEF ScopeInvariant
<1>2. CASE \/ StartFunction \/ EnterScope \/ EnterFor \/ EnterForBody
            \/ EnterThrow \/ LeaveIf
  <2>1. jump' = NoWay
    BY <1>2 DEF StartFunction, EnterScope, EnterFor, EnterForBody, EnterThrow, LeaveIf
  <2>2. QED
    BY <2>1, NoJump
<1>3. ASSUME walk # <<>>, ExceptionAt(scopes, num, live), UNCHANGED <<fn, noexcept>>
      PROVE  ExceptionDestroysLive' /\ JumpDestroysLeft'
  <2>1. jump' = Way("throw", IF noexcept THEN <<>>
                             ELSE Dtors(SubSeq(live, 0 + 1, Len(live))),
                    live, 0, fn)
    BY <1>3, ExceptionHere
  <2>2. QED
    BY <1>3, <2>1, ThrowJump
<1>4. CASE CallMayThrow \/ ThrowLValue
  BY <1>3, <1>4 DEF CallMayThrow, ThrowLValue, Here
<1>5. CASE Declare
  <2>1. jump' = NoWay \/ (walk # <<>> /\ ExceptionAt(scopes, num, live))
    BY <1>5, DeclareStep
  <2>2. UNCHANGED <<fn, noexcept>>
    BY <1>5 DEF Declare
  <2>3. QED
    BY <1>3, <2>1, <2>2, NoJump
<1>6. CASE ThrowObject
  <2>1. PICK alive : jump' = Way("throw", IF noexcept THEN <<>>
                                 ELSE Dtors(SubSeq(alive, 0 + 1, Len(alive))),
                                 alive, 0, fn)
    BY <1>6, ThrowStep
  <2>2. UNCHANGED <<fn, noexcept>>
    BY <1>6 DEF ThrowObject
  <2>3. QED
    BY <2>1, <2>2, ThrowJump
<1>7. CASE BreakOrContinue
  <2>1. /\ walk # <<>> /\ InBlock /\ targets # <<>>
        /\ jump' = Way("break", DestructorSequenceUntil(targets[Len(targets)]),
                       live, LoopMark, fn)
    BY <1>7 DEF BreakOrContinue, InBlock, Here
  <2>2. PICK b : b = targets[Len(targets)]
    OBVIOUS
  <2>3. b \in 1 .. Len(walk) /\ LoopMark = walk[b].mark
    BY <1>1, <2>1, <2>2, BreakTarget
  <2>4. b \in 0 .. Len(walk) /\ b # 0
    BY <1>1, <2>3 DEF Shapes
  <2>5. PICK mark : mark = LoopMark
    OBVIOUS
  <2>6. DestructorSequenceUntil(b) = Dtors(SubSeq(live, mark + 1, Len(live)))
    BY <1>1, <2>1, <2>3, <2>4, <2>5, WaysOut DEF InBlock
  <2>7. jump' = Way("break", Dtors(SubSeq(live, mark + 1, Len(live))), live, mark, fn)
    BY <2>1, <2>2, <2>5, <2>6
  <2>8. QED
    BY <2>7, WayJump
<1>8. CASE ReturnStatement
  <2>1. /\ walk # <<>>
        /\ jump' = Way("return", DestructorSequenceUntil(0), live, 0, fn)
    BY <1>8 DEF ReturnStatement, InBlock, Here
  <2>2. 0 \in 0 .. Len(walk)
    BY <1>1 DEF Shapes
  <2>3. DestructorSequenceUntil(0) = Dtors(SubSeq(live, 0 + 1, Len(live)))
    BY <1>1, <1>8, <2>1, <2>2, WaysOut DEF ReturnStatement, InBlock
  <2>4. jump' = Way("return", Dtors(SubSeq(live, 0 + 1, Len(live))), live, 0, fn)
    BY <2>1, <2>3
  <2>5. QED
    BY <2>4, WayJump
<1>9. CASE LeaveScope
  <2>1. CASE Inner.dead
    <3>1. jump' = NoWay
      BY <1>9, <2>1 DEF LeaveScope
    <3>2. QED
      BY <3>1, NoJump
  <2>2. CASE ~Inner.dead
    <3>1. /\ walk # <<>>
          /\ jump' = Way("end", DestructorSequenceUntil(scopes[Len(scopes)].scope),
                         live, Inner.mark, fn)
      BY <1>9, <2>2 DEF LeaveScope
    <3>2. PICK L, mark : L = Len(walk) /\ mark = Inner.mark
      OBVIOUS
    <3>3. L \in 0 .. Len(walk) /\ L # 0 /\ L \in 1 .. Len(scopes) /\ L = Len(scopes)
      BY <1>1, <3>1, <3>2, EmptySeq DEF Shapes, Nested
    <3>4. scopes[Len(scopes)].scope = L /\ Inner.kind # "throw"
      <4>1. Inner.kind # "throw"
        BY <1>9, <2>2 DEF LeaveScope
      <4>2. QED
        BY <1>1, <3>2, <3>3, <4>1 DEF Nested, Numbering, Inner
    <3>5. mark = walk[L].mark
      BY <3>2 DEF Inner
    <3>6. DestructorSequenceUntil(L) = Dtors(SubSeq(live, mark + 1, Len(live)))
      BY <1>1, <3>1, <3>3, <3>4, <3>5, WaysOut
    <3>7. jump' = Way("end", Dtors(SubSeq(live, mark + 1, Len(live))), live, mark, fn)
      BY <3>1, <3>2, <3>4, <3>6
    <3>8. QED
      BY <3>7, WayJump
  <2>3. QED
    BY <2>1, <2>2
<1>10. CASE UNCHANGED vars \/ Finished
  <2>1. jump' = jump /\ noexcept' = noexcept /\ fn' = fn
    BY <1>10 DEF vars, Finished
  <2>2. QED
    BY <2>1 DEF ExceptionDestroysLive, JumpDestroysLeft, Leaving
<1>11. QED
  BY <1>2, <1>4, <1>5, <1>6, <1>7, <1>8, <1>9, <1>10 DEF Next

(***************************************************************************)
(* What the invariant says.                                                *)
(***************************************************************************)
LEMMA ScopeTypeOK ==
    ASSUME ScopeInvariant
    PROVE  TypeOK
<1>1. Shapes /\ Nested /\ Loops /\ Counted
  BY DEF ScopeInvariant
<1>2. PICK L, n : L = Len(walk) /\ n = Len(targets)
  OBVIOUS
<1>3. L \in Nat /\ n \in Nat /\ L = Len(scopes)
  BY <1>1, <1>2 DEF Shapes, Nested
<1>4. n <= L
  <2>1. CASE targets = <<>>
    BY <1>2, <1>3, <2>1
  <2>2. CASE targets # <<>>
    <3>1. n < targets[n] /\ targets[n] \in LoopScopes
      BY <1>1, <1>2, <2>2, LastIsGreatest DEF Loops, Shapes
    <3>2. \A x \in LoopScopes : x \in 1 .. L + 1
      BY <1>2, <1>3 DEF LoopScopes
    <3>3. QED
      BY <1>3, <3>1, <3>2
  <2>3. QED
    BY <2>1, <2>2
<1>5. catch \in 0 .. fn
  BY <1>1, ScopeAssumption DEF Counted
<1>6. QED
  BY <1>1, <1>2, <1>3, <1>4, <1>5 DEF TypeOK, Nested, Counted

\* The variables of the first k scopes, of the last only b.
Kept(s, k, b, q) ==
    q = [j \in 1 .. k |-> IF j < k THEN s[j].objs ELSE SubSeq(s[j].objs, 1, b)]

\* One after the other they are the first of the live variables.
LEMMA KeptIs ==
    ASSUME NEW s \in Seq(Scopes), NEW all \in Seq(Objects), NEW at,
           Slices(s, all, at), NEW k \in 1 .. Len(s), NEW b \in 0 .. at[k + 1] - at[k],
           NEW kept, Kept(s, k, b, kept)
    PROVE  FlattenSeq(kept) = SubSeq(all, 1, at[k] + b)
<1> DEFINE end(i) == IF i < k THEN at[i + 1] ELSE at[k] + b
           g == [i \in 1 .. k |-> SubSeq(all, 1, end(i))]
<1>1. ASSUME NEW i \in 1 .. k, NEW n, n = end(i)
      PROVE  /\ at[i] \in Nat /\ n \in Nat /\ at[i] <= n
             /\ n <= Len(all)
             /\ kept[i] = SubSeq(all, at[i] + 1, n)
  <2> i \in 1 .. Len(s)
    OBVIOUS
  <2>1. /\ at[i] \in 0 .. Len(all) /\ at[i + 1] \in 0 .. Len(all)
        /\ at[i] <= at[i + 1]
        /\ s[i].objs = SubSeq(all, at[i] + 1, at[i + 1])
    BY SliceOf
  <2>2. CASE i < k
    <3>1. kept[i] = s[i].objs /\ n = at[i + 1]
      BY <1>1, <2>2 DEF Kept
    <3> HIDE DEF end, g
    <3>2. QED
      BY <2>1, <3>1
  <2>3. CASE ~(i < k)
    <3>1. i = k
      BY <2>3
    <3>2. kept[i] = SubSeq(s[i].objs, 1, b) /\ n = at[i] + b
      BY <1>1, <2>3, <3>1 DEF Kept
    <3> HIDE DEF end, g
    <3>3. PICK m, o : m = at[i] /\ o = at[i + 1]
      OBVIOUS
    <3>4. m \in Nat /\ o \in Nat /\ m <= o /\ o <= Len(all) /\ b \in 0 .. o - m
          /\ 0 \in 0 .. o - m /\ 0 + 1 = 1 /\ m + 0 + 1 = m + 1
      BY <2>1, <3>1, <3>3
    <3>5. SubSeq(SubSeq(all, m + 1, o), 0 + 1, b) = SubSeq(all, m + 0 + 1, m + b)
      BY <3>4, PartOfPart
    <3>6. kept[i] = SubSeq(all, m + 1, m + b)
      BY <2>1, <3>2, <3>3, <3>4, <3>5
    <3>7. m + b \in Nat /\ m <= m + b /\ m + b <= Len(all) /\ n = m + b
      <4>1. PICK len : len = Len(all)
        OBVIOUS
      <4>2. len \in Nat /\ o <= len
        BY <3>4, <4>1
      <4>3. m + b \in Nat /\ m <= m + b /\ m + b <= len
        BY <3>4, <4>2
      <4>4. n = m + b
        BY <3>2, <3>3
      <4>5. QED
        BY <4>1, <4>3, <4>4
    <3>8. QED
      BY <3>3, <3>4, <3>6, <3>7
  <2>4. QED
    BY <2>2, <2>3
<1>2. Len(kept) = k /\ k \in Nat \ {0}
  BY DEF Kept
<1>3. g = [i \in 1 .. k |-> g[i]] /\ \A i \in 1 .. k : g[i] = SubSeq(all, 1, end(i))
  OBVIOUS
<1>4. at[1] = 0 /\ end(k) = at[k] + b
  BY DEF Slices
<1>5. ASSUME NEW i \in 2 .. k PROVE i - 1 \in 1 .. k /\ end(i - 1) = at[i]
  OBVIOUS
<1> HIDE DEF end, g
<1>6. g[1] = kept[1]
  <2>1. 1 \in 1 .. k /\ 0 + 1 = 1
    BY <1>2
  <2>2. PICK i, n : i = 1 /\ n = end(i)
    OBVIOUS
  <2>3. kept[i] = SubSeq(all, at[i] + 1, n) /\ g[i] = SubSeq(all, 1, n)
    BY <1>1, <1>3, <2>1, <2>2
  <2>4. at[i] + 1 = 1
    BY <1>4, <2>1, <2>2
  <2>5. QED
    BY <2>2, <2>3, <2>4
<1>7. ASSUME NEW i \in 2 .. k PROVE g[i] = g[i - 1] \o kept[i]
  <2>1. i \in 1 .. k /\ i - 1 \in 1 .. k
    BY <1>5
  <2>2. PICK m, n : m = at[i] /\ n = end(i)
    OBVIOUS
  <2>3. m \in Nat /\ n \in Nat /\ m <= n /\ n <= Len(all) /\ end(i - 1) = m
        /\ kept[i] = SubSeq(all, m + 1, n)
    BY <1>1, <1>5, <2>1, <2>2
  <2>4. 1 \in 1 .. Len(all) + 1 /\ m \in 1 - 1 .. Len(all) /\ n \in m .. Len(all)
    BY <2>3
  <2>5. SubSeq(all, 1, m) \o SubSeq(all, m + 1, n) = SubSeq(all, 1, n)
    BY <2>4, ConcatAdjacentSubSeq
  <2>6. g[i] = SubSeq(all, 1, n) /\ g[i - 1] = SubSeq(all, 1, m)
    BY <1>3, <2>1, <2>2, <2>3
  <2>7. QED
    BY <2>3, <2>5, <2>6
<1>8. Concats(kept, k, g)
  BY <1>2, <1>3, <1>6, <1>7 DEF Concats
<1>9. FlattenSeq(kept) = g[k]
  BY <1>8, FlattenIs
<1>10. g[k] = SubSeq(all, 1, at[k] + b)
  BY <1>2, <1>3, <1>4
<1>11. QED
  BY <1>9, <1>10

LEMMA ScopeTreeIsCurrent ==
    ASSUME ScopeInvariant
    PROVE  TreeIsCurrent
<1>1. /\ scopes \in Seq(Scopes) /\ live \in Seq(Objects) /\ tree \in Seq(Levels)
      /\ Slices(scopes, live, Marks) /\ Path(tree, scopes, live, Marks)
  BY DEF ScopeInvariant, Shapes, Nested
<1>2. Len(tree) <= Len(scopes)
  BY <1>1 DEF Path
<1>3. ASSUME NEW k \in 1 .. Len(tree)
      PROVE  /\ tree[k].target =
                  Dtors(FlattenSeq([j \in 1 .. k |-> IF j < k THEN scopes[j].objs
                            ELSE SubSeq(scopes[j].objs, 1, tree[j].boundary)]))
             /\ k < Len(tree) => tree[k].boundary = Len(scopes[k].objs)
  <2> k \in 1 .. Len(scopes)
    BY <1>1, <1>2
  <2>1. PICK b : b = tree[k].boundary
    OBVIOUS
  <2>2. /\ b \in 0 .. Marks[k + 1] - Marks[k]
        /\ k < Len(tree) => b = Marks[k + 1] - Marks[k]
        /\ tree[k].target = Dtors(SubSeq(live, 1, Marks[k] + b))
    BY <1>1, <2>1 DEF Path
  <2>3. Len(scopes[k].objs) = Marks[k + 1] - Marks[k]
    BY <1>1, SliceOf
  <2>4. PICK q : q = [j \in 1 .. k |-> IF j < k THEN scopes[j].objs
                                       ELSE SubSeq(scopes[j].objs, 1, tree[j].boundary)]
    OBVIOUS
  <2>5. \A j \in 1 .. k :
            (IF j < k THEN scopes[j].objs
             ELSE SubSeq(scopes[j].objs, 1, tree[j].boundary))
          = (IF j < k THEN scopes[j].objs ELSE SubSeq(scopes[j].objs, 1, b))
    <3>1. \A j \in 1 .. k : j < k \/ j = k
      OBVIOUS
    <3>2. QED
      BY <2>1, <3>1, Zenon
  <2>6. Kept(scopes, k, b, q)
    BY <2>4, <2>5, Zenon DEF Kept
  <2>7. FlattenSeq(q) = SubSeq(live, 1, Marks[k] + b)
    BY <1>1, <2>2, <2>6, KeptIs
  <2>8. QED
    BY <2>1, <2>2, <2>3, <2>4, <2>7, Zenon
<1>4. QED
  BY <1>2, <1>3 DEF TreeIsCurrent

(***************************************************************************)
(* The theorems.                                                           *)
(***************************************************************************)
\* The scopes, the path of blocks, the targets and the count of the manager
\* agree with the walk (every operation of ScopedVariableManager).
THEOREM ScopeInvariantHolds == Spec => []ScopeInvariant
<1>1. Init => ScopeInvariant
  BY ScopeInit
<1>2. ScopeInvariant /\ [Next]_vars => ScopeInvariant'
  BY ScopeStep
<1>3. QED
  BY <1>1, <1>2, PTL DEF Spec

\* The count of non-trivial variables that FIGenerateEHEntryPoint... tests is
\* the number the open scopes hold, however scopes are left.
THEOREM TypeOKHolds == Spec => []TypeOK
<1>1. ScopeInvariant => TypeOK
  BY ScopeTypeOK
<1>2. QED
  BY <1>1, ScopeInvariantHolds, PTL

\* m_fiExceptionDtorTree belongs to the scopes that are open, and each of its
\* blocks destroys the variables of its level and all below.
THEOREM TreeIsCurrentHolds == Spec => []TreeIsCurrent
<1>1. ScopeInvariant => TreeIsCurrent
  BY ScopeTreeIsCurrent
<1>2. QED
  BY <1>1, ScopeInvariantHolds, PTL

\* Both statements about the jumps, together.
LEMMA JumpsHold == Spec => [](ExceptionDestroysLive /\ JumpDestroysLeft)
<1>1. Init => ExceptionDestroysLive /\ JumpDestroysLeft
  BY DEF Init, ExceptionDestroysLive, JumpDestroysLeft, NoWay, Way
<1>2. ScopeInvariant /\ ExceptionDestroysLive /\ JumpDestroysLeft /\ [Next]_vars
        => ExceptionDestroysLive' /\ JumpDestroysLeft'
  BY JumpsStep
<1>3. QED
  BY <1>1, <1>2, ScopeInvariantHolds, PTL DEF Spec

\* FIGenerateEHEntryPointForCurrentPosition: an exception runs the destructors
\* of exactly the variables that are alive, in reverse order, and ends in the
\* handler of its own function.
THEOREM ExceptionDestroysLiveHolds == Spec => []ExceptionDestroysLive
BY JumpsHold, PTL

\* FIGenerateDestructorSequenceUntilScope: break, continue, return and the end
\* of a scope run the destructors of exactly the variables they leave.
THEOREM JumpDestroysLeftHolds == Spec => []JumpDestroysLeft
BY JumpsHold, PTL
=============================================================================
