--------------------------- MODULE TensorPackProofs ---------------------------
(***************************************************************************)
(* Proofs about TensorPack, for every number of tensors and threads, every *)
(* dimension, every capacity of the iterator and every number of inserts.  *)
(***************************************************************************)
EXTENDS TensorPack, SequenceTheorems, FiniteSetTheorems, TLAPS

\* Induction over the natural numbers, for a set in place of a predicate: the
\* intervals from 0 are well-founded.
LEMMA SetInduction ==
    ASSUME NEW S, 0 \in S, \A n \in Nat : n \in S => n + 1 \in S
    PROVE  Nat \subseteq S
<1> SUFFICES ASSUME NEW m \in Nat, m \notin S PROVE FALSE
  OBVIOUS
<1> DEFINE T == {0 .. k : k \in Nat \ S}
           R == StrictSubsetOrdering(Nat)
<1>1. T \subseteq FiniteSubsetsOf(Nat)
  <2>1. \A k \in Nat : IsFiniteSet(0 .. k) /\ 0 .. k \in SUBSET Nat
    BY FS_Interval
  <2>2. QED
    BY <2>1 DEF FiniteSubsetsOf
<1>2. 0 .. m \in T
  OBVIOUS
<1>3. IsWellFoundedOn(R, FiniteSubsetsOf(Nat))
  BY FS_StrictSubsetOrderingWellFounded
<1>4. PICK x \in T : \A y \in T : <<y, x>> \notin R
  <2> HIDE DEF T, R
  <2>1. T # {}
    BY <1>2
  <2>2. QED
    BY <1>1, <1>3, <2>1, WFMin
<1>5. PICK k \in Nat \ S : x = 0 .. k
  BY <1>4
<1>6. k - 1 \in Nat \ S
  BY <1>5
<1>7. 0 .. k - 1 \in T
  BY <1>6
<1>8. <<0 .. k - 1, 0 .. k>> \in R
  <2>1. 0 .. k - 1 \in SUBSET Nat /\ 0 .. k \in SUBSET Nat
    BY <1>5, <1>6
  <2>2. k \in 0 .. k /\ k \notin 0 .. k - 1
    BY <1>5
  <2>3. 0 .. k - 1 \subseteq 0 .. k /\ 0 .. k - 1 # 0 .. k
    BY <1>5, <2>2
  <2>4. QED
    BY <2>1, <2>3 DEF StrictSubsetOrdering
<1>9. QED
  BY <1>4, <1>5, <1>7, <1>8

(***************************************************************************)
(* Coordinates: their order and their permutation.                         *)
(***************************************************************************)
LEMMA OrderCases ==
    ASSUME NEW t \in Tensors
    PROVE  Order[t] = 0 \/ Order[t] = 1 \/ Order[t] = 2
BY PackAssumption

LEMMA LessWidths ==
    ASSUME NEW a, NEW b
    PROVE  /\ ~Less(0, a, b)
           /\ Less(1, a, b) <=> a[1] < b[1]
           /\ Less(2, a, b) <=> a[1] < b[1] \/ (a[2] < b[2] /\ a[1] = b[1])
<1>1. 1 .. 0 = {} /\ 1 .. 1 = {1} /\ 1 .. 2 = {1, 2}
  OBVIOUS
<1>2. 1 - 1 = 0 /\ 2 - 1 = 1
  OBVIOUS
<1>3. ~Less(0, a, b)
  BY <1>1 DEF Less
<1>4. Less(1, a, b) <=> a[1] < b[1]
  BY <1>1, <1>2 DEF Less
<1>5. Less(2, a, b) <=> a[1] < b[1] \/ (a[2] < b[2] /\ a[1] = b[1])
  <2>1. Less(2, a, b) <=>
           \E i \in {1, 2} : a[i] < b[i] /\ \A j \in 1 .. (i - 1) : a[j] = b[j]
    BY <1>1 DEF Less
  <2>2. Less(2, a, b) <=>
           \/ a[1] < b[1] /\ \A j \in 1 .. (1 - 1) : a[j] = b[j]
           \/ a[2] < b[2] /\ \A j \in 1 .. (2 - 1) : a[j] = b[j]
    BY <2>1
  <2>3. QED
    BY <1>1, <1>2, <2>2
<1>6. QED
  BY <1>3, <1>4, <1>5

\* lexicographicalCmp() is a total order on the coordinates of a tensor.
LEMMA LessIsOrder ==
    ASSUME NEW t \in Tensors, NEW a \in Coordinates(t), NEW b \in Coordinates(t),
           NEW c \in Coordinates(t)
    PROVE  /\ ~Less(Order[t], a, a)
           /\ Less(Order[t], a, b) /\ Less(Order[t], b, c) => Less(Order[t], a, c)
           /\ Less(Order[t], a, b) \/ Less(Order[t], b, a) \/ a = b
<1> DEFINE D == 1 .. Dimension
<1>1. Dimension \in Nat /\ D \subseteq Nat
  BY PackAssumption
<1>2. a \in [1 .. Order[t] -> D] /\ b \in [1 .. Order[t] -> D]
      /\ c \in [1 .. Order[t] -> D]
  BY DEF Coordinates
<1> HIDE DEF D
<1>3. CASE Order[t] = 0
  <2>1. a = b
    <3>1. a \in [{} -> D] /\ b \in [{} -> D]
      BY <1>2, <1>3, 1 .. 0 = {}, Zenon
    <3>2. QED
      BY <3>1
  <2>2. \A x, y : ~Less(0, x, y)
    BY LessWidths
  <2>3. QED
    BY <1>3, <2>1, <2>2
<1>4. CASE Order[t] = 1
  <2>1. a[1] \in Nat /\ b[1] \in Nat /\ c[1] \in Nat
    <3>1. 1 \in 1 .. 1
      OBVIOUS
    <3>2. QED
      BY <1>1, <1>2, <1>4, <3>1, Zenon
  <2>2. a[1] = b[1] => a = b
    <3>1. a \in [{1} -> D] /\ b \in [{1} -> D]
      BY <1>2, <1>4, 1 .. 1 = {1}, Zenon
    <3>2. QED
      BY <3>1
  <2>3. \A x, y : Less(1, x, y) <=> x[1] < y[1]
    BY LessWidths
  <2>4. QED
    BY <1>4, <2>1, <2>2, <2>3
<1>5. CASE Order[t] = 2
  <2>1. /\ a[1] \in Nat /\ b[1] \in Nat /\ c[1] \in Nat
        /\ a[2] \in Nat /\ b[2] \in Nat /\ c[2] \in Nat
    <3>1. 1 \in 1 .. 2 /\ 2 \in 1 .. 2
      OBVIOUS
    <3>2. QED
      BY <1>1, <1>2, <1>5, <3>1, Zenon
  <2>2. a[1] = b[1] /\ a[2] = b[2] => a = b
    <3>1. a \in [{1, 2} -> D] /\ b \in [{1, 2} -> D]
      BY <1>2, <1>5, 1 .. 2 = {1, 2}, Zenon
    <3>2. QED
      BY <3>1
  <2>3. \A x, y : Less(2, x, y) <=> x[1] < y[1] \/ (x[2] < y[2] /\ x[1] = y[1])
    BY LessWidths
  <2>4. QED
    BY <1>5, <2>1, <2>2, <2>3
<1>6. QED
  BY <1>3, <1>4, <1>5, OrderCases

\* A function on an interval from 1 is a sequence.
LEMMA IsSeq ==
    ASSUME NEW n \in Nat, NEW S, NEW f \in [1 .. n -> S]
    PROVE  f \in Seq(S) /\ Len(f) = n
<1>1. f \in Seq(S)
  BY SeqDef
<1>2. DOMAIN f = 1 .. n /\ DOMAIN f = 1 .. Len(f) /\ Len(f) \in Nat
  BY <1>1, LenProperties
<1>3. QED
  BY <1>1, <1>2

\* A mode ordering permutes the coordinates and is its own inverse.
LEMMA PermutedBack ==
    ASSUME NEW t \in Tensors, NEW c \in Coordinates(t)
    PROVE  /\ Permuted(t, c) \in Coordinates(t)
           /\ Permuted(t, Permuted(t, c)) = c
<1>1. CASE t \notin Reversed
  BY <1>1 DEF Permuted
<1>2. CASE t \in Reversed
  <2>1. PICK n \in Nat : n = Order[t]
    BY PackAssumption
  <2>2. c \in [1 .. n -> 1 .. Dimension]
    BY <2>1 DEF Coordinates
  <2>3. c \in Seq(1 .. Dimension) /\ Len(c) = n
    BY <2>2, IsSeq
  <2>4. PICK r : r = Reverse(c)
    OBVIOUS
  <2>5. r = [i \in 1 .. n |-> c[(n - i) + 1]]
    BY <2>3, <2>4 DEF Reverse
  <2>6. \A i \in 1 .. n : (n - i) + 1 \in 1 .. n /\ (n - ((n - i) + 1)) + 1 = i
    OBVIOUS
  <2>7. r \in [1 .. n -> 1 .. Dimension] /\ r \in Seq(1 .. Dimension) /\ Len(r) = n
    <3>1. r \in [1 .. n -> 1 .. Dimension]
      BY <2>2, <2>5, <2>6
    <3>2. QED
      BY <3>1, IsSeq
  <2>8. Reverse(r) = [i \in 1 .. n |-> r[(n - i) + 1]]
    BY <2>7 DEF Reverse
  <2>9. \A i \in 1 .. n : r[(n - i) + 1] = c[i]
    BY <2>5, <2>6
  <2>10. Reverse(r) = c
    BY <2>2, <2>8, <2>9
  <2>11. r \in Coordinates(t)
    BY <2>1, <2>7 DEF Coordinates
  <2>12. QED
    BY <1>2, <2>4, <2>10, <2>11 DEF Permuted
<1>3. QED
  BY <1>1, <1>2

\* A component with its coordinates permuted.
Turned(t, x) == [x EXCEPT !.at = Permuted(t, @)]

LEMMA TurnedType ==
    ASSUME NEW t \in Tensors, NEW x \in Component(t)
    PROVE  /\ Turned(t, x) \in Component(t)
           /\ Turned(t, x).at = Permuted(t, x.at)
           /\ Turned(t, x).val = x.val
BY PermutedBack DEF Component, Turned

LEMMA PermutedAllType ==
    ASSUME NEW t \in Tensors, NEW q \in Seq(Component(t))
    PROVE  /\ PermutedAll(t, q) \in Seq(Component(t))
           /\ Len(PermutedAll(t, q)) = Len(q)
           /\ \A i \in 1 .. Len(q) : PermutedAll(t, q)[i] = Turned(t, q[i])
<1>1. DOMAIN q = 1 .. Len(q) /\ \A i \in 1 .. Len(q) : q[i] \in Component(t)
  BY ElementOfSeq
<1>2. PermutedAll(t, q) = [i \in 1 .. Len(q) |-> Turned(t, q[i])]
  BY <1>1 DEF PermutedAll, Turned
<1>3. \A i \in 1 .. Len(q) : Turned(t, q[i]) \in Component(t)
  BY <1>1, TurnedType
<1>4. QED
  BY <1>2, <1>3

(***************************************************************************)
(* The function "pack": what it makes of a list of components.             *)
(***************************************************************************)
LEMMA AddToType ==
    ASSUME NEW t, NEW r \in Seq(Component(t)), NEW x \in Component(t)
    PROVE  /\ AddTo(r, x) \in Seq(Component(t))
           /\ AddTo(r, x) # <<>>
           /\ Last(AddTo(r, x)).at = x.at
<1>1. CASE r # <<>> /\ Last(r).at = x.at
  <2>1. PICK n \in Nat : n = Len(r) /\ n \in 1 .. Len(r)
    BY <1>1, EmptySeq
  <2>2. PICK y \in Component(t) : y = r[n]
    BY <2>1, ElementOfSeq
  <2>3. PICK z : z = [y EXCEPT !.val = @ + x.val]
    OBVIOUS
  <2>4. z \in Component(t) /\ z.at = y.at
    BY <2>2, <2>3 DEF Component
  <2>5. AddTo(r, x) = [r EXCEPT ![n] = z]
    BY <1>1, <2>1, <2>2, <2>3 DEF AddTo
  <2>6. PICK s : s = [r EXCEPT ![n] = z]
    OBVIOUS
  <2>7. s \in Seq(Component(t)) /\ Len(s) = n /\ s[n] = z
    BY <2>1, <2>4, <2>6, ExceptSeq
  <2>8. s # <<>>
    BY <2>1, <2>7, EmptySeq
  <2>9. y.at = x.at
    BY <1>1, <2>1, <2>2 DEF Last
  <2>10. QED
    BY <2>4, <2>5, <2>6, <2>7, <2>8, <2>9 DEF Last
<1>2. CASE ~(r # <<>> /\ Last(r).at = x.at)
  <2>1. AddTo(r, x) = Append(r, x)
    BY <1>2 DEF AddTo
  <2>2. PICK s : s = Append(r, x)
    OBVIOUS
  <2>3. s \in Seq(Component(t)) /\ Len(s) = Len(r) + 1 /\ s[Len(r) + 1] = x
    BY <2>2, AppendProperties
  <2>4. s # <<>>
    <3>1. Len(r) \in Nat /\ Len(<<>>) = 0
      BY EmptySeq
    <3>2. QED
      BY <2>3, <3>1
  <2>5. QED
    BY <2>1, <2>2, <2>3, <2>4 DEF Last
<1>3. QED
  BY <1>1, <1>2

\* f has what is made of the first n components of q, for each n.
Merges(q, f) ==
    f = [n \in 0 .. Len(q) |-> IF n = 0 THEN <<>> ELSE AddTo(f[n - 1], q[n])]

\* The same as equations.
Merging(t, q, f) ==
    /\ f \in [0 .. Len(q) -> Seq(Component(t))]
    /\ f[0] = <<>>
    /\ \A n \in 1 .. Len(q) : f[n] = AddTo(f[n - 1], q[n])

LEMMA MergingMerges ==
    ASSUME NEW t, NEW q \in Seq(Component(t)), NEW f, Merging(t, q, f)
    PROVE  Merges(q, f)
<1>1. \A n \in 0 .. Len(q) : n = 0 \/ n \in 1 .. Len(q)
  OBVIOUS
<1>2. \A n \in 0 .. Len(q) :
         f[n] = IF n = 0 THEN <<>> ELSE AddTo(f[n - 1], q[n])
  BY <1>1 DEF Merging
<1>3. f = [n \in 0 .. Len(q) |-> f[n]]
  BY DEF Merging
<1>4. QED
  BY <1>2, <1>3 DEF Merges

LEMMA MergesExist ==
    ASSUME NEW t, NEW q \in Seq(Component(t))
    PROVE  \E f : Merging(t, q, f)
<1> DEFINE S == {m \in Nat : m <= Len(q) => \E f : Merging(t, SubSeq(q, 1, m), f)}
<1>1. 0 \in S
  <2> DEFINE g == [n \in 0 .. 0 |-> <<>>]
  <2>1. SubSeq(q, 1, 0) = <<>>
    BY SubSeqEmpty
  <2>2. Merging(t, <<>>, g)
    BY DEF Merging
  <2>3. QED
    BY <2>1, <2>2
<1>2. ASSUME NEW m \in Nat, m \in S PROVE m + 1 \in S
  <2> SUFFICES ASSUME m + 1 <= Len(q)
               PROVE  \E f : Merging(t, SubSeq(q, 1, m + 1), f)
    OBVIOUS
  <2> DEFINE a == SubSeq(q, 1, m)
             b == SubSeq(q, 1, m + 1)
  <2>1. PICK f : Merging(t, a, f)
    BY <1>2
  <2>2. /\ Len(a) = m /\ Len(b) = m + 1
        /\ \A i \in 1 .. m : b[i] = a[i]
        /\ b[m + 1] \in Component(t)
    <3>1. \A i \in 1 .. m + 1 : q[i] \in Component(t)
      BY ElementOfSeq
    <3>2. /\ Len(a) = m /\ \A i \in 1 .. m : a[i] = q[i]
      BY <3>1
    <3>3. /\ Len(b) = m + 1 /\ \A i \in 1 .. m + 1 : b[i] = q[i]
      BY <3>1
    <3>4. QED
      BY <3>1, <3>2, <3>3
  <2> HIDE DEF a, b
  <2> DEFINE last == AddTo(f[m], b[m + 1])
             g == [n \in 0 .. m + 1 |-> IF n = m + 1 THEN last ELSE f[n]]
  <2>3. last \in Seq(Component(t))
    <3>1. f[m] \in Seq(Component(t))
      BY <2>1, <2>2 DEF Merging
    <3>2. QED
      BY <2>2, <3>1, AddToType
  <2>4. g[m + 1] = last /\ \A n \in 0 .. m : g[n] = f[n]
    OBVIOUS
  <2>5. g \in [0 .. m + 1 -> Seq(Component(t))]
    <3> HIDE DEF last
    <3>1. \A n \in 0 .. m : f[n] \in Seq(Component(t))
      BY <2>1, <2>2 DEF Merging
    <3>2. QED
      BY <2>3, <3>1
  <2> HIDE DEF g
  <2>6. ASSUME NEW n \in 1 .. m + 1
        PROVE  g[n] = AddTo(g[n - 1], b[n])
    <3>1. CASE n = m + 1
      BY <2>4, <3>1
    <3>2. CASE n # m + 1
      <4>1. n \in 1 .. m /\ n - 1 \in 0 .. m /\ n \in 0 .. m
        BY <3>2
      <4>2. f[n] = AddTo(f[n - 1], a[n])
        BY <2>1, <2>2, <4>1 DEF Merging
      <4>3. g[n] = f[n] /\ g[n - 1] = f[n - 1] /\ b[n] = a[n]
        BY <2>2, <2>4, <4>1
      <4>4. QED
        BY <4>2, <4>3, Zenon
    <3>3. QED
      BY <3>1, <3>2
  <2>7. g[0] = <<>>
    BY <2>1, <2>4 DEF Merging
  <2>8. Merging(t, b, g)
    BY <2>2, <2>5, <2>6, <2>7 DEF Merging
  <2>9. QED
    BY <2>8 DEF b
<1> HIDE DEF S
<1>3. Len(q) \in S
  <2>1. Len(q) \in Nat
    OBVIOUS
  <2>2. Nat \subseteq S
    BY <1>1, <1>2, SetInduction
  <2>3. QED
    BY <2>1, <2>2
<1>4. SubSeq(q, 1, Len(q)) = q
  BY SubSeqFull
<1>5. \E f : Merging(t, SubSeq(q, 1, Len(q)), f)
  <2>1. Len(q) <= Len(q)
    OBVIOUS
  <2>2. QED
    BY <1>3, <2>1, Zenon DEF S
<1>6. QED
  BY <1>4, <1>5, Zenon

LEMMA MergesAgree ==
    ASSUME NEW t, NEW q \in Seq(Component(t)), NEW f, NEW g,
           Merges(q, f), Merging(t, q, g)
    PROVE  f[Len(q)] = g[Len(q)]
<1> DEFINE S == {n \in Nat : n <= Len(q) => f[n] = g[n]}
<1>1. \A n \in 0 .. Len(q) :
         f[n] = IF n = 0 THEN <<>> ELSE AddTo(f[n - 1], q[n])
  BY Zenon DEF Merges
<1>2. Len(q) \in Nat
  OBVIOUS
<1>3. 0 \in S
  <2>1. 0 \in 0 .. Len(q)
    BY <1>2
  <2>2. f[0] = <<>>
    BY <1>1, <2>1, Zenon
  <2>3. g[0] = <<>>
    BY DEF Merging
  <2>4. QED
    BY <2>2, <2>3
<1>4. ASSUME NEW k \in Nat, k \in S PROVE k + 1 \in S
  <2> SUFFICES ASSUME k + 1 <= Len(q) PROVE f[k + 1] = g[k + 1]
    OBVIOUS
  <2>1. PICK n : n = k + 1
    OBVIOUS
  <2>2. n \in 0 .. Len(q) /\ n # 0 /\ n - 1 = k /\ n \in 1 .. Len(q)
    BY <1>2, <2>1
  <2>3. f[n] = AddTo(f[n - 1], q[n])
    BY <1>1, <2>2, Zenon
  <2>4. g[n] = AddTo(g[n - 1], q[n])
    BY <2>2, Zenon DEF Merging
  <2>5. f[n - 1] = g[n - 1]
    BY <1>2, <1>4, <2>2
  <2>6. f[n] = g[n]
    BY <2>3, <2>4, <2>5, Zenon
  <2>7. QED
    BY <2>1, <2>6
<1> HIDE DEF S
<1>5. Nat \subseteq S
  BY <1>3, <1>4, SetInduction
<1>6. QED
  BY <1>2, <1>5 DEF S

\* Merged() as equations.
LEMMA MergedIs ==
    ASSUME NEW t, NEW q \in Seq(Component(t))
    PROVE  \E f : Merging(t, q, f) /\ Merged(q) = f[Len(q)]
<1>1. PICK f : Merging(t, q, f)
  BY MergesExist
<1>2. Merged(q) = (CHOOSE g : Merges(q, g))[Len(q)]
  BY DEF Merged, Merges
<1>3. Merges(q, CHOOSE g : Merges(q, g))
  BY <1>1, MergingMerges
<1>4. PICK g : g = CHOOSE h : Merges(q, h)
  OBVIOUS
<1>5. g[Len(q)] = f[Len(q)]
  BY <1>1, <1>3, <1>4, MergesAgree
<1>6. QED
  BY <1>1, <1>2, <1>4, <1>5

LEMMA MergedType ==
    ASSUME NEW t, NEW q \in Seq(Component(t))
    PROVE  Merged(q) \in Seq(Component(t))
<1>1. PICK f : Merging(t, q, f) /\ Merged(q) = f[Len(q)]
  BY MergedIs
<1>2. Len(q) \in 0 .. Len(q)
  OBVIOUS
<1>3. QED
  BY <1>1, <1>2 DEF Merging

(***************************************************************************)
(* Ascending lists.                                                        *)
(***************************************************************************)
Ascending(t, q) ==
    \A i, j \in 1 .. Len(q) : i < j => ~Less(Order[t], q[j].at, q[i].at)

StrictlyAscending(t, q) ==
    \A i, j \in 1 .. Len(q) : i < j => Less(Order[t], q[i].at, q[j].at)

\* What a component that is not below the last one leaves strictly ascending.
LEMMA AddToAscends ==
    ASSUME NEW t \in Tensors, NEW r \in Seq(Component(t)), NEW x \in Component(t),
           StrictlyAscending(t, r),
           r # <<>> => ~Less(Order[t], x.at, Last(r).at)
    PROVE  StrictlyAscending(t, AddTo(r, x))
<1>1. \A i \in 1 .. Len(r) : r[i] \in Component(t)
  BY ElementOfSeq
<1>2. Len(r) \in Nat
  OBVIOUS
<1>3. CASE r # <<>> /\ Last(r).at = x.at
  <2>1. PICK n \in Nat : n = Len(r) /\ n \in 1 .. Len(r)
    BY <1>3, EmptySeq
  <2>2. PICK y \in Component(t) : y = r[n]
    BY <1>1, <2>1
  <2>3. PICK z : z = [y EXCEPT !.val = @ + x.val]
    OBVIOUS
  <2>4. z \in Component(t) /\ z.at = y.at
    BY <2>2, <2>3 DEF Component
  <2>5. PICK s : s = AddTo(r, x)
    OBVIOUS
  <2>6. s = [r EXCEPT ![n] = z]
    BY <1>3, <2>1, <2>2, <2>3, <2>5 DEF AddTo
  <2>7. Len(s) = n /\ \A j \in 1 .. n : s[j] = IF j = n THEN z ELSE r[j]
    BY <2>1, <2>4, <2>6, ExceptSeq
  <2>8. \A j \in 1 .. n : s[j].at = r[j].at
    BY <2>2, <2>4, <2>7
  <2>9. QED
    BY <2>1, <2>5, <2>7, <2>8 DEF StrictlyAscending
<1>4. CASE ~(r # <<>> /\ Last(r).at = x.at)
  <2>1. PICK s : s = AddTo(r, x)
    OBVIOUS
  <2>2. s = Append(r, x)
    BY <1>4, <2>1 DEF AddTo
  <2>3. PICK n \in Nat : n = Len(r)
    BY <1>2
  <2>4. Len(s) = n + 1 /\ s[n + 1] = x /\ \A i \in 1 .. n : s[i] = r[i]
    BY <2>2, <2>3, AppendProperties
  <2>5. ASSUME NEW i \in 1 .. n PROVE Less(Order[t], r[i].at, x.at)
    <3>1. r # <<>> /\ n \in 1 .. Len(r)
      BY <2>3, <2>5, EmptySeq
    <3>2. /\ r[n].at \in Coordinates(t) /\ r[i].at \in Coordinates(t)
          /\ x.at \in Coordinates(t)
      BY <1>1, <2>3, <3>1 DEF Component
    <3>3. r[n].at # x.at /\ ~Less(Order[t], x.at, r[n].at)
      BY <1>4, <2>3, <3>1 DEF Last
    <3>4. Less(Order[t], r[n].at, x.at)
      BY <3>2, <3>3, LessIsOrder
    <3>5. CASE i = n
      BY <3>4, <3>5
    <3>6. CASE i # n
      <4>1. i < n
        BY <3>6
      <4>2. Less(Order[t], r[i].at, r[n].at)
        BY <2>3, <3>1, <4>1 DEF StrictlyAscending
      <4>3. QED
        BY <3>2, <3>4, <4>2, LessIsOrder
    <3>7. QED
      BY <3>5, <3>6
  <2>6. ASSUME NEW i \in 1 .. n + 1, NEW j \in 1 .. n + 1, i < j
        PROVE  Less(Order[t], s[i].at, s[j].at)
    <3>1. i \in 1 .. n
      BY <2>6
    <3>2. CASE j = n + 1
      BY <2>4, <2>5, <3>1, <3>2
    <3>3. CASE j # n + 1
      <4>1. j \in 1 .. n
        BY <3>3
      <4>2. QED
        BY <2>3, <2>4, <2>6, <3>1, <4>1 DEF StrictlyAscending
    <3>4. QED
      BY <3>2, <3>3
  <2>7. QED
    BY <2>1, <2>4, <2>6 DEF StrictlyAscending
<1>5. QED
  BY <1>3, <1>4

\* What an ascending list leaves has every coordinate once.
LEMMA MergedAscends ==
    ASSUME NEW t \in Tensors, NEW q \in Seq(Component(t)), Ascending(t, q)
    PROVE  StrictlyAscending(t, Merged(q))
<1>1. PICK f : Merging(t, q, f) /\ Merged(q) = f[Len(q)]
  BY MergedIs
<1> DEFINE P(n) == /\ StrictlyAscending(t, f[n])
                   /\ f[n] # <<>> => n > 0 /\ Last(f[n]).at = q[n].at
           S == {n \in Nat : n <= Len(q) => P(n)}
<1>2. 0 \in S
  <2>1. f[0] = <<>>
    BY <1>1 DEF Merging
  <2>2. StrictlyAscending(t, <<>>)
    BY EmptySeq DEF StrictlyAscending
  <2>3. QED
    BY <2>1, <2>2
<1>3. ASSUME NEW k \in Nat, k \in S PROVE k + 1 \in S
  <2> SUFFICES ASSUME k + 1 <= Len(q) PROVE P(k + 1)
    OBVIOUS
  <2>1. PICK n \in Nat : n = k + 1
    OBVIOUS
  <2>2. n \in 1 .. Len(q) /\ k \in 0 .. Len(q) /\ n - 1 = k
    BY <2>1
  <2>3. f[n] = AddTo(f[k], q[n])
    <3>1. f[n] = AddTo(f[n - 1], q[n])
      BY <1>1, <2>2 DEF Merging
    <3>2. QED
      BY <2>2, <3>1
  <2>4. f[k] \in Seq(Component(t)) /\ q[n] \in Component(t)
    <3>1. f[k] \in Seq(Component(t))
      BY <1>1, <2>2 DEF Merging
    <3>2. q[n] \in Component(t)
      BY <2>2, ElementOfSeq
    <3>3. QED
      BY <3>1, <3>2
  <2>5. P(k)
    <3>1. k <= Len(q)
      BY <2>2
    <3>2. QED
      BY <1>3, <3>1
  <2>6. f[k] # <<>> => ~Less(Order[t], q[n].at, Last(f[k]).at)
    <3>1. SUFFICES ASSUME f[k] # <<>>
                   PROVE  ~Less(Order[t], q[n].at, Last(f[k]).at)
      OBVIOUS
    <3>2. k > 0 /\ Last(f[k]).at = q[k].at
      BY <2>5, <3>1
    <3>3. k \in 1 .. Len(q) /\ k < n
      BY <2>1, <2>2, <3>2
    <3>4. ~Less(Order[t], q[n].at, q[k].at)
      BY <2>2, <3>3 DEF Ascending
    <3>5. QED
      BY <3>2, <3>4
  <2>7. StrictlyAscending(t, f[n])
    BY <2>3, <2>4, <2>5, <2>6, AddToAscends
  <2>8. Last(f[n]).at = q[n].at
    <3>1. Last(AddTo(f[k], q[n])).at = q[n].at
      BY <2>4, AddToType, Zenon
    <3>2. QED
      BY <2>3, <3>1, Zenon
  <2>9. n > 0
    BY <2>1
  <2>10. QED
    BY <2>1, <2>7, <2>8, <2>9
<1> HIDE DEF S
<1>4. Nat \subseteq S
  BY <1>2, <1>3, SetInduction
<1>5. Len(q) \in S /\ Len(q) <= Len(q)
  BY <1>4
<1>6. QED
  BY <1>1, <1>5 DEF S

(***************************************************************************)
(* Dense levels: every coordinate has one position, in ascending order.    *)
(***************************************************************************)
LEMMA DivMod ==
    ASSUME NEW d \in Nat, d > 0, NEW x \in Nat
    PROVE  /\ x \div d \in Nat /\ x % d \in Nat /\ x % d < d
           /\ x = d * (x \div d) + (x % d)
OBVIOUS

\* Pairs below d are ordered as the numbers they make.
LEMMA PairOrder ==
    ASSUME NEW d \in Nat, d > 0, NEW a \in Nat, NEW b \in Nat, NEW m \in Nat,
           NEW n \in Nat, b < d, n < d, d * a + b < d * m + n
    PROVE  a < m \/ (b < n /\ a = m)
<1>1. CASE a < m
  BY <1>1
<1>2. CASE a = m
  <2>1. PICK e \in Int : e = d * a /\ e = d * m
    BY <1>2
  <2>2. QED
    BY <1>2, <2>1
<1>3. CASE m < a
  <2>1. d * (m + 1) <= d * a
    BY <1>3
  <2>2. d * (m + 1) = d * m + d
    OBVIOUS
  <2>3. PICK e \in Int, g \in Int : e = d * a /\ g = d * m
    OBVIOUS
  <2>4. QED
    BY <2>1, <2>2, <2>3
<1>4. QED
  BY <1>1, <1>2, <1>3

LEMMA PairUnique ==
    ASSUME NEW d \in Nat, d > 0, NEW a \in Nat, NEW b \in Nat, NEW m \in Nat,
           NEW n \in Nat, b < d, n < d, d * a + b = d * m + n
    PROVE  a = m /\ b = n
<1>1. a = m
  <2>1. CASE a < m
    <3>1. d * (a + 1) <= d * m
      BY <2>1
    <3>2. d * (a + 1) = d * a + d
      OBVIOUS
    <3>3. PICK e \in Int, g \in Int : e = d * a /\ g = d * m
      OBVIOUS
    <3>4. QED
      BY <3>1, <3>2, <3>3
  <2>2. CASE m < a
    <3>1. d * (m + 1) <= d * a
      BY <2>2
    <3>2. d * (m + 1) = d * m + d
      OBVIOUS
    <3>3. PICK e \in Int, g \in Int : e = d * a /\ g = d * m
      OBVIOUS
    <3>4. QED
      BY <3>1, <3>2, <3>3
  <2>3. QED
    BY <2>1, <2>2
<1>2. PICK e \in Int : e = d * a /\ e = d * m
  BY <1>1
<1>3. QED
  BY <1>1, <1>2

\* What the positions of t are, for the proofs below.
PositionsRight(t) ==
    /\ Positions(t) \in Seq(Coordinates(t))
    /\ \A i, j \in 1 .. Len(Positions(t)) :
          i < j => Less(Order[t], Positions(t)[i], Positions(t)[j])
    /\ \A c \in Coordinates(t) :
          \E i \in 1 .. Len(Positions(t)) : Positions(t)[i] = c

LEMMA PositionsOrder0 ==
    ASSUME NEW t \in Tensors, Order[t] = 0
    PROVE  PositionsRight(t)
<1>1. Positions(t) = <<<<>>>>
  BY DEF Positions
<1>2. \A c : c \in Coordinates(t) <=> c = <<>>
  <2>1. Coordinates(t) = [{} -> 1 .. Dimension]
    BY 1 .. 0 = {}, Zenon DEF Coordinates
  <2>2. <<>> \in [{} -> 1 .. Dimension]
    OBVIOUS
  <2>3. \A c \in [{} -> 1 .. Dimension] : c = <<>>
    BY <2>2
  <2>4. QED
    BY <2>1, <2>2, <2>3
<1>3. <<>> \in Coordinates(t)
  BY <1>2
<1>4. PICK e : e = <<>> /\ e \in Coordinates(t)
  BY <1>3
<1>5. <<e>> \in Seq(Coordinates(t)) /\ Len(<<e>>) = 1 /\ <<e>>[1] = e
  BY <1>4
<1>6. PICK s : s = <<e>>
  OBVIOUS
<1>7. s = Positions(t)
  BY <1>1, <1>4, <1>6, Zenon
<1>8. 1 \in 1 .. Len(s) /\ \A i, j \in 1 .. Len(s) : ~(i < j)
  BY <1>5, <1>6
<1>9. \A c \in Coordinates(t) : \E i \in 1 .. Len(s) : s[i] = c
  BY <1>2, <1>4, <1>5, <1>6, <1>8
<1>10. QED
  BY <1>5, <1>6, <1>7, <1>8, <1>9, Zenon DEF PositionsRight

LEMMA PositionsOrder1 ==
    ASSUME NEW t \in Tensors, Order[t] = 1
    PROVE  PositionsRight(t)
<1>1. Dimension \in Nat /\ Dimension > 0
  BY PackAssumption
<1>2. Positions(t) = [p \in 1 .. Dimension |-> <<p>>]
  BY DEF Positions
<1>3. Coordinates(t) = [{1} -> 1 .. Dimension]
  BY 1 .. 1 = {1}, Zenon DEF Coordinates
<1>4. \A p \in 1 .. Dimension : <<p>> \in [{1} -> 1 .. Dimension] /\ <<p>>[1] = p
  <2>1. TAKE p \in 1 .. Dimension
  <2>2. <<p>> \in Seq(1 .. Dimension) /\ Len(<<p>>) = 1 /\ <<p>>[1] = p
    OBVIOUS
  <2>3. <<p>> \in [1 .. 1 -> 1 .. Dimension]
    BY <2>2, LenProperties
  <2>4. QED
    BY <2>2, <2>3, 1 .. 1 = {1}, Zenon
<1>5. PICK s : s = Positions(t)
  OBVIOUS
<1>6. s \in [1 .. Dimension -> Coordinates(t)] /\ \A p \in 1 .. Dimension : s[p] = <<p>>
  BY <1>2, <1>3, <1>4, <1>5
<1>7. s \in Seq(Coordinates(t)) /\ Len(s) = Dimension
  BY <1>1, <1>6, IsSeq
<1>8. \A i, j \in 1 .. Dimension : i < j => Less(1, s[i], s[j])
  <2>1. \A i \in 1 .. Dimension : s[i][1] = i
    BY <1>4, <1>6
  <2>2. QED
    BY <2>1, LessWidths
<1>9. \A c \in Coordinates(t) : \E i \in 1 .. Dimension : s[i] = c
  <2>1. TAKE c \in Coordinates(t)
  <2>2. c \in [{1} -> 1 .. Dimension] /\ c[1] \in 1 .. Dimension
    BY <1>3
  <2>3. PICK p \in 1 .. Dimension : p = c[1]
    BY <2>2
  <2>4. <<p>> \in [{1} -> 1 .. Dimension] /\ <<p>>[1] = p
    BY <1>4, <2>3
  <2>5. PICK x : x = <<p>>
    OBVIOUS
  <2>6. x = c
    BY <2>2, <2>3, <2>4, <2>5
  <2>7. QED
    BY <1>6, <2>3, <2>5, <2>6, Zenon
<1>10. QED
  BY <1>5, <1>7, <1>8, <1>9 DEF PositionsRight

LEMMA PositionsOrder2 ==
    ASSUME NEW t \in Tensors, Order[t] = 2
    PROVE  PositionsRight(t)
<1> DEFINE First(p) == 1 + ((p - 1) \div Dimension)
           Second(p) == 1 + ((p - 1) % Dimension)
<1>1. PICK d \in Nat : d = Dimension /\ d > 0
  BY PackAssumption
<1>2. PICK size \in Nat : size = d * d
  BY <1>1
<1>3. Positions(t) = [p \in 1 .. size |-> <<First(p), Second(p)>>]
  BY <1>1, <1>2 DEF Positions
<1>4. Coordinates(t) = [{1, 2} -> 1 .. d]
  BY <1>1, 1 .. 2 = {1, 2}, Zenon DEF Coordinates
<1>5. ASSUME NEW p \in 1 .. size
      PROVE  /\ First(p) \in 1 .. d /\ Second(p) \in 1 .. d
             /\ p - 1 = d * (First(p) - 1) + (Second(p) - 1)
  <2>1. PICK x \in Nat : x = p - 1 /\ x < d * d
    BY <1>2, <1>5
  <2>2. /\ x \div d \in Nat /\ x % d \in Nat /\ x % d < d
        /\ x = d * (x \div d) + (x % d)
    BY <1>1, DivMod
  <2>3. PICK a \in Nat, b \in Nat : a = x \div d /\ b = x % d
    BY <2>2
  <2>4. First(p) = 1 + a /\ Second(p) = 1 + b
    BY <1>1, <2>1, <2>3
  <2>5. b < d /\ x = d * a + b
    BY <2>2, <2>3
  <2>6. a < d
    <3>1. d * a < d * d
      <4>1. PICK e \in Int : e = d * a
        OBVIOUS
      <4>2. PICK g \in Int : g = d * d
        OBVIOUS
      <4>3. QED
        BY <2>1, <2>5, <4>1, <4>2
    <3>2. CASE a >= d
      <4>1. d * a >= d * d
        BY <3>2
      <4>2. QED
        BY <3>1, <4>1
    <3>3. QED
      BY <3>2
  <2> HIDE DEF First, Second
  <2>7. First(p) - 1 = a /\ Second(p) - 1 = b
    BY <2>4
  <2>8. QED
    BY <2>1, <2>4, <2>5, <2>6, <2>7
<1> HIDE DEF First, Second
<1>6. \A a, b \in 1 .. d :
         <<a, b>> \in [{1, 2} -> 1 .. d] /\ <<a, b>>[1] = a /\ <<a, b>>[2] = b
  <2>1. TAKE a, b \in 1 .. d
  <2>2. /\ <<a, b>> \in Seq(1 .. d) /\ Len(<<a, b>>) = 2
        /\ <<a, b>>[1] = a /\ <<a, b>>[2] = b
    OBVIOUS
  <2>3. <<a, b>> \in [1 .. 2 -> 1 .. d]
    BY <2>2, LenProperties
  <2>4. QED
    BY <2>2, <2>3, 1 .. 2 = {1, 2}, Zenon
<1>7. PICK s : s = Positions(t)
  OBVIOUS
<1>8. /\ s \in [1 .. size -> Coordinates(t)]
      /\ \A p \in 1 .. size : s[p][1] = First(p) /\ s[p][2] = Second(p)
  <2>1. \A p \in 1 .. size : /\ <<First(p), Second(p)>> \in Coordinates(t)
                             /\ <<First(p), Second(p)>>[1] = First(p)
                             /\ <<First(p), Second(p)>>[2] = Second(p)
    BY <1>4, <1>5, <1>6
  <2>2. QED
    BY <1>3, <1>7, <2>1
<1>9. s \in Seq(Coordinates(t)) /\ Len(s) = size
  BY <1>2, <1>8, IsSeq
<1>10. ASSUME NEW i \in 1 .. size, NEW j \in 1 .. size, i < j
       PROVE  Less(2, s[i], s[j])
  <2>1. PICK a \in Nat, b \in Nat : a = First(i) - 1 /\ b = Second(i) - 1
    BY <1>5
  <2>2. PICK m \in Nat, n \in Nat : m = First(j) - 1 /\ n = Second(j) - 1
    BY <1>5
  <2>3. /\ i - 1 = d * a + b /\ j - 1 = d * m + n /\ b < d /\ n < d
        /\ First(i) = a + 1 /\ Second(i) = b + 1
        /\ First(j) = m + 1 /\ Second(j) = n + 1
    <3>1. i - 1 = d * a + b
      BY <1>5, <2>1
    <3>2. j - 1 = d * m + n
      BY <1>5, <2>2
    <3>3. /\ First(i) \in 1 .. d /\ Second(i) \in 1 .. d
          /\ First(j) \in 1 .. d /\ Second(j) \in 1 .. d
      BY <1>5
    <3>4. QED
      BY <2>1, <2>2, <3>1, <3>2, <3>3
  <2>4. d * a + b < d * m + n
    BY <1>10, <2>3
  <2>5. a < m \/ (b < n /\ a = m)
    BY <1>1, <2>3, <2>4, PairOrder
  <2>6. First(i) < First(j) \/ (Second(i) < Second(j) /\ First(i) = First(j))
    BY <2>3, <2>5
  <2>7. QED
    BY <1>8, <2>6, LessWidths
<1>11. \A c \in Coordinates(t) : \E i \in 1 .. size : s[i] = c
  <2>1. TAKE c \in Coordinates(t)
  <2>2. c \in [{1, 2} -> 1 .. d]
    BY <1>4
  <2>3. PICK a \in Nat, b \in Nat : c[1] = a + 1 /\ c[2] = b + 1 /\ a < d /\ b < d
    <3>1. c[1] \in 1 .. d /\ c[2] \in 1 .. d
      BY <2>2
    <3>2. \A e \in 1 .. d : \E a \in Nat : e = a + 1 /\ a < d
      <4>1. TAKE e \in 1 .. d
      <4>2. e - 1 \in Nat /\ e = (e - 1) + 1 /\ e - 1 < d
        OBVIOUS
      <4>3. QED
        BY <4>2
    <3>3. QED
      BY <3>1, <3>2
  <2>4. PICK p \in Nat : p = d * a + b + 1
    OBVIOUS
  <2>5. p \in 1 .. size
    <3>1. d * (a + 1) <= d * d
      BY <2>3
    <3>2. d * (a + 1) = d * a + d
      OBVIOUS
    <3>3. PICK e \in Nat : e = d * a
      OBVIOUS
    <3>4. d * (a + 1) <= size /\ d * (a + 1) = e + d /\ p = e + b + 1
      BY <1>2, <2>4, <3>1, <3>2, <3>3
    <3>5. PICK g \in Int : g = d * (a + 1)
      OBVIOUS
    <3>6. g <= size /\ g = e + d
      BY <3>4, <3>5
    <3>7. QED
      BY <2>3, <3>4, <3>6
  <2>6. PICK m \in Nat, n \in Nat : m = First(p) - 1 /\ n = Second(p) - 1
    BY <1>5, <2>5
  <2>7. p - 1 = d * m + n /\ n < d /\ First(p) = m + 1 /\ Second(p) = n + 1
    <3>1. p - 1 = d * m + n
      BY <1>5, <2>5, <2>6
    <3>2. First(p) \in 1 .. d /\ Second(p) \in 1 .. d
      BY <1>5, <2>5
    <3>3. QED
      BY <2>6, <3>1, <3>2
  <2>8. d * a + b = d * m + n
    BY <2>4, <2>7
  <2>9. a = m /\ b = n
    BY <1>1, <2>3, <2>7, <2>8, PairUnique
  <2>10. s[p][1] = c[1] /\ s[p][2] = c[2]
    BY <1>8, <2>3, <2>5, <2>7, <2>9
  <2>11. s[p] \in [{1, 2} -> 1 .. d]
    BY <1>4, <1>8, <2>5
  <2>12. s[p] = c
    <3>1. PICK x : x = s[p]
      OBVIOUS
    <3>2. x \in [{1, 2} -> 1 .. d] /\ x[1] = c[1] /\ x[2] = c[2]
      BY <2>10, <2>11, <3>1
    <3>3. QED
      BY <2>2, <3>1, <3>2
  <2>13. QED
    BY <2>5, <2>12
<1>12. QED
  BY <1>7, <1>9, <1>10, <1>11 DEF PositionsRight

LEMMA PositionsAreRight ==
    ASSUME NEW t \in Tensors
    PROVE  PositionsRight(t)
BY OrderCases, PositionsOrder0, PositionsOrder1, PositionsOrder2

(***************************************************************************)
(* The sort and the kernel.                                                *)
(***************************************************************************)
LEMMA MaxExists ==
    ASSUME NEW n \in Nat, NEW P \in SUBSET (1 .. n), P # {}
    PROVE  Max(P) \in P
<1> DEFINE S == {k \in Nat : \A Q \in SUBSET (1 .. k) :
                    Q # {} => \E x \in Q : \A y \in Q : x >= y}
<1>1. 0 \in S
  BY 1 .. 0 = {}
<1>2. ASSUME NEW k \in Nat, k \in S PROVE k + 1 \in S
  <2> SUFFICES ASSUME NEW Q \in SUBSET (1 .. k + 1), Q # {}
               PROVE  \E x \in Q : \A y \in Q : x >= y
    OBVIOUS
  <2>1. CASE k + 1 \in Q
    <3>1. \A y \in Q : k + 1 >= y
      OBVIOUS
    <3>2. QED
      BY <2>1, <3>1
  <2>2. CASE k + 1 \notin Q
    <3>1. \A y \in Q : y \in 1 .. k
      BY <2>2
    <3>2. Q \in SUBSET (1 .. k)
      BY <3>1
    <3>3. QED
      BY <1>2, <3>2
  <2>3. QED
    BY <2>1, <2>2
<1> HIDE DEF S
<1>3. n \in S
  BY <1>1, <1>2, SetInduction
<1>4. \E x \in P : \A y \in P : x >= y
  BY <1>3 DEF S
<1>5. QED
  BY <1>4 DEF Max

LEMMA StoredAtType ==
    ASSUME NEW t \in Tensors, NEW q \in Seq(Component(t)), NEW c
    PROVE  StoredAt(q, c) \in Nat
<1> DEFINE places == {i \in DOMAIN q : q[i].at = c}
<1>1. DOMAIN q = 1 .. Len(q) /\ Len(q) \in Nat
  BY LenProperties
<1>2. CASE places = {}
  BY <1>2 DEF StoredAt
<1>3. CASE places # {}
  <2>1. places \in SUBSET (1 .. Len(q))
    BY <1>1
  <2> HIDE DEF places
  <2>2. Max(places) \in 1 .. Len(q)
    BY <1>1, <1>3, <2>1, MaxExists
  <2>3. q[Max(places)] \in Component(t)
    BY <2>2, ElementOfSeq
  <2>4. q[Max(places)].val \in Nat
    BY <2>3 DEF Component
  <2>5. QED
    BY <1>3, <2>4 DEF StoredAt, places
<1>4. QED
  BY <1>2, <1>3

\* In a list with every coordinate once, what is stored is what is there.
LEMMA StoredAtIs ==
    ASSUME NEW t \in Tensors, NEW q \in Seq(Component(t)), StrictlyAscending(t, q),
           NEW i \in 1 .. Len(q)
    PROVE  StoredAt(q, q[i].at) = q[i].val
<1> DEFINE places == {j \in DOMAIN q : q[j].at = q[i].at}
<1>1. DOMAIN q = 1 .. Len(q) /\ Len(q) \in Nat
  BY LenProperties
<1>2. ASSUME NEW j \in 1 .. Len(q), q[j].at = q[i].at
      PROVE  j = i
  <2>1. q[i].at \in Coordinates(t)
    <3>1. q[i] \in Component(t)
      BY ElementOfSeq
    <3>2. QED
      BY <3>1 DEF Component
  <2>2. ~Less(Order[t], q[i].at, q[i].at)
    BY <2>1, LessIsOrder
  <2>3. ~(j < i) /\ ~(i < j)
    BY <1>2, <2>2 DEF StrictlyAscending
  <2>4. QED
    BY <2>3
<1>3. places = {i}
  BY <1>1, <1>2
<1>4. Max({i}) = i
  BY DEF Max
<1>5. QED
  BY <1>3, <1>4 DEF StoredAt

\* A coordinate that is not there has the value 0.
LEMMA StoredAtNot ==
    ASSUME NEW q, NEW c, \A i \in DOMAIN q : q[i].at # c
    PROVE  StoredAt(q, c) = 0
BY DEF StoredAt

\* What "pack" leaves in dense levels.
LEMMA KernelDense ==
    ASSUME NEW t \in Tensors, NEW q \in Seq(Component(t)), t \in Dense
    PROVE  /\ PackKernel(t, q) \in Seq(Component(t))
           /\ Len(PackKernel(t, q)) = Len(Positions(t))
           /\ \A i \in 1 .. Len(Positions(t)) :
                 /\ PackKernel(t, q)[i].at = Positions(t)[i]
                 /\ PackKernel(t, q)[i].val = StoredAt(Merged(q), Positions(t)[i])
<1>1. PICK s \in Seq(Coordinates(t)) : s = Positions(t)
  BY PositionsAreRight DEF PositionsRight
<1>2. PICK m \in Seq(Component(t)) : m = Merged(q)
  BY MergedType
<1>3. DOMAIN s = 1 .. Len(s) /\ Len(s) \in Nat
  BY LenProperties
<1> DEFINE x(i) == [at |-> s[i], val |-> StoredAt(m, s[i])]
<1>4. PackKernel(t, q) = [i \in 1 .. Len(s) |-> x(i)]
  BY <1>1, <1>2, <1>3 DEF PackKernel
<1>5. \A i \in 1 .. Len(s) : x(i) \in Component(t)
  <2>1. TAKE i \in 1 .. Len(s)
  <2>2. s[i] \in Coordinates(t)
    BY ElementOfSeq
  <2>3. StoredAt(m, s[i]) \in Nat
    BY StoredAtType
  <2>4. QED
    BY <2>2, <2>3 DEF Component
<1>6. PICK k : k = PackKernel(t, q)
  OBVIOUS
<1>7. k \in [1 .. Len(s) -> Component(t)]
  BY <1>4, <1>5, <1>6
<1>8. k \in Seq(Component(t)) /\ Len(k) = Len(s)
  BY <1>3, <1>7, IsSeq
<1>9. \A i \in 1 .. Len(s) : k[i].at = s[i] /\ k[i].val = StoredAt(m, s[i])
  BY <1>4, <1>6
<1>10. QED
  BY <1>1, <1>2, <1>6, <1>8, <1>9

LEMMA KernelSparse ==
    ASSUME NEW t \in Tensors, NEW q \in Seq(Component(t)), t \notin Dense
    PROVE  PackKernel(t, q) = Merged(q)
BY DEF PackKernel

LEMMA KernelType ==
    ASSUME NEW t \in Tensors, NEW q \in Seq(Component(t))
    PROVE  PackKernel(t, q) \in Seq(Component(t))
<1>1. CASE t \in Dense
  BY <1>1, KernelDense
<1>2. CASE t \notin Dense
  BY <1>2, KernelSparse, MergedType
<1>3. QED
  BY <1>1, <1>2

LEMMA KernelAscends ==
    ASSUME NEW t \in Tensors, NEW q \in Seq(Component(t)), Ascending(t, q)
    PROVE  StrictlyAscending(t, PackKernel(t, q))
<1>1. CASE t \in Dense
  <2>1. PICK k : k = PackKernel(t, q)
    OBVIOUS
  <2>2. PICK s : s = Positions(t)
    OBVIOUS
  <2>3. Len(k) = Len(s) /\ \A i \in 1 .. Len(s) : k[i].at = s[i]
    BY <1>1, <2>1, <2>2, KernelDense
  <2>4. \A i, j \in 1 .. Len(s) : i < j => Less(Order[t], s[i], s[j])
    BY <2>2, PositionsAreRight DEF PositionsRight
  <2>5. StrictlyAscending(t, k)
    BY <2>3, <2>4 DEF StrictlyAscending
  <2>6. QED
    BY <2>1, <2>5
<1>2. CASE t \notin Dense
  BY <1>2, KernelSparse, MergedAscends
<1>3. QED
  BY <1>1, <1>2

\* s is q in another order, the one that p gives.
Rearranged(q, p, s) ==
    /\ p \in Bijection(1 .. Len(q), 1 .. Len(q))
    /\ Len(s) = Len(q)
    /\ \A i \in 1 .. Len(q) : s[i] = q[p[i]]

\* What the sort leaves.
LEMMA SortsAre ==
    ASSUME NEW t \in Tensors, NEW q \in Seq(Component(t)), NEW width \in Nat,
           NEW s \in Sorts(t, q, width)
    PROVE  /\ s \in Seq(Component(t))
           /\ \E p : Rearranged(q, p, s)
           /\ width >= Order[t] => Ascending(t, s)
<1>1. DOMAIN q = 1 .. Len(q) /\ Len(q) \in Nat
  BY LenProperties
<1>2. PICK n : n = LeastOf(width, Order[t])
  OBVIOUS
<1>3. PICK p \in Bijection(1 .. Len(q), 1 .. Len(q)) :
         /\ \A i, j \in 1 .. Len(q) : i < j => ~Less(n, q[p[j]].at, q[p[i]].at)
         /\ s = [i \in 1 .. Len(q) |-> q[p[i]]]
  BY <1>1, <1>2 DEF Sorts
<1>4. p \in [1 .. Len(q) -> 1 .. Len(q)]
  BY DEF Bijection, Injection, Surjection
<1>5. s \in [1 .. Len(q) -> Component(t)]
  <2>1. \A i \in 1 .. Len(q) : q[p[i]] \in Component(t)
    BY <1>4, ElementOfSeq
  <2>2. QED
    BY <1>3, <2>1
<1>6. s \in Seq(Component(t)) /\ Len(s) = Len(q)
  BY <1>1, <1>5, IsSeq
<1>7. \A i \in 1 .. Len(q) : s[i] = q[p[i]]
  BY <1>3
<1>8. Rearranged(q, p, s)
  BY <1>3, <1>6, <1>7 DEF Rearranged
<1>9. ASSUME width >= Order[t] PROVE Ascending(t, s)
  <2>1. Order[t] \in Nat
    BY PackAssumption
  <2>2. n = Order[t]
    BY <1>2, <1>9, <2>1 DEF LeastOf
  <2>3. QED
    BY <1>3, <1>6, <1>7, <2>2 DEF Ascending
<1>10. QED
  BY <1>6, <1>8, <1>9

(***************************************************************************)
(* The iterator.                                                           *)
(***************************************************************************)
\* it is an iterator over the list st that has begun: its chunk is a part of
\* st, with the coordinates in the order of the dimensions, and it is empty
\* only at the end.
IterOk(t, st, it) ==
    /\ it \in [ctx : Nat, chunk : Seq(Component(t)), pos : Nat]
    /\ it.ctx <= Len(st)
    /\ Len(it.chunk) <= it.ctx
    /\ Len(it.chunk) <= Capacity
    /\ \A i \in 1 .. Len(it.chunk) :
          it.chunk[i] = Turned(t, st[it.ctx - Len(it.chunk) + i])
    /\ it.chunk = <<>> => it.pos = 0 /\ it.ctx = Len(st)
    /\ it.chunk # <<>> => it.pos < Len(it.chunk)

\* How many components the iterator has gone past.
Done(it) == it.ctx - Len(it.chunk) + it.pos

LEMMA FilledOk ==
    ASSUME NEW t \in Tensors, storage[t] \in Seq(Component(t)), NEW it,
           it.ctx \in 0 .. Len(storage[t])
    PROVE  IterOk(t, storage[t], Filled(t, it)) /\ Done(Filled(t, it)) = it.ctx
<1>1. PICK st \in Seq(Component(t)) : st = storage[t]
  OBVIOUS
<1>2. PICK from \in Nat : from = it.ctx /\ from <= Len(st)
  BY <1>1
<1>3. PICK end : end = LeastOf(from + Capacity, Len(st))
  OBVIOUS
<1>4. Capacity \in Nat /\ Capacity > 0 /\ Len(st) \in Nat
  BY PackAssumption
<1>5. /\ end \in Nat /\ from <= end /\ end <= Len(st) /\ end <= from + Capacity
      /\ end = from => end = Len(st)
  BY <1>2, <1>3, <1>4 DEF LeastOf
<1>6. PICK sub : sub = SubSeq(st, from + 1, end)
  OBVIOUS
<1>7. /\ sub \in Seq(Component(t)) /\ Len(sub) = end - from
      /\ \A i \in 1 .. end - from : sub[i] = st[from + i]
  <2>1. \A i \in from + 1 .. end : st[i] \in Component(t)
    BY <1>2, <1>5, ElementOfSeq
  <2>2. /\ sub \in Seq(Component(t))
        /\ Len(sub) = IF from + 1 <= end THEN end - (from + 1) + 1 ELSE 0
        /\ \A i \in 1 .. end - (from + 1) + 1 : sub[i] = st[(from + 1) + i - 1]
    <3>1. PICK m \in Int : m = from + 1
      OBVIOUS
    <3>2. PICK n \in Int : n = end
      BY <1>5
    <3>3. \A i \in m .. n : st[i] \in Component(t)
      BY <2>1, <3>1, <3>2
    <3>4. /\ SubSeq(st, m, n) \in Seq(Component(t))
          /\ Len(SubSeq(st, m, n)) = IF m <= n THEN n - m + 1 ELSE 0
          /\ \A i \in 1 .. n - m + 1 : SubSeq(st, m, n)[i] = st[m + i - 1]
      BY <3>3, SubSeqProperties
    <3>5. QED
      BY <1>6, <3>1, <3>2, <3>4, Zenon
  <2>3. Len(sub) = end - from /\ end - (from + 1) + 1 = end - from
    BY <1>2, <1>5, <2>2
  <2>4. \A i \in 1 .. end - from : (from + 1) + i - 1 = from + i
    BY <1>2
  <2>5. \A i \in 1 .. end - from : sub[i] = st[from + i]
    BY <2>2, <2>3, <2>4
  <2>6. QED
    BY <2>2, <2>3, <2>5
<1>8. PICK ch : ch = PermutedAll(t, sub)
  OBVIOUS
<1>9. /\ ch \in Seq(Component(t)) /\ Len(ch) = end - from
      /\ \A i \in 1 .. end - from : ch[i] = Turned(t, st[from + i])
  BY <1>7, <1>8, PermutedAllType
<1>10. PICK new : new = Filled(t, it)
  OBVIOUS
<1>11. new = [ctx |-> end, chunk |-> ch, pos |-> 0]
  BY <1>1, <1>2, <1>3, <1>6, <1>8, <1>10 DEF Filled
<1>12. new.ctx = end /\ new.chunk = ch /\ new.pos = 0
       /\ new \in [ctx : Nat, chunk : Seq(Component(t)), pos : Nat]
  BY <1>5, <1>9, <1>11
<1>13. Len(ch) \in Nat /\ end - Len(ch) = from /\ Len(ch) <= end /\ Len(ch) <= Capacity
  BY <1>4, <1>5, <1>9
<1>14. ch = <<>> => end = Len(st)
  <2>1. ch = <<>> => Len(ch) = 0
    BY EmptySeq
  <2>2. QED
    BY <1>2, <1>5, <1>9, <2>1
<1>15. ch # <<>> => 0 < Len(ch)
  BY <1>9, EmptySeq
<1>16. \A i \in 1 .. Len(ch) : ch[i] = Turned(t, st[end - Len(ch) + i])
  BY <1>9, <1>13
<1>17. IterOk(t, st, new)
  BY <1>5, <1>12, <1>13, <1>14, <1>15, <1>16 DEF IterOk
<1>18. Done(new) = from
  BY <1>2, <1>12, <1>13 DEF Done
<1>19. QED
  BY <1>1, <1>2, <1>10, <1>17, <1>18

LEMMA BeginOk ==
    ASSUME NEW t \in Tensors, storage[t] \in Seq(Component(t))
    PROVE  /\ IterOk(t, storage[t], Advanced(t, NoIterator))
           /\ Done(Advanced(t, NoIterator)) = 0
<1>1. NoIterator.ctx = 0 /\ NoIterator.pos = 0 /\ NoIterator.chunk = <<>>
  BY DEF NoIterator
<1>2. NoIterator.pos + 1 >= Len(NoIterator.chunk)
  BY <1>1, EmptySeq
<1>3. Advanced(t, NoIterator) = Filled(t, NoIterator)
  BY <1>2 DEF Advanced
<1>4. NoIterator.ctx \in 0 .. Len(storage[t])
  <2>1. Len(storage[t]) \in Nat
    BY LenProperties
  <2>2. QED
    BY <1>1, <2>1
<1>5. QED
  BY <1>1, <1>3, <1>4, FilledOk

LEMMA AdvancedOk ==
    ASSUME NEW t \in Tensors, storage[t] \in Seq(Component(t)), NEW it,
           IterOk(t, storage[t], it), it.chunk # <<>>
    PROVE  /\ IterOk(t, storage[t], Advanced(t, it))
           /\ Done(Advanced(t, it)) = Done(it) + 1
           /\ Done(it) \in Nat /\ Done(it) < Len(storage[t])
           /\ it.chunk[it.pos + 1] = Turned(t, storage[t][Done(it) + 1])
<1>1. PICK st \in Seq(Component(t)) : st = storage[t]
  OBVIOUS
<1>2. PICK ctx \in Nat, ch \in Seq(Component(t)), pos \in Nat :
         ctx = it.ctx /\ ch = it.chunk /\ pos = it.pos
  BY DEF IterOk
<1>3. PICK n \in Nat : n = Len(ch)
  BY LenProperties
<1>4. /\ ctx <= Len(st) /\ n <= ctx /\ n <= Capacity /\ pos < n
      /\ \A i \in 1 .. n : ch[i] = Turned(t, st[ctx - n + i])
  BY <1>1, <1>2, <1>3 DEF IterOk
<1>5. Done(it) = ctx - n + pos
  BY <1>2, <1>3 DEF Done
<1>6. Done(it) \in Nat /\ Done(it) < Len(st)
  BY <1>4, <1>5
<1>7. ch[pos + 1] = Turned(t, st[Done(it) + 1])
  <2>1. pos + 1 \in 1 .. n /\ ctx - n + (pos + 1) = Done(it) + 1
    BY <1>4, <1>5
  <2>2. QED
    BY <1>4, <2>1
<1>8. CASE pos + 1 >= n
  <2>1. Advanced(t, it) = Filled(t, it)
    BY <1>2, <1>3, <1>8 DEF Advanced
  <2>2. it.ctx \in 0 .. Len(storage[t])
    BY <1>1, <1>2, <1>4
  <2>3. IterOk(t, storage[t], Filled(t, it)) /\ Done(Filled(t, it)) = it.ctx
    BY <2>2, FilledOk
  <2>4. it.ctx = Done(it) + 1
    <3>1. pos < n
      BY <1>4
    <3>2. ctx - n + pos + 1 = ctx
      BY <1>8, <3>1
    <3>3. QED
      BY <1>2, <1>5, <3>2
  <2>5. QED
    BY <1>1, <1>2, <1>6, <1>7, <2>1, <2>3, <2>4
<1>9. CASE ~(pos + 1 >= n)
  <2>1. PICK new : new = Advanced(t, it)
    OBVIOUS
  <2>2. new = [it EXCEPT !.pos = @ + 1]
    BY <1>2, <1>3, <1>9, <2>1 DEF Advanced
  <2>3. /\ new \in [ctx : Nat, chunk : Seq(Component(t)), pos : Nat]
        /\ new.ctx = ctx /\ new.chunk = ch /\ new.pos = pos + 1
    <3>1. it \in [ctx : Nat, chunk : Seq(Component(t)), pos : Nat]
      BY DEF IterOk
    <3>2. QED
      BY <1>2, <2>2, <3>1
  <2>4. ch # <<>> /\ pos + 1 < n
    BY <1>2, <1>9
  <2>5. IterOk(t, st, new)
    BY <1>3, <1>4, <2>3, <2>4 DEF IterOk
  <2>6. Done(new) = Done(it) + 1
    BY <1>3, <1>5, <2>3 DEF Done
  <2>7. QED
    BY <1>1, <1>2, <1>6, <1>7, <2>1, <2>5, <2>6
<1>10. QED
  BY <1>8, <1>9

(***************************************************************************)
(* The invariant of one tensor and its thread.                             *)
(***************************************************************************)
Places == {"idle", "lookup", "compile", "begin", "loop", "read", "pack", "sort"}

Shape ==
    /\ DOMAIN buffer = Tensors /\ DOMAIN storage = Tensors
    /\ DOMAIN iter = Tensors /\ DOMAIN seen = Tensors
    /\ used \in [Tensors -> Nat]
    /\ neverPacked \in [Tensors -> BOOLEAN]
    /\ needsPack \in [Tensors -> BOOLEAN]
    /\ pc \in [Tensors -> Places]
    /\ call \in [Tensors -> {"none", "pack", "iterate"}]
    /\ goal \in [Tensors -> {"none", "reinsert", "pack", "read"}]
    /\ numIntegersToCompare \in 0 .. 2
    /\ narrowest \in [Tensors -> Nat]
    /\ program \in Programs

Typed(t) ==
    /\ buffer[t] \in Seq(Component(t))
    /\ storage[t] \in Seq(Component(t))
    /\ seen[t] \in Seq(Component(t))

\* Where a thread can be, and what it wants there.
Control(t) ==
    /\ pc[t] \in {"idle", "read"} => goal[t] = "none"
    /\ pc[t] \in {"lookup", "compile"} => goal[t] # "none"
    /\ pc[t] \in {"begin", "loop"} => goal[t] \in {"reinsert", "read"}
    /\ pc[t] \in {"pack", "sort"} => goal[t] = "pack"
    /\ pc[t] = "sort" => Order[t] > 0
    /\ pc[t] # "idle" => ~needsPack[t]
    /\ neverPacked[t] => needsPack[t]
    /\ pc[t] # "loop" => iter[t] = NoIterator

\* The used part is inside the buffer, and empty when pack() is done.
Room(t) ==
    /\ Order[t] > 0 \/ neverPacked[t] => used[t] <= Len(buffer[t])
    /\ Order[t] > 0 /\ ~needsPack[t] /\ goal[t] \notin {"pack", "reinsert"}
          => used[t] = 0

Iterating(t) == pc[t] = "loop" => IterOk(t, storage[t], iter[t])

\* What the client's loop has read are the components its iterator is past.
Reading(t) ==
    /\ pc[t] = "loop" /\ goal[t] = "read" =>
          /\ Len(seen[t]) = Done(iter[t])
          /\ \A i \in 1 .. Len(seen[t]) : seen[t][i] = Turned(t, storage[t][i])
    /\ pc[t] = "read" => seen[t] = PermutedAll(t, storage[t])

Local(t) == Typed(t) /\ Control(t) /\ Room(t) /\ Iterating(t) /\ Reading(t)

PackInvariant == Shape /\ \A t \in Tensors : Local(t)

\* A step leaves tensor u and its thread alone.
Same(u) ==
    /\ buffer'[u] = buffer[u] /\ used'[u] = used[u]
    /\ neverPacked'[u] = neverPacked[u] /\ needsPack'[u] = needsPack[u]
    /\ storage'[u] = storage[u] /\ seen'[u] = seen[u]
    /\ pc'[u] = pc[u] /\ goal'[u] = goal[u] /\ iter'[u] = iter[u]

LEMMA SameLocal ==
    ASSUME NEW u, Local(u), Same(u)
    PROVE  Local(u)'
<1>1. Typed(u)'
  BY DEF Local, Typed, Same
<1>2. Control(u)'
  BY DEF Local, Control, Same
<1>3. Room(u)'
  BY DEF Local, Room, Same
<1>4. Iterating(u)'
  BY DEF Local, Iterating, Same
<1>5. Reading(u)'
  BY DEF Local, Reading, Same
<1>6. QED
  BY <1>1, <1>2, <1>3, <1>4, <1>5 DEF Local

\* A step of the thread of t.
StepOf(t) == Shape' /\ Local(t)' /\ \A u \in Tensors \ {t} : Same(u)

LEMMA StepKeeps ==
    ASSUME PackInvariant, NEW t \in Tensors, StepOf(t)
    PROVE  PackInvariant'
<1>1. \A u \in Tensors \ {t} : Local(u)'
  BY SameLocal DEF PackInvariant, StepOf
<1>2. QED
  BY <1>1 DEF PackInvariant, StepOf

LEMMA ProgramTensors ==
    ASSUME Shape, NEW t \in program
    PROVE  t \in Tensors
BY PackAssumption DEF Shape

LEMMA ZeroedType ==
    ASSUME NEW t \in Tensors
    PROVE  Zeroed(t) \in Component(t)
<1>1. 1 \in 1 .. Dimension
  BY PackAssumption
<1>2. [i \in 1 .. Order[t] |-> 1] \in Coordinates(t)
  BY <1>1 DEF Coordinates
<1>3. QED
  BY <1>2 DEF Zeroed, Component

\* insertUnsynced() adds one component behind the used part, inside the
\* buffer when the used part is.
LEMMA InsertsOne ==
    ASSUME Shape, NEW t \in Tensors, buffer[t] \in Seq(Component(t)),
           NEW x \in Component(t), InsertUnsynced(t, x)
    PROVE  /\ DOMAIN buffer' = Tensors /\ used' \in [Tensors -> Nat]
           /\ buffer'[t] \in Seq(Component(t)) /\ used'[t] = used[t] + 1
           /\ \A u \in Tensors \ {t} : buffer'[u] = buffer[u] /\ used'[u] = used[u]
           /\ used[t] <= Len(buffer[t]) =>
                 /\ used'[t] <= Len(buffer'[t])
                 /\ SubSeq(buffer'[t], 1, used'[t]) =
                       Append(SubSeq(buffer[t], 1, used[t]), x)
<1>1. PICK b \in Seq(Component(t)) : b = buffer[t]
  OBVIOUS
<1>2. PICK n \in Nat : n = used[t]
  BY DEF Shape
<1>3. Zeroed(t) \in Component(t)
  BY ZeroedType
<1>4. PICK room : room = IF NoRoom(t) THEN Append(b, Zeroed(t)) ELSE b
  OBVIOUS
<1>5. PICK new : new = IF n < Len(room) THEN [room EXCEPT ![n + 1] = x] ELSE room
  OBVIOUS
<1>6. buffer' = [buffer EXCEPT ![t] = new] /\ used' = [used EXCEPT ![t] = n + 1]
  BY <1>1, <1>2, <1>4, <1>5 DEF InsertUnsynced
<1>7. /\ room \in Seq(Component(t)) /\ Len(b) \in Nat
      /\ Len(room) = IF Len(b) = n THEN Len(b) + 1 ELSE Len(b)
      /\ \A i \in 1 .. Len(b) : room[i] = b[i]
  <2>1. Len(b) \in Nat
    OBVIOUS
  <2>2. NoRoom(t) <=> Len(b) = n
    BY <1>1, <1>2 DEF NoRoom
  <2>3. CASE NoRoom(t)
    BY <1>3, <1>4, <2>1, <2>2, <2>3, AppendProperties
  <2>4. CASE ~NoRoom(t)
    BY <1>4, <2>1, <2>2, <2>4
  <2>5. QED
    BY <2>3, <2>4
<1>8. /\ new \in Seq(Component(t)) /\ Len(new) = Len(room)
      /\ n < Len(room) => \A i \in 1 .. Len(room) :
                              new[i] = IF i = n + 1 THEN x ELSE room[i]
  <2>1. CASE n < Len(room)
    <3>1. PICK k \in 1 .. Len(room) : k = n + 1
      BY <1>7, <2>1
    <3>2. new = [room EXCEPT ![k] = x]
      BY <1>5, <2>1, <3>1
    <3>3. QED
      BY <1>7, <3>1, <3>2, ExceptSeq
  <2>2. CASE ~(n < Len(room))
    BY <1>5, <1>7, <2>2
  <2>3. QED
    BY <2>1, <2>2
<1>9. buffer'[t] = new /\ used'[t] = n + 1
  BY <1>6 DEF Shape
<1>10. ASSUME n <= Len(b)
       PROVE  /\ n + 1 <= Len(new)
              /\ SubSeq(new, 1, n + 1) = Append(SubSeq(b, 1, n), x)
  <2>1. n < Len(room)
    BY <1>7, <1>10
  <2>2. n + 1 <= Len(new) /\ n + 1 <= Len(room)
    BY <1>7, <1>8, <2>1
  <2>3. new[n + 1] = x /\ \A i \in 1 .. n : new[i] = b[i]
    BY <1>7, <1>8, <1>10, <2>1
  <2>4. PICK u : u = SubSeq(new, 1, n + 1)
    OBVIOUS
  <2>5. PICK v : v = SubSeq(b, 1, n)
    OBVIOUS
  <2>6. /\ u \in Seq(Component(t)) /\ Len(u) = n + 1
        /\ \A i \in 1 .. n + 1 : u[i] = new[i]
    BY <1>8, <2>2, <2>4
  <2>7. v \in Seq(Component(t)) /\ Len(v) = n /\ \A i \in 1 .. n : v[i] = b[i]
    BY <1>10, <2>5
  <2>8. PICK w : w = Append(v, x)
    OBVIOUS
  <2>9. /\ w \in Seq(Component(t)) /\ Len(w) = n + 1 /\ w[n + 1] = x
        /\ \A i \in 1 .. n : w[i] = v[i]
    BY <2>7, <2>8, AppendProperties
  <2>10. \A i \in 1 .. n + 1 : u[i] = w[i]
    BY <2>3, <2>6, <2>7, <2>9
  <2>11. u = w
    BY <2>6, <2>9, <2>10, SeqEqual
  <2>12. QED
    BY <2>2, <2>4, <2>5, <2>8, <2>11
<1>11. DOMAIN buffer' = Tensors /\ used' \in [Tensors -> Nat]
  BY <1>6 DEF Shape
<1>12. \A u \in Tensors \ {t} : buffer'[u] = buffer[u] /\ used'[u] = used[u]
  BY <1>6 DEF Shape
<1>13. QED
  BY <1>1, <1>2, <1>8, <1>9, <1>10, <1>11, <1>12

(***************************************************************************)
(* Every step preserves the invariant, one lemma for each action.          *)
(***************************************************************************)
LEMMA InsertKeeps ==
    ASSUME PackInvariant, NEW t \in Tensors, NEW c \in Coordinates(t), Insert(t, c)
    PROVE  StepOf(t)
<1> USE DEF components, shared, threads, ghosts
<1>1. Shape /\ Local(t)
  BY DEF PackInvariant
<1>2. PICK x \in Component(t) : x = [at |-> c, val |-> 1]
  BY DEF Component
<1>3. InsertUnsynced(t, x)
  BY <1>2 DEF Insert
<1>4. /\ DOMAIN buffer' = Tensors /\ used' \in [Tensors -> Nat]
      /\ buffer'[t] \in Seq(Component(t))
      /\ \A u \in Tensors \ {t} : buffer'[u] = buffer[u] /\ used'[u] = used[u]
      /\ used[t] <= Len(buffer[t]) => used'[t] <= Len(buffer'[t])
  BY <1>1, <1>3, InsertsOne DEF Local, Typed
<1>5. Shape'
  BY <1>1, <1>4 DEF Insert, Shape
<1>6. \A u \in Tensors \ {t} : Same(u)
  BY <1>1, <1>4 DEF Insert, Shape, Same
<1>7. /\ storage'[t] = storage[t] /\ seen'[t] = seen[t] /\ iter'[t] = iter[t]
      /\ pc[t] = "idle" /\ pc'[t] = "idle" /\ goal'[t] = goal[t]
      /\ needsPack'[t] /\ neverPacked'[t] = neverPacked[t]
  BY <1>1 DEF Insert, Shape
<1>8. Typed(t)'
  BY <1>1, <1>4, <1>7 DEF Local, Typed
<1>9. Control(t)'
  BY <1>1, <1>7 DEF Local, Control
<1>10. Room(t)'
  BY <1>1, <1>4, <1>7 DEF Local, Room
<1>11. Iterating(t)' /\ Reading(t)'
  BY <1>7 DEF Iterating, Reading
<1>12. QED
  BY <1>5, <1>6, <1>8, <1>9, <1>10, <1>11 DEF StepOf, Local

LEMMA ReserveKeeps ==
    ASSUME PackInvariant, NEW t \in Tensors, Reserve(t)
    PROVE  StepOf(t)
<1> USE DEF components, shared, threads, ghosts
<1>1. Shape /\ Local(t)
  BY DEF PackInvariant
<1>2. PICK b \in Seq(Component(t)) : b = buffer[t]
  BY <1>1 DEF Local, Typed
<1>3. PICK z : z = [i \in 1 .. Spare |-> Zeroed(t)]
  OBVIOUS
<1>4. z \in Seq(Component(t)) /\ Len(z) \in Nat
  <2>1. Spare \in Nat /\ Zeroed(t) \in Component(t)
    BY PackAssumption, ZeroedType
  <2>2. z \in [1 .. Spare -> Component(t)]
    BY <1>3, <2>1
  <2>3. QED
    BY <2>1, <2>2, IsSeq
<1>5. buffer' = [buffer EXCEPT ![t] = b \o z]
  BY <1>2, <1>3 DEF Reserve
<1>6. b \o z \in Seq(Component(t)) /\ Len(b \o z) = Len(b) + Len(z) /\ Len(b) \in Nat
  BY <1>4, ConcatProperties
<1>7. DOMAIN buffer' = Tensors /\ buffer'[t] = b \o z
  BY <1>1, <1>5 DEF Shape
<1>8. Shape'
  BY <1>1, <1>7 DEF Reserve, Shape
<1>9. \A u \in Tensors \ {t} : Same(u)
  BY <1>1, <1>5 DEF Reserve, Shape, Same
<1>10. /\ storage' = storage /\ seen' = seen /\ iter' = iter /\ pc' = pc
       /\ goal' = goal /\ needsPack' = needsPack /\ neverPacked' = neverPacked
       /\ used' = used
  BY DEF Reserve
<1>11. Typed(t)' /\ Control(t)' /\ Iterating(t)' /\ Reading(t)'
  BY <1>1, <1>6, <1>7, <1>10
     DEF Local, Typed, Control, Iterating, Reading
<1>12. Room(t)'
  <2>1. used[t] \in Nat
    BY <1>1 DEF Shape
  <2>2. used[t] <= Len(b) => used[t] <= Len(b \o z)
    BY <1>4, <1>6, <2>1
  <2>3. QED
    BY <1>1, <1>2, <1>7, <1>10, <2>2 DEF Local, Room
<1>13. QED
  BY <1>8, <1>9, <1>11, <1>12 DEF StepOf, Local

LEMMA CallKeeps ==
    ASSUME PackInvariant, NEW t \in Tensors, NEW method \in {"pack", "iterate"},
           Call(t, method)
    PROVE  StepOf(t)
<1> USE DEF components, shared, threads, ghosts, Goto, BeginPack
<1>1. Shape /\ Local(t)
  BY DEF PackInvariant
<1>2. /\ buffer' = buffer /\ used' = used /\ storage' = storage /\ seen' = seen
      /\ iter' = iter /\ narrowest' = narrowest /\ program' = program
      /\ numIntegersToCompare' = numIntegersToCompare
      /\ call' = [call EXCEPT ![t] = method] /\ pc[t] = "idle"
  BY DEF Call
<1>3. PICK why \in {"pack", "reinsert", "read"} :
         /\ pc' = [pc EXCEPT ![t] = "lookup"]
         /\ goal' = [goal EXCEPT ![t] = why]
         /\ why \in {"pack", "reinsert"} \/ ~needsPack[t]
  BY DEF Call
<1>4. \/ /\ needsPack' = [needsPack EXCEPT ![t] = FALSE]
         /\ neverPacked' = [neverPacked EXCEPT ![t] = FALSE]
      \/ /\ needsPack' = needsPack /\ neverPacked' = neverPacked
         /\ ~needsPack[t]
  BY DEF Call
<1>5. Shape'
  BY <1>1, <1>2, <1>3, <1>4 DEF Shape, Places
<1>6. \A u \in Tensors \ {t} : Same(u)
  BY <1>1, <1>2, <1>3, <1>4 DEF Shape, Same
<1>7. pc'[t] = "lookup" /\ goal'[t] # "none" /\ ~needsPack'[t] /\ ~neverPacked'[t]
  BY <1>1, <1>3, <1>4 DEF Shape, Local, Control
<1>8. Room(t)'
  <2>1. goal'[t] = why
    BY <1>1, <1>3 DEF Shape
  <2>2. goal[t] = "none"
    BY <1>1, <1>2 DEF Local, Control
  <2>3. QED
    BY <1>1, <1>2, <1>3, <1>7, <2>1, <2>2 DEF Local, Room
<1>9. Typed(t)'
  BY <1>1, <1>2 DEF Local, Typed
<1>10. Control(t)'
  BY <1>1, <1>2, <1>7 DEF Local, Control
<1>11. Iterating(t)' /\ Reading(t)'
  BY <1>7 DEF Iterating, Reading
<1>12. QED
  BY <1>5, <1>6, <1>8, <1>9, <1>10, <1>11 DEF StepOf, Local

LEMMA FoundKeeps ==
    ASSUME PackInvariant, NEW t \in Tensors, pc[t] \in {"lookup", "compile"},
           Found(t), seen' = seen
    PROVE  StepOf(t)
<1> USE DEF components, shared, threads, ghosts
<1>1. Shape /\ Local(t)
  BY DEF PackInvariant
<1>2. /\ buffer' = buffer /\ used' = used /\ storage' = storage
      /\ neverPacked' = neverPacked /\ needsPack' = needsPack
      /\ iter' = iter /\ narrowest' = narrowest /\ program' = program
      /\ numIntegersToCompare' = numIntegersToCompare
      /\ call' = call /\ goal' = goal
  BY DEF Found
<1>3. pc' = [pc EXCEPT ![t] = IF goal[t] = "pack" THEN "pack" ELSE "begin"]
  BY DEF Found
<1>4. Shape'
  BY <1>1, <1>2, <1>3 DEF Shape, Places
<1>5. \A u \in Tensors \ {t} : Same(u)
  BY <1>1, <1>2, <1>3 DEF Shape, Same
<1>6. pc'[t] = IF goal[t] = "pack" THEN "pack" ELSE "begin"
  BY <1>1, <1>3 DEF Shape
<1>7. goal[t] \in {"none", "reinsert", "pack", "read"}
  BY <1>1 DEF Shape
<1>8. Typed(t)' /\ Room(t)'
  BY <1>1, <1>2 DEF Local, Typed, Room
<1>9. Control(t)'
  BY <1>1, <1>2, <1>6, <1>7 DEF Local, Control
<1>10. Iterating(t)' /\ Reading(t)'
  BY <1>6 DEF Iterating, Reading
<1>11. QED
  BY <1>4, <1>5, <1>8, <1>9, <1>10 DEF StepOf, Local

LEMMA MissKeeps ==
    ASSUME PackInvariant, NEW t \in Tensors, Miss(t)
    PROVE  StepOf(t)
<1> USE DEF components, shared, threads, ghosts
<1>1. Shape /\ Local(t)
  BY DEF PackInvariant
<1>2. /\ buffer' = buffer /\ used' = used /\ storage' = storage /\ seen' = seen
      /\ neverPacked' = neverPacked /\ needsPack' = needsPack
      /\ iter' = iter /\ narrowest' = narrowest /\ program' = program
      /\ numIntegersToCompare' = numIntegersToCompare
      /\ call' = call /\ goal' = goal
  BY DEF Miss
<1>3. pc[t] = "lookup" /\ pc' = [pc EXCEPT ![t] = "compile"]
  BY DEF Miss
<1>4. Shape'
  BY <1>1, <1>2, <1>3 DEF Shape, Places
<1>5. \A u \in Tensors \ {t} : Same(u)
  BY <1>1, <1>2, <1>3 DEF Shape, Same
<1>6. pc'[t] = "compile"
  BY <1>1, <1>3 DEF Shape
<1>7. Typed(t)' /\ Room(t)'
  BY <1>1, <1>2 DEF Local, Typed, Room
<1>8. Control(t)'
  BY <1>1, <1>2, <1>3, <1>6 DEF Local, Control
<1>9. Iterating(t)' /\ Reading(t)'
  BY <1>6 DEF Iterating, Reading
<1>10. QED
  BY <1>4, <1>5, <1>7, <1>8, <1>9 DEF StepOf, Local

LEMMA BeginKeeps ==
    ASSUME PackInvariant, NEW t \in Tensors, Begin(t)
    PROVE  StepOf(t)
<1> USE DEF components, shared, threads, ghosts
<1>1. Shape /\ Local(t)
  BY DEF PackInvariant
<1>2. /\ buffer' = buffer /\ used' = used /\ storage' = storage
      /\ neverPacked' = neverPacked /\ needsPack' = needsPack
      /\ narrowest' = narrowest /\ program' = program
      /\ numIntegersToCompare' = numIntegersToCompare
      /\ call' = call /\ goal' = goal
  BY DEF Begin
<1>3. PICK it : it = Advanced(t, NoIterator)
  OBVIOUS
<1>4. /\ pc[t] = "begin" /\ pc' = [pc EXCEPT ![t] = "loop"]
      /\ iter' = [iter EXCEPT ![t] = it] /\ seen' = [seen EXCEPT ![t] = <<>>]
  BY <1>3 DEF Begin
<1>5. IterOk(t, storage[t], it) /\ Done(it) = 0
  BY <1>1, <1>3, BeginOk DEF Local, Typed
<1>6. Shape'
  BY <1>1, <1>2, <1>4 DEF Shape, Places
<1>7. \A u \in Tensors \ {t} : Same(u)
  BY <1>1, <1>2, <1>4 DEF Shape, Same
<1>8. pc'[t] = "loop" /\ iter'[t] = it /\ seen'[t] = <<>>
  BY <1>1, <1>4 DEF Shape
<1>9. Typed(t)' /\ Room(t)'
  BY <1>1, <1>2, <1>8, EmptySeq DEF Local, Typed, Room
<1>10. Control(t)'
  BY <1>1, <1>2, <1>4, <1>8 DEF Local, Control
<1>11. Iterating(t)'
  BY <1>2, <1>5, <1>8 DEF Iterating
<1>12. Reading(t)'
  <2>1. Len(seen'[t]) = 0 /\ Done(iter'[t]) = 0
    BY <1>5, <1>8, EmptySeq
  <2>2. QED
    BY <1>8, <2>1 DEF Reading
<1>13. QED
  BY <1>6, <1>7, <1>9, <1>10, <1>11, <1>12 DEF StepOf, Local

LEMMA StepKeepsLocal ==
    ASSUME PackInvariant, NEW t \in Tensors, Step(t)
    PROVE  StepOf(t)
<1> USE DEF components, shared, threads, ghosts
<1>1. Shape /\ Local(t)
  BY DEF PackInvariant
<1>2. /\ storage' = storage /\ neverPacked' = neverPacked /\ needsPack' = needsPack
      /\ narrowest' = narrowest /\ program' = program /\ pc' = pc
      /\ numIntegersToCompare' = numIntegersToCompare
      /\ call' = call /\ goal' = goal /\ pc[t] = "loop"
  BY DEF Step
<1>3. PICK it : it = iter[t]
  OBVIOUS
<1>4. PICK new : new = Advanced(t, it)
  OBVIOUS
<1>5. it.chunk # <<>> /\ iter' = [iter EXCEPT ![t] = new]
  BY <1>3, <1>4 DEF Step
<1>6. IterOk(t, storage[t], it)
  BY <1>1, <1>2, <1>3 DEF Local, Iterating
<1>7. PICK st \in Seq(Component(t)) : st = storage[t]
  BY <1>1 DEF Local, Typed
<1>8. PICK n \in Nat : n = Done(it) /\ n < Len(st)
  BY <1>5, <1>6, <1>7, AdvancedOk
<1>9. PICK x \in Component(t) : x = Turned(t, st[n + 1])
  <2>1. Len(st) \in Nat
    OBVIOUS
  <2>2. n + 1 \in 1 .. Len(st)
    BY <1>8, <2>1
  <2>3. st[n + 1] \in Component(t)
    BY <2>2, ElementOfSeq
  <2>4. QED
    BY <2>3, TurnedType
<1>10. /\ IterOk(t, storage[t], new) /\ Done(new) = n + 1
       /\ it.chunk[it.pos + 1] = x
  BY <1>4, <1>5, <1>6, <1>7, <1>8, <1>9, AdvancedOk
<1>11. Current(t) = x
  BY <1>3, <1>10 DEF Current
<1>12. iter'[t] = new /\ DOMAIN iter' = Tensors
       /\ \A u \in Tensors \ {t} : iter'[u] = iter[u]
  BY <1>1, <1>5 DEF Shape
<1>13. Iterating(t)'
  BY <1>2, <1>10, <1>12 DEF Iterating
<1>14. Control(t)'
  BY <1>1, <1>2, <1>12 DEF Local, Control
<1>15. CASE /\ goal[t] = "reinsert" /\ InsertUnsynced(t, x) /\ seen' = seen
  <2>1. /\ DOMAIN buffer' = Tensors /\ used' \in [Tensors -> Nat]
        /\ buffer'[t] \in Seq(Component(t))
        /\ \A u \in Tensors \ {t} : buffer'[u] = buffer[u] /\ used'[u] = used[u]
        /\ used[t] <= Len(buffer[t]) => used'[t] <= Len(buffer'[t])
    BY <1>1, <1>15, InsertsOne DEF Local, Typed
  <2>2. Shape'
    BY <1>1, <1>2, <1>12, <1>15, <2>1 DEF Shape
  <2>3. \A u \in Tensors \ {t} : Same(u)
    BY <1>2, <1>12, <1>15, <2>1 DEF Same
  <2>4. Typed(t)' /\ Room(t)'
    BY <1>1, <1>2, <1>15, <2>1 DEF Local, Typed, Room
  <2>5. Reading(t)'
    BY <1>2, <1>15 DEF Reading
  <2>6. QED
    BY <1>13, <1>14, <2>2, <2>3, <2>4, <2>5 DEF StepOf, Local
<1>16. CASE /\ goal[t] = "read" /\ seen' = [seen EXCEPT ![t] = Append(@, x)]
            /\ buffer' = buffer /\ used' = used
  <2>1. PICK s \in Seq(Component(t)) : s = seen[t]
    BY <1>1 DEF Local, Typed
  <2>2. PICK s1 : s1 = Append(s, x)
    OBVIOUS
  <2>3. seen'[t] = s1 /\ DOMAIN seen' = Tensors
        /\ \A u \in Tensors \ {t} : seen'[u] = seen[u]
    BY <1>1, <1>16, <2>1, <2>2 DEF Shape
  <2>4. Len(s) = n /\ \A i \in 1 .. n : s[i] = Turned(t, st[i])
    BY <1>1, <1>2, <1>3, <1>7, <1>8, <1>16, <2>1 DEF Local, Reading
  <2>5. /\ s1 \in Seq(Component(t)) /\ Len(s1) = n + 1 /\ s1[n + 1] = x
        /\ \A i \in 1 .. n : s1[i] = s[i]
    BY <2>2, <2>4, AppendProperties
  <2>6. \A i \in 1 .. n + 1 : s1[i] = Turned(t, st[i])
    BY <1>9, <2>4, <2>5
  <2>7. Shape'
    BY <1>1, <1>2, <1>12, <1>16, <2>3 DEF Shape
  <2>8. \A u \in Tensors \ {t} : Same(u)
    BY <1>2, <1>12, <1>16, <2>3 DEF Same
  <2>9. Typed(t)' /\ Room(t)'
    BY <1>1, <1>2, <1>16, <2>3, <2>5 DEF Local, Typed, Room
  <2>10. Reading(t)'
    BY <1>2, <1>7, <1>10, <1>12, <2>3, <2>5, <2>6 DEF Reading
  <2>11. QED
    BY <1>13, <1>14, <2>7, <2>8, <2>9, <2>10 DEF StepOf, Local
<1>17. QED
  BY <1>11, <1>15, <1>16 DEF Step

LEMMA EndKeeps ==
    ASSUME PackInvariant, NEW t \in Tensors, End(t)
    PROVE  StepOf(t)
<1> USE DEF components, shared, threads, ghosts, Goto
<1>1. Shape /\ Local(t)
  BY DEF PackInvariant
<1>2. /\ buffer' = buffer /\ used' = used /\ storage' = storage /\ seen' = seen
      /\ neverPacked' = neverPacked /\ needsPack' = needsPack
      /\ narrowest' = narrowest /\ program' = program
      /\ numIntegersToCompare' = numIntegersToCompare /\ call' = call
      /\ pc[t] = "loop" /\ iter[t].chunk = <<>>
      /\ iter' = [iter EXCEPT ![t] = NoIterator]
  BY DEF End
<1>3. \/ /\ goal[t] = "reinsert"
         /\ pc' = [pc EXCEPT ![t] = "lookup"] /\ goal' = [goal EXCEPT ![t] = "pack"]
      \/ /\ goal[t] = "read"
         /\ pc' = [pc EXCEPT ![t] = "read"] /\ goal' = [goal EXCEPT ![t] = "none"]
  <2>1. goal[t] \in {"reinsert", "read"}
    BY <1>1, <1>2 DEF Local, Control
  <2>2. QED
    BY <2>1 DEF End
<1>4. Shape'
  <2>1. pc' \in [Tensors -> Places]
    BY <1>1, <1>3 DEF Shape, Places
  <2>2. goal' \in [Tensors -> {"none", "reinsert", "pack", "read"}]
    BY <1>1, <1>3 DEF Shape
  <2>3. DOMAIN iter' = Tensors
    BY <1>1, <1>2 DEF Shape
  <2>4. QED
    BY <1>1, <1>2, <2>1, <2>2, <2>3 DEF Shape
<1>5. \A u \in Tensors \ {t} : Same(u)
  BY <1>1, <1>2, <1>3 DEF Shape, Same
<1>6. /\ iter'[t] = NoIterator
      /\ \/ goal[t] = "reinsert" /\ pc'[t] = "lookup" /\ goal'[t] = "pack"
         \/ goal[t] = "read" /\ pc'[t] = "read" /\ goal'[t] = "none"
  BY <1>1, <1>2, <1>3 DEF Shape
<1>7. Typed(t)' /\ Room(t)'
  BY <1>1, <1>2, <1>6 DEF Local, Typed, Room
<1>8. Control(t)'
  BY <1>1, <1>2, <1>6 DEF Local, Control
<1>9. Iterating(t)'
  BY <1>6 DEF Iterating
<1>10. Reading(t)'
  <2>1. CASE goal[t] = "reinsert"
    BY <1>6, <2>1 DEF Reading
  <2>2. CASE goal[t] = "read"
    <3>1. PICK st \in Seq(Component(t)), s \in Seq(Component(t)) :
             st = storage[t] /\ s = seen[t]
      BY <1>1 DEF Local, Typed
    <3>2. Len(s) = Done(iter[t]) /\ \A i \in 1 .. Len(s) : s[i] = Turned(t, st[i])
      BY <1>1, <1>2, <2>2, <3>1 DEF Local, Reading
    <3>3. /\ iter[t].pos = 0 /\ iter[t].ctx = Len(st) /\ Len(iter[t].chunk) = 0
      BY <1>1, <1>2, <3>1, EmptySeq DEF Local, Iterating, IterOk
    <3>4. Done(iter[t]) = Len(st)
      <4>1. Len(st) \in Nat
        OBVIOUS
      <4>2. QED
        BY <3>3, <4>1 DEF Done
    <3>5. PICK r : r = PermutedAll(t, st)
      OBVIOUS
    <3>6. /\ r \in Seq(Component(t)) /\ Len(r) = Len(st)
          /\ \A i \in 1 .. Len(st) : r[i] = Turned(t, st[i])
      BY <3>5, PermutedAllType
    <3>7. \A i \in 1 .. Len(s) : s[i] = r[i]
      BY <3>2, <3>4, <3>6
    <3>8. s = r
      BY <3>2, <3>4, <3>6, <3>7, SeqEqual
    <3>9. QED
      BY <1>2, <1>6, <2>2, <3>1, <3>5, <3>8 DEF Reading
  <2>3. QED
    BY <1>3, <2>1, <2>2
<1>11. QED
  BY <1>4, <1>5, <1>7, <1>8, <1>9, <1>10 DEF StepOf, Local

LEMMA ReturnKeeps ==
    ASSUME PackInvariant, NEW t \in Tensors, Return(t)
    PROVE  StepOf(t)
<1> USE DEF components, shared, threads, ghosts, Goto
<1>1. Shape /\ Local(t)
  BY DEF PackInvariant
<1>2. /\ buffer' = buffer /\ used' = used /\ storage' = storage
      /\ neverPacked' = neverPacked /\ needsPack' = needsPack
      /\ narrowest' = narrowest /\ program' = program /\ iter' = iter
      /\ numIntegersToCompare' = numIntegersToCompare
      /\ pc[t] = "read"
  BY DEF Return
<1>3. /\ pc' = [pc EXCEPT ![t] = "idle"] /\ goal' = [goal EXCEPT ![t] = "none"]
      /\ call' = [call EXCEPT ![t] = "none"] /\ seen' = [seen EXCEPT ![t] = <<>>]
  BY DEF Return
<1>4. Shape'
  BY <1>1, <1>2, <1>3 DEF Shape, Places
<1>5. \A u \in Tensors \ {t} : Same(u)
  BY <1>1, <1>2, <1>3 DEF Shape, Same
<1>6. pc'[t] = "idle" /\ goal'[t] = "none" /\ seen'[t] = <<>>
  BY <1>1, <1>3 DEF Shape
<1>7. Typed(t)' /\ Room(t)'
  BY <1>1, <1>2, <1>6, EmptySeq DEF Local, Typed, Room, Control
<1>8. Control(t)'
  BY <1>1, <1>2, <1>6 DEF Local, Control
<1>9. Iterating(t)' /\ Reading(t)'
  BY <1>6 DEF Iterating, Reading
<1>10. QED
  BY <1>4, <1>5, <1>7, <1>8, <1>9 DEF StepOf, Local

\* The used part of a buffer, with what may be behind its end.
LEMMA UsedPartsType ==
    ASSUME Shape, NEW t \in Tensors, Typed(t), NEW part \in UsedParts(t)
    PROVE  part \in Seq(Component(t))
<1>1. PICK b \in Seq(Component(t)), n \in Nat : b = buffer[t] /\ n = used[t]
  BY DEF Shape, Typed
<1>2. CASE n <= Len(b)
  <2>1. part = SubSeq(b, 1, n)
    BY <1>1, <1>2 DEF UsedParts
  <2>2. \A i \in 1 .. n : b[i] \in Component(t)
    BY <1>2, ElementOfSeq
  <2>3. QED
    BY <2>1, <2>2, SubSeqProperties
<1>3. CASE ~(n <= Len(b))
  <2>1. PICK m \in Nat : m = n - Len(b)
    BY <1>3
  <2>2. PICK junk \in [1 .. m -> Beyond(t)] : part = b \o junk
    BY <1>1, <1>3, <2>1 DEF UsedParts
  <2>3. Beyond(t) \subseteq Component(t)
    BY DEF Beyond, Component
  <2>4. junk \in [1 .. m -> Component(t)]
    BY <2>3
  <2>5. junk \in Seq(Component(t))
    BY <2>4, IsSeq
  <2>6. QED
    BY <2>2, <2>5, ConcatProperties
<1>4. QED
  BY <1>2, <1>3

\* The end of pack().
Finishes(t, result) ==
    /\ pc[t] \in {"pack", "sort"}
    /\ Packed(t, result)
    /\ buffer' = [buffer EXCEPT ![t] = <<>>]
    /\ \/ used' = used /\ Order[t] = 0
       \/ used' = [used EXCEPT ![t] = 0]
    /\ narrowest' \in [Tensors -> Nat] /\ numIntegersToCompare' \in 0 .. 2

LEMMA PackedKeeps ==
    ASSUME PackInvariant, NEW t \in Tensors,
           NEW result \in Seq(Component(t)), Finishes(t, result)
    PROVE  StepOf(t) /\ storage'[t] = result
<1> USE DEF components, shared, threads, ghosts, Goto
<1>1. Shape /\ Local(t)
  BY DEF PackInvariant
<1>2. /\ storage' = [storage EXCEPT ![t] = result] /\ seen' = seen
      /\ neverPacked' = neverPacked /\ needsPack' = needsPack
      /\ program' = program /\ iter' = iter
  BY DEF Finishes, Packed
<1>3. \/ /\ pc' = [pc EXCEPT ![t] = "lookup"] /\ goal' = [goal EXCEPT ![t] = "read"]
         /\ call' = call
      \/ /\ pc' = [pc EXCEPT ![t] = "idle"] /\ goal' = [goal EXCEPT ![t] = "none"]
         /\ call' = [call EXCEPT ![t] = "none"]
  BY DEF Finishes, Packed
<1>4. /\ DOMAIN buffer' = Tensors /\ used' \in [Tensors -> Nat]
      /\ narrowest' \in [Tensors -> Nat] /\ numIntegersToCompare' \in 0 .. 2
      /\ pc[t] \in {"pack", "sort"}
      /\ buffer'[t] = <<>> /\ (Order[t] = 0 \/ used'[t] = 0)
      /\ \A u \in Tensors \ {t} : buffer'[u] = buffer[u] /\ used'[u] = used[u]
  BY <1>1 DEF Shape, Finishes
<1>5. Shape'
  <2>1. pc' \in [Tensors -> Places]
    BY <1>1, <1>3 DEF Shape, Places
  <2>2. goal' \in [Tensors -> {"none", "reinsert", "pack", "read"}]
    BY <1>1, <1>3 DEF Shape
  <2>3. call' \in [Tensors -> {"none", "pack", "iterate"}]
    BY <1>1, <1>3 DEF Shape
  <2>4. DOMAIN storage' = Tensors
    BY <1>1, <1>2 DEF Shape
  <2>5. QED
    BY <1>1, <1>2, <1>4, <2>1, <2>2, <2>3, <2>4 DEF Shape
<1>6. \A u \in Tensors \ {t} : Same(u)
  BY <1>1, <1>2, <1>3, <1>4 DEF Shape, Same
<1>7. /\ storage'[t] = result /\ buffer'[t] = <<>>
      /\ \/ pc'[t] = "lookup" /\ goal'[t] = "read"
         \/ pc'[t] = "idle" /\ goal'[t] = "none"
      /\ Order[t] = 0 \/ used'[t] = 0
  BY <1>1, <1>2, <1>3, <1>4 DEF Shape
<1>8. Typed(t)'
  BY <1>1, <1>2, <1>7, EmptySeq DEF Local, Typed
<1>9. Room(t)'
  <2>1. ~neverPacked[t]
    BY <1>1, <1>4 DEF Local, Control
  <2>2. Len(buffer'[t]) = 0
    BY <1>7, EmptySeq
  <2>3. QED
    BY <1>2, <1>7, <2>1, <2>2 DEF Room
<1>10. Control(t)'
  BY <1>1, <1>2, <1>4, <1>7 DEF Local, Control
<1>11. Iterating(t)' /\ Reading(t)'
  BY <1>7 DEF Iterating, Reading
<1>12. QED
  BY <1>5, <1>6, <1>7, <1>8, <1>9, <1>10, <1>11 DEF StepOf, Local

LEMMA PackScalarKeeps ==
    ASSUME PackInvariant, NEW t \in Tensors, PackScalar(t)
    PROVE  StepOf(t)
<1> USE DEF components, shared, threads, ghosts
<1>1. Shape /\ Local(t)
  BY DEF PackInvariant
<1>2. PICK part \in UsedParts(t) :
         Packed(t, IF part = <<>> THEN <<Zeroed(t)>> ELSE Merged(part))
  BY DEF PackScalar
<1>3. PICK result : result = IF part = <<>> THEN <<Zeroed(t)>> ELSE Merged(part)
  OBVIOUS
<1>4. result \in Seq(Component(t))
  <2>1. part \in Seq(Component(t))
    BY <1>1, UsedPartsType DEF Local
  <2>2. Merged(part) \in Seq(Component(t))
    BY <2>1, MergedType
  <2>3. <<Zeroed(t)>> \in Seq(Component(t))
    BY ZeroedType
  <2>4. QED
    BY <1>3, <2>2, <2>3
<1>5. Packed(t, result)
  BY <1>2, <1>3
<1>6. /\ pc[t] \in {"pack", "sort"} /\ buffer' = [buffer EXCEPT ![t] = <<>>]
      /\ used' = used /\ Order[t] = 0
      /\ narrowest' \in [Tensors -> Nat] /\ numIntegersToCompare' \in 0 .. 2
  BY <1>1 DEF PackScalar, Shape
<1>7. Finishes(t, result)
  BY <1>5, <1>6 DEF Finishes
<1>8. QED
  BY <1>4, <1>7, PackedKeeps

LEMMA SetWidthKeeps ==
    ASSUME PackInvariant, NEW t \in Tensors, SetWidth(t)
    PROVE  StepOf(t)
<1> USE DEF components, shared, threads, ghosts
<1>1. Shape /\ Local(t)
  BY DEF PackInvariant
<1>2. /\ buffer' = buffer /\ used' = used /\ storage' = storage /\ seen' = seen
      /\ neverPacked' = neverPacked /\ needsPack' = needsPack
      /\ program' = program /\ iter' = iter /\ call' = call /\ goal' = goal
      /\ pc[t] = "pack" /\ Order[t] > 0 /\ pc' = [pc EXCEPT ![t] = "sort"]
  BY DEF SetWidth
<1>3. Order[t] \in 0 .. 2
  BY PackAssumption
<1>4. narrowest' \in [Tensors -> Nat] /\ numIntegersToCompare' \in 0 .. 2
  <2>1. \A u \in Tensors : LeastOf(narrowest[u], Order[t]) \in Nat
    BY <1>1, <1>3 DEF Shape, LeastOf
  <2>2. numIntegersToCompare' = Order[t]
    BY DEF SetWidth
  <2>3. narrowest' \in [Tensors -> Nat]
    BY <1>3, <2>1 DEF SetWidth
  <2>4. QED
    BY <1>3, <2>2, <2>3
<1>5. Shape'
  BY <1>1, <1>2, <1>4 DEF Shape, Places
<1>6. \A u \in Tensors \ {t} : Same(u)
  BY <1>1, <1>2 DEF Shape, Same
<1>7. pc'[t] = "sort"
  BY <1>1, <1>2 DEF Shape
<1>8. Typed(t)' /\ Room(t)'
  BY <1>1, <1>2 DEF Local, Typed, Room
<1>9. Control(t)'
  BY <1>1, <1>2, <1>7 DEF Local, Control
<1>10. Iterating(t)' /\ Reading(t)'
  BY <1>7 DEF Iterating, Reading
<1>11. QED
  BY <1>5, <1>6, <1>8, <1>9, <1>10 DEF StepOf, Local

LEMMA PackSortedKeeps ==
    ASSUME PackInvariant, NEW t \in Tensors, PackSorted(t)
    PROVE  StepOf(t)
<1> USE DEF components, shared, threads, ghosts
<1>1. Shape /\ Local(t)
  BY DEF PackInvariant
<1>2. PICK part \in UsedParts(t) :
         \E q \in Sorts(t, PermutedAll(t, part), narrowest[t]) :
            Packed(t, PackKernel(t, q))
  BY DEF PackSorted
<1>3. PICK q \in Sorts(t, PermutedAll(t, part), narrowest[t]) :
         Packed(t, PackKernel(t, q))
  BY <1>2
<1>4. PermutedAll(t, part) \in Seq(Component(t))
  BY <1>1, UsedPartsType, PermutedAllType DEF Local
<1>5. narrowest[t] \in Nat
  BY <1>1 DEF Shape
<1>6. q \in Seq(Component(t))
  BY <1>3, <1>4, <1>5, SortsAre
<1>7. PackKernel(t, q) \in Seq(Component(t))
  BY <1>6, KernelType
<1>8. /\ pc[t] \in {"pack", "sort"} /\ buffer' = [buffer EXCEPT ![t] = <<>>]
      /\ used' = [used EXCEPT ![t] = 0]
      /\ narrowest' \in [Tensors -> Nat] /\ numIntegersToCompare' \in 0 .. 2
  <2>1. /\ pc[t] = "sort" /\ buffer' = [buffer EXCEPT ![t] = <<>>]
        /\ used' = [used EXCEPT ![t] = 0]
        /\ narrowest' = [narrowest EXCEPT ![t] = 0]
        /\ numIntegersToCompare' = numIntegersToCompare
    BY DEF PackSorted
  <2>2. QED
    BY <1>1, <2>1 DEF Shape
<1>9. Finishes(t, PackKernel(t, q))
  BY <1>3, <1>8 DEF Finishes
<1>10. QED
  BY <1>7, <1>9, PackedKeeps

LEMMA PackInit == Init => PackInvariant
<1> SUFFICES ASSUME Init PROVE PackInvariant
  OBVIOUS
<1>1. Shape
  BY DEF Init, Shape, Places
<1>2. ASSUME NEW t \in Tensors PROVE Local(t)
  <2>1. /\ buffer[t] = <<>> /\ storage[t] = <<>> /\ seen[t] = <<>>
        /\ used[t] = 0 /\ pc[t] = "idle" /\ goal[t] = "none"
        /\ needsPack[t] /\ iter[t] = NoIterator
    BY <1>2 DEF Init
  <2>2. Typed(t)
    BY <2>1, EmptySeq DEF Typed
  <2>3. Control(t)
    BY <2>1 DEF Control
  <2>4. Room(t)
    BY <2>1, EmptySeq DEF Room
  <2>5. Iterating(t) /\ Reading(t)
    BY <2>1 DEF Iterating, Reading
  <2>6. QED
    BY <2>2, <2>3, <2>4, <2>5 DEF Local
<1>3. QED
  BY <1>1, <1>2 DEF PackInvariant

LEMMA PackNext == PackInvariant /\ [Next]_vars => PackInvariant'
<1> SUFFICES ASSUME PackInvariant, [Next]_vars PROVE PackInvariant'
  OBVIOUS
<1>1. CASE UNCHANGED vars
  <2>1. Shape'
    BY <1>1 DEF vars, components, shared, threads, ghosts, PackInvariant, Shape
  <2>2. \A u \in Tensors : Same(u)
    BY <1>1 DEF vars, components, shared, threads, ghosts, Same
  <2>3. \A u \in Tensors : Local(u)'
    BY <2>2, SameLocal DEF PackInvariant
  <2>4. QED
    BY <2>1, <2>3 DEF PackInvariant
<1>2. ASSUME NEW t \in program,
             \/ \E c \in Coordinates(t) : Insert(t, c)
             \/ Reserve(t)
             \/ \E method \in {"pack", "iterate"} : Call(t, method)
             \/ Hit(t) \/ Miss(t) \/ Enter(t)
             \/ Begin(t) \/ Step(t) \/ End(t) \/ Return(t)
             \/ PackScalar(t) \/ SetWidth(t) \/ PackSorted(t)
      PROVE  PackInvariant'
  <2>1. t \in Tensors
    BY ProgramTensors DEF PackInvariant
  <2>2. CASE \E c \in Coordinates(t) : Insert(t, c)
    BY <2>1, <2>2, InsertKeeps, StepKeeps
  <2>3. CASE Reserve(t)
    BY <2>1, <2>3, ReserveKeeps, StepKeeps
  <2>4. CASE \E method \in {"pack", "iterate"} : Call(t, method)
    BY <2>1, <2>4, CallKeeps, StepKeeps
  <2>5. CASE Hit(t)
    <3>1. pc[t] \in {"lookup", "compile"} /\ Found(t) /\ seen' = seen
      BY <2>5 DEF Hit, ghosts
    <3>2. QED
      BY <2>1, <3>1, FoundKeeps, StepKeeps
  <2>6. CASE Miss(t)
    BY <2>1, <2>6, MissKeeps, StepKeeps
  <2>7. CASE Enter(t)
    <3>1. pc[t] \in {"lookup", "compile"} /\ Found(t) /\ seen' = seen
      BY <2>7 DEF Enter, ghosts
    <3>2. QED
      BY <2>1, <3>1, FoundKeeps, StepKeeps
  <2>8. CASE Begin(t)
    BY <2>1, <2>8, BeginKeeps, StepKeeps
  <2>9. CASE Step(t)
    BY <2>1, <2>9, StepKeepsLocal, StepKeeps
  <2>10. CASE End(t)
    BY <2>1, <2>10, EndKeeps, StepKeeps
  <2>11. CASE Return(t)
    BY <2>1, <2>11, ReturnKeeps, StepKeeps
  <2>12. CASE PackScalar(t)
    BY <2>1, <2>12, PackScalarKeeps, StepKeeps
  <2>13. CASE SetWidth(t)
    BY <2>1, <2>13, SetWidthKeeps, StepKeeps
  <2>14. CASE PackSorted(t)
    BY <2>1, <2>14, PackSortedKeeps, StepKeeps
  <2>15. QED
    BY <1>2, <2>2, <2>3, <2>4, <2>5, <2>6, <2>7, <2>8, <2>9, <2>10, <2>11,
       <2>12, <2>13, <2>14
<1>3. QED
  BY <1>1, <1>2 DEF Next

\* Every tensor and its thread satisfy their invariant, whatever the other
\* threads do.
THEOREM PackInvariantHolds == Spec => []PackInvariant
BY PackInit, PackNext, PTL DEF Spec

\* The types of the components, of the iterators and of what the threads
\* share, as in TensorBase and its iterator.
THEOREM TypeOKHolds == Spec => []TypeOK
<1>1. PackInvariant => TypeOK
  <2> SUFFICES ASSUME PackInvariant PROVE TypeOK
    OBVIOUS
  <2>1. Shape
    BY DEF PackInvariant
  <2>2. ASSUME NEW t \in Tensors
        PROVE  /\ \A i \in DOMAIN buffer[t] : buffer[t][i] \in Component(t)
               /\ \A i \in DOMAIN storage[t] : storage[t][i] \in Component(t)
               /\ iter[t].pos <= Len(iter[t].chunk)
               /\ Len(iter[t].chunk) <= Capacity
               /\ Order[t] > 0 /\ ~needsPack[t]
                     /\ goal[t] \notin {"pack", "reinsert"}
                     => used[t] = 0
    <3>1. Local(t)
      BY <2>2 DEF PackInvariant
    <3>0. Order[t] > 0 /\ ~needsPack[t] /\ goal[t] \notin {"pack", "reinsert"}
             => used[t] = 0
      BY <3>1 DEF Local, Room
    <3>2. \A i \in DOMAIN buffer[t] : buffer[t][i] \in Component(t)
      BY <3>1, LenProperties, ElementOfSeq DEF Local, Typed
    <3>3. \A i \in DOMAIN storage[t] : storage[t][i] \in Component(t)
      BY <3>1, LenProperties, ElementOfSeq DEF Local, Typed
    <3>4. CASE pc[t] # "loop"
      <4>1. iter[t].pos = 0 /\ iter[t].chunk = <<>>
        BY <3>1, <3>4 DEF Local, Control, NoIterator
      <4>2. Len(iter[t].chunk) = 0 /\ Capacity \in Nat
        BY <4>1, EmptySeq, PackAssumption
      <4>3. QED
        BY <3>0, <3>2, <3>3, <4>1, <4>2
    <3>5. CASE pc[t] = "loop"
      <4>1. IterOk(t, storage[t], iter[t])
        BY <3>1, <3>5 DEF Local, Iterating
      <4>2. PICK n \in Nat, p \in Nat : n = Len(iter[t].chunk) /\ p = iter[t].pos
        BY <4>1, LenProperties DEF IterOk
      <4>3. n <= Capacity /\ (iter[t].chunk = <<>> => p = 0)
            /\ (iter[t].chunk # <<>> => p < n)
        BY <4>1, <4>2 DEF IterOk
      <4>4. p <= n
        BY <4>3
      <4>5. QED
        BY <3>0, <3>2, <3>3, <4>2, <4>3, <4>4
    <3>6. QED
      BY <3>4, <3>5
  <2>3. QED
    BY <2>1, <2>2 DEF TypeOK, Shape, Places
<1>2. QED
  BY <1>1, PackInvariantHolds, PTL

\* insertUnsynced() writes inside the buffer, except in a scalar that was
\* packed.
THEOREM WritesInsideHolds == Spec => []WritesInside
<1>1. PackInvariant => WritesInside
  BY DEF PackInvariant, Local, Room, WritesInside
<1>2. QED
  BY <1>1, PackInvariantHolds, PTL

\* A loop over the iterator reads every stored component once and in order,
\* however the capacity divides their number.
THEOREM LoopReadsAllHolds == Spec => []LoopReadsAll
<1>1. PackInvariant => LoopReadsAll
  BY DEF PackInvariant, Local, Reading, LoopReadsAll
<1>2. QED
  BY <1>1, PackInvariantHolds, PTL

(***************************************************************************)
(* The sort.  All threads that sort set the same global width before they  *)
(* do; as long as the tensors that are used at the same time have the same *)
(* order (scalars aside, which are not sorted), no sort reads too small a  *)
(* width.                                                                  *)
(***************************************************************************)
SameOrders ==
    \A P \in Programs : \A t, u \in P :
        Order[t] > 0 /\ Order[u] > 0 => Order[t] = Order[u]

Wide(t) ==
    /\ pc[t] # "idle" => t \in program
    /\ pc[t] = "sort" => narrowest[t] >= Order[t]

Sorted(t) == StrictlyAscending(t, storage[t])

SortInvariant == PackInvariant /\ \A t \in Tensors : Wide(t) /\ Sorted(t)

\* What pack() stores of a scalar, and of a tensor that it sorts.
LEMMA PackScalarStores ==
    ASSUME PackInvariant, NEW t \in Tensors, PackScalar(t)
    PROVE  \E part \in UsedParts(t) :
              /\ part \in Seq(Component(t))
              /\ storage'[t] = IF part = <<>> THEN <<Zeroed(t)>> ELSE Merged(part)
<1>1. Shape /\ Local(t)
  BY DEF PackInvariant
<1>2. PICK part \in UsedParts(t) :
         Packed(t, IF part = <<>> THEN <<Zeroed(t)>> ELSE Merged(part))
  BY DEF PackScalar
<1>3. storage'[t] = IF part = <<>> THEN <<Zeroed(t)>> ELSE Merged(part)
  BY <1>1, <1>2 DEF Packed, Shape
<1>4. part \in Seq(Component(t))
  BY <1>1, UsedPartsType DEF Local
<1>5. QED
  BY <1>3, <1>4

LEMMA PackSortedStores ==
    ASSUME PackInvariant, NEW t \in Tensors, PackSorted(t)
    PROVE  \E part \in UsedParts(t) : \E q \in Seq(Component(t)) : \E p :
              /\ part \in Seq(Component(t))
              /\ Rearranged(PermutedAll(t, part), p, q)
              /\ narrowest[t] >= Order[t] => Ascending(t, q)
              /\ storage'[t] = PackKernel(t, q)
<1>1. Shape /\ Local(t)
  BY DEF PackInvariant
<1>2. PICK part \in UsedParts(t) :
         \E q \in Sorts(t, PermutedAll(t, part), narrowest[t]) :
            Packed(t, PackKernel(t, q))
  BY DEF PackSorted
<1>3. PICK q \in Sorts(t, PermutedAll(t, part), narrowest[t]) :
         Packed(t, PackKernel(t, q))
  BY <1>2
<1>4. part \in Seq(Component(t))
  BY <1>1, UsedPartsType DEF Local
<1>5. PermutedAll(t, part) \in Seq(Component(t))
  BY <1>4, PermutedAllType
<1>6. narrowest[t] \in Nat
  BY <1>1 DEF Shape
<1>7. /\ q \in Seq(Component(t)) /\ \E p : Rearranged(PermutedAll(t, part), p, q)
      /\ narrowest[t] >= Order[t] => Ascending(t, q)
  BY <1>3, <1>5, <1>6, SortsAre
<1>8. storage'[t] = PackKernel(t, q)
  BY <1>1, <1>3 DEF Packed, Shape
<1>9. QED
  BY <1>4, <1>7, <1>8

LEMMA ZeroedAscends ==
    ASSUME NEW t
    PROVE  StrictlyAscending(t, <<Zeroed(t)>>)
<1>1. PICK z : z = <<Zeroed(t)>>
  OBVIOUS
<1>2. Len(z) = 1
  BY <1>1
<1>3. StrictlyAscending(t, z)
  BY <1>2 DEF StrictlyAscending
<1>4. QED
  BY <1>1, <1>3

\* A step of t that changes no storage, no width and no other tensor.
LEMMA QuietSort ==
    ASSUME SortInvariant, NEW t \in program, t \in Tensors, StepOf(t),
           storage' = storage, narrowest' = narrowest, program' = program,
           pc'[t] # "sort"
    PROVE  SortInvariant'
<1>1. PackInvariant'
  BY StepKeeps DEF SortInvariant
<1>2. \A u \in Tensors : Sorted(u)'
  BY DEF SortInvariant, Sorted
<1>3. \A u \in Tensors : Wide(u)'
  BY DEF SortInvariant, Wide, StepOf, Same
<1>4. QED
  BY <1>1, <1>2, <1>3 DEF SortInvariant

\* A step of t that packs it.
LEMMA PackSort ==
    ASSUME SortInvariant, NEW t \in program, t \in Tensors, StepOf(t),
           StrictlyAscending(t, storage'[t]), program' = program,
           \A u \in Tensors \ {t} : narrowest'[u] = narrowest[u],
           pc'[t] # "sort"
    PROVE  SortInvariant'
<1>1. PackInvariant'
  BY StepKeeps DEF SortInvariant
<1>2. \A u \in Tensors : Sorted(u)'
  BY DEF SortInvariant, Sorted, StepOf, Same
<1>3. \A u \in Tensors : Wide(u)'
  BY DEF SortInvariant, Wide, StepOf, Same
<1>4. QED
  BY <1>1, <1>2, <1>3 DEF SortInvariant

LEMMA SortInit == Init => SortInvariant
<1> SUFFICES ASSUME Init PROVE SortInvariant
  OBVIOUS
<1>1. PackInvariant
  BY PackInit
<1>2. ASSUME NEW t \in Tensors PROVE Wide(t) /\ Sorted(t)
  <2>1. pc[t] = "idle" /\ storage[t] = <<>>
    BY <1>2 DEF Init
  <2>2. StrictlyAscending(t, <<>>)
    BY EmptySeq DEF StrictlyAscending
  <2>3. QED
    BY <2>1, <2>2 DEF Wide, Sorted
<1>3. QED
  BY <1>1, <1>2 DEF SortInvariant

LEMMA SortNext ==
    ASSUME SameOrders
    PROVE  SortInvariant /\ [Next]_vars => SortInvariant'
<1> SUFFICES ASSUME SortInvariant, [Next]_vars PROVE SortInvariant'
  OBVIOUS
<1>1. PackInvariant /\ Shape
  BY DEF SortInvariant, PackInvariant
<1>2. CASE UNCHANGED vars
  <2>1. PackInvariant'
    BY <1>1, <1>2, PackNext
  <2>2. \A t \in Tensors : Wide(t)' /\ Sorted(t)'
    BY <1>2 DEF SortInvariant, Wide, Sorted, vars, components, shared, threads, ghosts
  <2>3. QED
    BY <2>1, <2>2 DEF SortInvariant
<1>3. ASSUME NEW t \in program,
             \/ \E c \in Coordinates(t) : Insert(t, c)
             \/ Reserve(t)
             \/ \E method \in {"pack", "iterate"} : Call(t, method)
             \/ Hit(t) \/ Miss(t) \/ Enter(t)
             \/ Begin(t) \/ Step(t) \/ End(t) \/ Return(t)
             \/ PackScalar(t) \/ SetWidth(t) \/ PackSorted(t)
      PROVE  SortInvariant'
  <2> USE DEF components, shared, threads, ghosts
  <2>1. t \in Tensors
    BY <1>1, ProgramTensors
  <2>2. CASE \E c \in Coordinates(t) : Insert(t, c)
    <3>1. PICK c \in Coordinates(t) : Insert(t, c)
      BY <2>2
    <3>2. StepOf(t)
      BY <1>1, <2>1, <3>1, InsertKeeps
    <3>3. /\ storage' = storage /\ narrowest' = narrowest /\ program' = program
          /\ pc'[t] # "sort"
      BY <3>1 DEF Insert
    <3>4. QED
      BY <2>1, <3>2, <3>3, QuietSort
  <2>3. CASE Reserve(t)
    <3>1. StepOf(t)
      BY <1>1, <2>1, <2>3, ReserveKeeps
    <3>2. /\ storage' = storage /\ narrowest' = narrowest /\ program' = program
          /\ pc'[t] # "sort"
      BY <2>3 DEF Reserve
    <3>3. QED
      BY <2>1, <3>1, <3>2, QuietSort
  <2>4. CASE \E method \in {"pack", "iterate"} : Call(t, method)
    <3>1. PICK method \in {"pack", "iterate"} : Call(t, method)
      BY <2>4
    <3>2. StepOf(t)
      BY <1>1, <2>1, <3>1, CallKeeps
    <3>3. pc' = [pc EXCEPT ![t] = "lookup"]
      BY <3>1 DEF Call, BeginPack, Goto
    <3>4. /\ storage' = storage /\ narrowest' = narrowest /\ program' = program
          /\ pc'[t] # "sort"
      BY <1>1, <2>1, <3>1, <3>3 DEF Call, Shape
    <3>5. QED
      BY <2>1, <3>2, <3>4, QuietSort
  <2>5. CASE Hit(t) \/ Enter(t)
    <3>1. pc[t] \in {"lookup", "compile"} /\ Found(t) /\ seen' = seen
      BY <2>5 DEF Hit, Enter
    <3>2. StepOf(t)
      BY <1>1, <2>1, <3>1, FoundKeeps
    <3>3. /\ storage' = storage /\ narrowest' = narrowest /\ program' = program
          /\ pc'[t] # "sort"
      BY <1>1, <2>1, <3>1 DEF Found, Shape
    <3>4. QED
      BY <2>1, <3>2, <3>3, QuietSort
  <2>6. CASE Miss(t)
    <3>1. StepOf(t)
      BY <1>1, <2>1, <2>6, MissKeeps
    <3>2. /\ storage' = storage /\ narrowest' = narrowest /\ program' = program
          /\ pc'[t] # "sort"
      BY <1>1, <2>1, <2>6 DEF Miss, Shape
    <3>3. QED
      BY <2>1, <3>1, <3>2, QuietSort
  <2>7. CASE Begin(t)
    <3>1. StepOf(t)
      BY <1>1, <2>1, <2>7, BeginKeeps
    <3>2. /\ storage' = storage /\ narrowest' = narrowest /\ program' = program
          /\ pc'[t] # "sort"
      BY <1>1, <2>1, <2>7 DEF Begin, Shape
    <3>3. QED
      BY <2>1, <3>1, <3>2, QuietSort
  <2>8. CASE Step(t)
    <3>1. StepOf(t)
      BY <1>1, <2>1, <2>8, StepKeepsLocal
    <3>2. /\ storage' = storage /\ narrowest' = narrowest /\ program' = program
          /\ pc'[t] # "sort"
      BY <2>8 DEF Step
    <3>3. QED
      BY <2>1, <3>1, <3>2, QuietSort
  <2>9. CASE End(t)
    <3>1. StepOf(t)
      BY <1>1, <2>1, <2>9, EndKeeps
    <3>2. /\ storage' = storage /\ narrowest' = narrowest /\ program' = program
          /\ pc'[t] # "sort"
      BY <1>1, <2>1, <2>9 DEF End, Goto, Shape
    <3>3. QED
      BY <2>1, <3>1, <3>2, QuietSort
  <2>10. CASE Return(t)
    <3>1. StepOf(t)
      BY <1>1, <2>1, <2>10, ReturnKeeps
    <3>2. /\ storage' = storage /\ narrowest' = narrowest /\ program' = program
          /\ pc'[t] # "sort"
      BY <1>1, <2>1, <2>10 DEF Return, Goto, Shape
    <3>3. QED
      BY <2>1, <3>1, <3>2, QuietSort
  <2>11. CASE PackScalar(t)
    <3>1. StepOf(t)
      BY <1>1, <2>1, <2>11, PackScalarKeeps
    <3>2. PICK part \in Seq(Component(t)) :
             storage'[t] = IF part = <<>> THEN <<Zeroed(t)>> ELSE Merged(part)
      BY <1>1, <2>1, <2>11, PackScalarStores
    <3>3. Order[t] = 0
      BY <2>11 DEF PackScalar
    <3>4. Ascending(t, part)
      BY <3>3, LessWidths DEF Ascending
    <3>5. StrictlyAscending(t, storage'[t])
      BY <2>1, <3>2, <3>4, MergedAscends, ZeroedAscends
    <3>6. /\ program' = program /\ pc'[t] # "sort"
          /\ \A u \in Tensors \ {t} : narrowest'[u] = narrowest[u]
      BY <1>1, <2>1, <2>11 DEF PackScalar, Packed, Goto, Shape
    <3>7. QED
      BY <2>1, <3>1, <3>5, <3>6, PackSort
  <2>12. CASE SetWidth(t)
    <3>1. StepOf(t)
      BY <1>1, <2>1, <2>12, SetWidthKeeps
    <3>2. PackInvariant'
      BY <1>1, <2>1, <3>1, StepKeeps
    <3>3. /\ storage' = storage /\ program' = program /\ Order[t] > 0
          /\ pc' = [pc EXCEPT ![t] = "sort"]
          /\ narrowest' = [u \in Tensors |->
                              IF u = t THEN Order[t]
                              ELSE LeastOf(narrowest[u], Order[t])]
      BY <2>12 DEF SetWidth
    <3>4. \A u \in Tensors : Sorted(u)'
      BY <3>3 DEF SortInvariant, Sorted
    <3>5. ASSUME NEW u \in Tensors PROVE Wide(u)'
      <4>1. Wide(u) /\ narrowest[u] \in Nat /\ Order[u] \in Nat /\ Order[t] \in Nat
        BY <1>1, <2>1, PackAssumption DEF SortInvariant, Shape
      <4>2. CASE u = t
        <5>1. narrowest'[u] = Order[u]
          BY <3>3, <4>2
        <5>2. QED
          BY <3>3, <4>1, <4>2, <5>1 DEF Wide
      <4>3. CASE u # t
        <5>1. pc'[u] = pc[u] /\ narrowest'[u] = LeastOf(narrowest[u], Order[t])
          BY <1>1, <3>3, <4>3 DEF Shape
        <5>2. ASSUME pc[u] = "sort" PROVE narrowest'[u] >= Order[u]
          <6>1. u \in program /\ narrowest[u] >= Order[u]
            BY <4>1, <5>2 DEF Wide
          <6>2. Order[u] > 0
            BY <1>1, <5>2 DEF PackInvariant, Local, Control
          <6>3. Order[u] = Order[t]
            BY <1>1, <3>3, <6>1, <6>2 DEF SameOrders, Shape
          <6>4. QED
            BY <4>1, <5>1, <6>1, <6>3 DEF LeastOf
        <5>3. QED
          BY <3>3, <4>1, <5>1, <5>2 DEF Wide
      <4>4. QED
        BY <4>2, <4>3
    <3>6. QED
      BY <3>2, <3>4, <3>5 DEF SortInvariant
  <2>13. CASE PackSorted(t)
    <3>1. StepOf(t)
      BY <1>1, <2>1, <2>13, PackSortedKeeps
    <3>2. PICK q \in Seq(Component(t)) :
             /\ narrowest[t] >= Order[t] => Ascending(t, q)
             /\ storage'[t] = PackKernel(t, q)
      BY <1>1, <2>1, <2>13, PackSortedStores
    <3>3. narrowest[t] >= Order[t]
      BY <2>1, <2>13 DEF PackSorted, SortInvariant, Wide
    <3>4. StrictlyAscending(t, storage'[t])
      BY <2>1, <3>2, <3>3, KernelAscends
    <3>5. /\ program' = program /\ pc'[t] # "sort"
          /\ \A u \in Tensors \ {t} : narrowest'[u] = narrowest[u]
      <4>1. narrowest' = [narrowest EXCEPT ![t] = 0]
        BY <2>13 DEF PackSorted
      <4>2. program' = program /\ pc'[t] # "sort"
        BY <1>1, <2>1, <2>13 DEF PackSorted, Packed, Goto, Shape
      <4>3. QED
        BY <1>1, <4>1, <4>2 DEF Shape
    <3>6. QED
      BY <2>1, <3>1, <3>4, <3>5, PackSort
  <2>14. QED
    BY <1>3, <2>2, <2>3, <2>4, <2>5, <2>6, <2>7, <2>8, <2>9, <2>10, <2>11,
       <2>12, <2>13
<1>4. QED
  BY <1>2, <1>3 DEF Next

\* As long as the tensors in use at one time have the same order, the storage of
\* each is sorted and merged, whichever thread sets the width of the comparator.
THEOREM SortInvariantHolds ==
    ASSUME SameOrders
    PROVE  Spec => []SortInvariant
BY SortInit, SortNext, PTL DEF Spec

\* Storage is ascending and has every coordinate once, when no two tensors of
\* different order are packed at the same time.
THEOREM StorageIsSortedHolds ==
    ASSUME SameOrders
    PROVE  Spec => []StorageIsSorted
<1>1. SortInvariant => StorageIsSorted
  <2> SUFFICES ASSUME SortInvariant, NEW t \in Tensors,
                      NEW i \in 1 .. (Len(storage[t]) - 1)
               PROVE  Less(Order[t], storage[t][i].at, storage[t][i + 1].at)
    BY DEF StorageIsSorted
  <2>1. PICK st \in Seq(Component(t)) : st = storage[t]
    BY DEF SortInvariant, PackInvariant, Local, Typed
  <2>2. PICK n \in Nat : n = Len(st)
    BY LenProperties
  <2>3. i \in 1 .. n /\ i + 1 \in 1 .. n /\ i < i + 1
    BY <2>1, <2>2
  <2>4. StrictlyAscending(t, st)
    BY <2>1 DEF SortInvariant, Sorted
  <2>5. QED
    BY <2>1, <2>2, <2>3, <2>4 DEF StrictlyAscending
<1>2. QED
  BY <1>1, SortInvariantHolds, PTL

(***************************************************************************)
(* Amounts: what a list of components holds at a coordinate, counted in    *)
(* units.  A unit is an index of the list and a number up to the value at  *)
(* that index.                                                             *)
(***************************************************************************)
Units(q, c) ==
    {u \in (1 .. Len(q)) \X Nat : q[u[1]].at = c /\ u[2] \in 1 .. q[u[1]].val}

Amount(q, c) == Cardinality(Units(q, c))

\* What one component adds.
Worth(x, c) == IF x.at = c THEN x.val ELSE 0

\* The units of index i.
RowOf(i, v) == {<<i, k>> : k \in 1 .. v}

LEMMA IsBijection ==
    ASSUME NEW S, NEW T, NEW f \in [S -> T],
           \A x, y \in S : f[x] = f[y] => x = y,
           \A z \in T : \E x \in S : f[x] = z
    PROVE  f \in Bijection(S, T)
<1>1. IsInjective(f)
  BY Zenon DEF IsInjective
<1>2. f \in Injection(S, T)
  BY <1>1, Zenon DEF Injection
<1>3. f \in Surjection(S, T)
  BY Zenon DEF Surjection
<1>4. QED
  BY <1>2, <1>3 DEF Bijection

LEMMA RowSize ==
    ASSUME NEW i \in Nat, NEW v \in Nat
    PROVE  IsFiniteSet(RowOf(i, v)) /\ Cardinality(RowOf(i, v)) = v
<1> DEFINE f == [k \in 1 .. v |-> <<i, k>>]
<1>1. f \in [1 .. v -> RowOf(i, v)]
  BY DEF RowOf
<1>2. \A k, l \in 1 .. v : f[k] = f[l] => k = l
  OBVIOUS
<1>3. \A x \in RowOf(i, v) : \E k \in 1 .. v : f[k] = x
  BY DEF RowOf
<1> HIDE DEF f
<1>4. f \in Bijection(1 .. v, RowOf(i, v))
  BY <1>1, <1>2, <1>3, IsBijection
<1>5. ExistsBijection(1 .. v, RowOf(i, v))
  BY <1>4 DEF ExistsBijection
<1>6. IsFiniteSet(RowOf(i, v))
  BY <1>5, FS_NatBijection
<1>7. Cardinality(RowOf(i, v)) = v
  BY <1>5, FS_CountingElements
<1>8. QED
  BY <1>6, <1>7

LEMMA UnitsEmpty ==
    ASSUME NEW c
    PROVE  IsFiniteSet(Units(<<>>, c)) /\ Amount(<<>>, c) = 0
<1>1. Len(<<>>) = 0
  BY EmptySeq
<1>2. 1 .. 0 = {}
  OBVIOUS
<1>3. Units(<<>>, c) = {}
  BY <1>1, <1>2 DEF Units
<1>4. QED
  BY <1>3, FS_EmptySet DEF Amount

\* b is a with x behind it.
Extends(a, b, x) ==
    /\ Len(b) = Len(a) + 1
    /\ b[Len(a) + 1] = x
    /\ \A i \in 1 .. Len(a) : b[i] = a[i]

LEMMA UnitsExtend ==
    ASSUME NEW t, NEW a \in Seq(Component(t)), NEW b, NEW x \in Component(t),
           Extends(a, b, x), NEW c, IsFiniteSet(Units(a, c))
    PROVE  /\ IsFiniteSet(Units(b, c))
           /\ Amount(b, c) = Amount(a, c) + Worth(x, c)
<1>1. PICK n \in Nat : n = Len(a)
  BY LenProperties
<1>2. Len(b) = n + 1 /\ b[n + 1] = x /\ \A i \in 1 .. n : b[i] = a[i]
  BY <1>1 DEF Extends
<1>3. PICK v \in Nat : v = x.val
  BY DEF Component
<1>4. Cardinality(Units(a, c)) \in Nat
  BY FS_CardinalityType
<1>5. \A u : u \in Units(a, c) <=>
         /\ u \in (1 .. n) \X Nat
         /\ a[u[1]].at = c /\ u[2] \in 1 .. a[u[1]].val
  BY <1>1 DEF Units
<1>6. \A u : u \in Units(b, c) <=>
         /\ u \in (1 .. n + 1) \X Nat
         /\ b[u[1]].at = c /\ u[2] \in 1 .. b[u[1]].val
  BY <1>2 DEF Units
<1>7. \A u : u \in (1 .. n + 1) \X Nat <=>
         u \in (1 .. n) \X Nat \/ u \in {n + 1} \X Nat
  <2>1. (1 .. n + 1) = (1 .. n) \cup {n + 1}
    OBVIOUS
  <2>2. QED
    BY <2>1
<1>8. \A u \in (1 .. n) \X Nat : u \in Units(b, c) <=> u \in Units(a, c)
  <2>1. TAKE u \in (1 .. n) \X Nat
  <2>2. u[1] \in 1 .. n
    OBVIOUS
  <2>3. b[u[1]] = a[u[1]]
    BY <1>2, <2>2
  <2>4. QED
    BY <1>5, <1>6, <1>7, <2>3
<1>9. \A u \in {n + 1} \X Nat : u \in Units(b, c) <=> x.at = c /\ u[2] \in 1 .. v
  <2>1. TAKE u \in {n + 1} \X Nat
  <2>2. u[1] = n + 1
    OBVIOUS
  <2>3. b[u[1]] = x
    BY <1>2, <2>2
  <2>4. QED
    BY <1>3, <1>6, <1>7, <2>3
<1>10. \A u : u \in RowOf(n + 1, v) <=> u \in {n + 1} \X Nat /\ u[2] \in 1 .. v
  <2>1. ASSUME NEW u, u \in RowOf(n + 1, v)
        PROVE  u \in {n + 1} \X Nat /\ u[2] \in 1 .. v
    BY <2>1 DEF RowOf
  <2>2. ASSUME NEW u, u \in {n + 1} \X Nat, u[2] \in 1 .. v
        PROVE  u \in RowOf(n + 1, v)
    <3>1. PICK k \in 1 .. v : k = u[2]
      BY <2>2
    <3>2. u = <<n + 1, k>>
      BY <2>2, <3>1
    <3>3. QED
      BY <3>1, <3>2 DEF RowOf
  <2>3. QED
    BY <2>1, <2>2
<1>11. \A u \in Units(b, c) : u \in (1 .. n) \X Nat \/ u \in {n + 1} \X Nat
  BY <1>6, <1>7
<1>12. \A u \in Units(a, c) : u \in (1 .. n) \X Nat
  BY <1>5
<1>13. CASE x.at # c
  <2>1. Units(b, c) = Units(a, c)
    BY <1>8, <1>9, <1>11, <1>12, <1>13
  <2>2. Worth(x, c) = 0
    BY <1>13 DEF Worth
  <2>3. QED
    BY <1>4, <2>1, <2>2 DEF Amount
<1>14. CASE x.at = c
  <2>1. Units(b, c) = Units(a, c) \cup RowOf(n + 1, v)
    BY <1>8, <1>9, <1>10, <1>11, <1>12, <1>14
  <2>2. Units(a, c) \cap RowOf(n + 1, v) = {}
    <3>1. \A u \in (1 .. n) \X Nat : u \notin {n + 1} \X Nat
      OBVIOUS
    <3>2. QED
      BY <1>10, <1>12, <3>1
  <2>3. IsFiniteSet(RowOf(n + 1, v)) /\ Cardinality(RowOf(n + 1, v)) = v
    <3>1. n + 1 \in Nat
      OBVIOUS
    <3>2. QED
      BY <3>1, RowSize
  <2>4. /\ IsFiniteSet(Units(b, c))
        /\ Cardinality(Units(b, c)) =
              Cardinality(Units(a, c)) + Cardinality(RowOf(n + 1, v))
                - Cardinality(Units(a, c) \cap RowOf(n + 1, v))
    BY <2>1, <2>3, FS_Union
  <2>5. Cardinality(Units(a, c) \cap RowOf(n + 1, v)) = 0
    BY <2>2, FS_EmptySet
  <2>6. Cardinality(Units(b, c)) = Cardinality(Units(a, c)) + v
    BY <1>4, <2>3, <2>4, <2>5
  <2>7. Worth(x, c) = v
    BY <1>3, <1>14 DEF Worth
  <2>8. QED
    BY <2>4, <2>6, <2>7 DEF Amount
<1>15. QED
  BY <1>13, <1>14

\* The first n components of a list, and the next one.
LEMMA PrefixExtends ==
    ASSUME NEW t, NEW q \in Seq(Component(t)), NEW n \in Nat, n + 1 <= Len(q)
    PROVE  /\ SubSeq(q, 1, n) \in Seq(Component(t))
           /\ q[n + 1] \in Component(t)
           /\ Extends(SubSeq(q, 1, n), SubSeq(q, 1, n + 1), q[n + 1])
<1>1. \A i \in 1 .. n + 1 : q[i] \in Component(t)
  BY ElementOfSeq
<1>2. PICK a : a = SubSeq(q, 1, n)
  OBVIOUS
<1>3. PICK b : b = SubSeq(q, 1, n + 1)
  OBVIOUS
<1>4. a \in Seq(Component(t)) /\ Len(a) = n /\ \A i \in 1 .. n : a[i] = q[i]
  BY <1>1, <1>2
<1>5. Len(b) = n + 1 /\ \A i \in 1 .. n + 1 : b[i] = q[i]
  BY <1>1, <1>3
<1>6. Extends(a, b, q[n + 1])
  BY <1>4, <1>5 DEF Extends
<1>7. QED
  BY <1>1, <1>2, <1>3, <1>4, <1>6

LEMMA UnitsFinite ==
    ASSUME NEW t, NEW q \in Seq(Component(t)), NEW c
    PROVE  IsFiniteSet(Units(q, c)) /\ Amount(q, c) \in Nat
<1> DEFINE S == {n \in Nat : n <= Len(q) => IsFiniteSet(Units(SubSeq(q, 1, n), c))}
<1>1. 0 \in S
  <2>1. SubSeq(q, 1, 0) = <<>>
    BY SubSeqEmpty
  <2>2. IsFiniteSet(Units(SubSeq(q, 1, 0), c))
    BY <2>1, UnitsEmpty
  <2>3. QED
    BY <2>2
<1>2. ASSUME NEW n \in Nat, n \in S PROVE n + 1 \in S
  <2> SUFFICES ASSUME n + 1 <= Len(q)
               PROVE  IsFiniteSet(Units(SubSeq(q, 1, n + 1), c))
    OBVIOUS
  <2>1. IsFiniteSet(Units(SubSeq(q, 1, n), c))
    BY <1>2
  <2>2. /\ SubSeq(q, 1, n) \in Seq(Component(t))
        /\ q[n + 1] \in Component(t)
        /\ Extends(SubSeq(q, 1, n), SubSeq(q, 1, n + 1), q[n + 1])
    BY PrefixExtends
  <2>3. PICK a, b, x : a = SubSeq(q, 1, n) /\ b = SubSeq(q, 1, n + 1) /\ x = q[n + 1]
    OBVIOUS
  <2>4. IsFiniteSet(Units(b, c))
    <3>1. /\ IsFiniteSet(Units(a, c)) /\ a \in Seq(Component(t))
          /\ x \in Component(t) /\ Extends(a, b, x)
      BY <2>1, <2>2, <2>3, Zenon
    <3>2. QED
      BY <3>1, UnitsExtend
  <2>5. QED
    BY <2>3, <2>4
<1> HIDE DEF S
<1>3. Nat \subseteq S
  BY <1>1, <1>2, SetInduction
<1>4. Len(q) \in S /\ Len(q) <= Len(q)
  BY <1>3
<1>5. IsFiniteSet(Units(SubSeq(q, 1, Len(q)), c))
  BY <1>4, Zenon DEF S
<1>6. SubSeq(q, 1, Len(q)) = q
  BY SubSeqFull
<1>7. IsFiniteSet(Units(q, c))
  BY <1>5, <1>6, Zenon
<1>8. QED
  BY <1>7, FS_CardinalityType DEF Amount

LEMMA AmountExtend ==
    ASSUME NEW t, NEW a \in Seq(Component(t)), NEW b, NEW x \in Component(t),
           Extends(a, b, x), NEW c
    PROVE  Amount(b, c) = Amount(a, c) + Worth(x, c)
<1>1. IsFiniteSet(Units(a, c))
  BY UnitsFinite
<1>2. QED
  BY <1>1, UnitsExtend

LEMMA AmountAppend ==
    ASSUME NEW t, NEW a \in Seq(Component(t)), NEW x \in Component(t), NEW c
    PROVE  Amount(Append(a, x), c) = Amount(a, c) + Worth(x, c)
<1>1. PICK b : b = Append(a, x)
  OBVIOUS
<1>2. Extends(a, b, x)
  BY <1>1, AppendProperties DEF Extends
<1>3. QED
  BY <1>1, <1>2, AmountExtend

LEMMA WorthType ==
    ASSUME NEW t, NEW x \in Component(t), NEW c
    PROVE  Worth(x, c) \in Nat
BY DEF Worth, Component

\* Another order holds the same.
LEMMA AmountRearranged ==
    ASSUME NEW t, NEW q \in Seq(Component(t)), NEW s \in Seq(Component(t)), NEW p,
           Rearranged(q, p, s), NEW c
    PROVE  Amount(s, c) = Amount(q, c)
<1>1. PICK n \in Nat : n = Len(q)
  BY LenProperties
<1>2. /\ p \in Bijection(1 .. n, 1 .. n) /\ Len(s) = n
      /\ \A i \in 1 .. n : s[i] = q[p[i]]
  BY <1>1 DEF Rearranged
<1>3. /\ p \in [1 .. n -> 1 .. n]
      /\ \A i, j \in 1 .. n : p[i] = p[j] => i = j
      /\ \A j \in 1 .. n : \E i \in 1 .. n : p[i] = j
  BY <1>2 DEF Bijection, Injection, Surjection, IsInjective
<1> DEFINE f == [u \in Units(s, c) |-> <<p[u[1]], u[2]>>]
<1>4. \A u : u \in Units(s, c) <=>
         u \in (1 .. n) \X Nat /\ s[u[1]].at = c /\ u[2] \in 1 .. s[u[1]].val
  BY <1>2 DEF Units
<1>5. \A u : u \in Units(q, c) <=>
         u \in (1 .. n) \X Nat /\ q[u[1]].at = c /\ u[2] \in 1 .. q[u[1]].val
  BY <1>1 DEF Units
<1>6. \A u \in Units(s, c) : <<p[u[1]], u[2]>> \in Units(q, c)
  <2>1. TAKE u \in Units(s, c)
  <2>2. PICK i \in 1 .. n, k \in Nat : u = <<i, k>>
    BY <1>4
  <2>3. s[i].at = c /\ k \in 1 .. s[i].val
    BY <1>4, <2>2
  <2>4. PICK j \in 1 .. n : j = p[i] /\ s[i] = q[j]
    BY <1>2, <1>3
  <2>5. <<j, k>> \in Units(q, c)
    BY <1>5, <2>3, <2>4
  <2>6. QED
    BY <2>2, <2>4, <2>5
<1>7. f \in [Units(s, c) -> Units(q, c)]
  BY <1>6
<1>8. ASSUME NEW u \in Units(s, c), NEW v \in Units(s, c), f[u] = f[v]
      PROVE  u = v
  <2>1. PICK i \in 1 .. n, k \in Nat : u = <<i, k>>
    BY <1>4
  <2>2. PICK j \in 1 .. n, l \in Nat : v = <<j, l>>
    BY <1>4
  <2>3. f[u] = <<p[i], k>> /\ f[v] = <<p[j], l>>
    BY <2>1, <2>2
  <2>4. p[i] = p[j] /\ k = l
    BY <1>8, <2>3
  <2>5. QED
    BY <1>3, <2>1, <2>2, <2>4
<1>9. ASSUME NEW v \in Units(q, c)
      PROVE  \E u \in Units(s, c) : f[u] = v
  <2>1. PICK j \in 1 .. n, k \in Nat : v = <<j, k>>
    BY <1>5
  <2>2. PICK i \in 1 .. n : p[i] = j
    BY <1>3
  <2>3. s[i] = q[j]
    BY <1>2, <2>2
  <2>4. q[j].at = c /\ k \in 1 .. q[j].val
    BY <1>5, <2>1
  <2>5. <<i, k>> \in Units(s, c)
    BY <1>4, <2>3, <2>4
  <2>6. f[<<i, k>>] = v
    BY <2>1, <2>2, <2>5
  <2>7. QED
    BY <2>5, <2>6
<1> HIDE DEF f
<1>10. f \in Bijection(Units(s, c), Units(q, c))
  BY <1>7, <1>8, <1>9, IsBijection
<1>11. ExistsBijection(Units(s, c), Units(q, c))
  BY <1>10 DEF ExistsBijection
<1>12. IsFiniteSet(Units(s, c))
  BY UnitsFinite
<1>13. QED
  BY <1>11, <1>12, FS_Bijection DEF Amount

\* A list with its coordinates permuted holds the same at the permuted
\* coordinate.
LEMMA AmountPermuted ==
    ASSUME NEW t \in Tensors, NEW q \in Seq(Component(t)), NEW c \in Coordinates(t)
    PROVE  Amount(PermutedAll(t, q), Permuted(t, c)) = Amount(q, c)
<1>1. PICK r : r = PermutedAll(t, q)
  OBVIOUS
<1>2. Len(r) = Len(q) /\ \A i \in 1 .. Len(q) : r[i] = Turned(t, q[i])
  BY <1>1, PermutedAllType
<1>3. ASSUME NEW i \in 1 .. Len(q)
      PROVE  r[i].val = q[i].val /\ (r[i].at = Permuted(t, c) <=> q[i].at = c)
  <2>1. PICK x \in Component(t) : x = q[i]
    BY ElementOfSeq
  <2>2. r[i].at = Permuted(t, x.at) /\ r[i].val = x.val
    BY <1>2, <2>1, TurnedType
  <2>3. x.at \in Coordinates(t)
    BY DEF Component
  <2>4. Permuted(t, x.at) = Permuted(t, c) => x.at = c
    BY <2>3, PermutedBack
  <2>5. QED
    BY <2>1, <2>2, <2>4
<1>4. \A u \in (1 .. Len(q)) \X Nat : u[1] \in 1 .. Len(q)
  OBVIOUS
<1>5. Units(r, Permuted(t, c)) = Units(q, c)
  BY <1>2, <1>3, <1>4 DEF Units
<1>6. QED
  BY <1>1, <1>5 DEF Amount

\* Adding a component up with the last one holds as much as appending it.
LEMMA AmountAddTo ==
    ASSUME NEW t, NEW r \in Seq(Component(t)), NEW x \in Component(t), NEW c
    PROVE  Amount(AddTo(r, x), c) = Amount(r, c) + Worth(x, c)
<1>1. CASE r # <<>> /\ Last(r).at = x.at
  <2>1. PICK n \in Nat : n + 1 = Len(r)
    <3>1. PICK k \in Nat : k = Len(r) /\ k # 0
      BY <1>1, EmptySeq
    <3>2. k - 1 \in Nat /\ (k - 1) + 1 = k
      BY <3>1
    <3>3. QED
      BY <3>1, <3>2
  <2>2. PICK k \in 1 .. Len(r) : k = n + 1
    BY <2>1
  <2>3. PICK y \in Component(t) : y = r[k]
    BY ElementOfSeq
  <2>4. PICK z : z = [y EXCEPT !.val = @ + x.val]
    OBVIOUS
  <2>5. /\ z \in Component(t) /\ z.at = y.at /\ z.val = y.val + x.val
        /\ y.val \in Nat /\ x.val \in Nat /\ y.at = x.at
    <3>1. y.at = x.at
      BY <1>1, <2>1, <2>2, <2>3 DEF Last
    <3>2. y.val \in Nat /\ x.val \in Nat /\ y \in [at : Coordinates(t), val : Nat]
      BY DEF Component
    <3>3. PICK v \in Nat : v = y.val + x.val
      BY <3>2
    <3>4. z = [y EXCEPT !.val = v]
      BY <2>4, <3>3
    <3>5. z \in [at : Coordinates(t), val : Nat] /\ z.at = y.at /\ z.val = v
      BY <3>2, <3>4
    <3>6. QED
      BY <3>1, <3>2, <3>3, <3>5 DEF Component
  <2>6. PICK s : s = AddTo(r, x)
    OBVIOUS
  <2>7. s = [r EXCEPT ![k] = z]
    BY <1>1, <2>1, <2>2, <2>3, <2>4, <2>6 DEF AddTo
  <2>8. /\ s \in Seq(Component(t)) /\ Len(s) = Len(r)
        /\ \A j \in 1 .. Len(r) : s[j] = IF j = k THEN z ELSE r[j]
    BY <2>2, <2>5, <2>7, ExceptSeq
  <2>9. PICK a : a = SubSeq(r, 1, n)
    OBVIOUS
  <2>10. a \in Seq(Component(t)) /\ Len(a) = n /\ \A i \in 1 .. n : a[i] = r[i]
    <3>1. \A i \in 1 .. n : r[i] \in Component(t)
      BY <2>1, ElementOfSeq
    <3>2. QED
      BY <2>9, <3>1
  <2>11. Extends(a, r, y)
    BY <2>1, <2>2, <2>3, <2>10 DEF Extends
  <2>12. Extends(a, s, z)
    <3>1. Len(s) = n + 1 /\ s[n + 1] = z
      BY <2>1, <2>2, <2>8
    <3>2. \A i \in 1 .. n : s[i] = a[i]
      BY <2>1, <2>2, <2>8, <2>10
    <3>3. QED
      BY <2>10, <3>1, <3>2 DEF Extends
  <2>13. /\ Amount(r, c) = Amount(a, c) + Worth(y, c)
         /\ Amount(s, c) = Amount(a, c) + Worth(z, c)
    BY <2>5, <2>10, <2>11, <2>12, AmountExtend
  <2>14. Worth(z, c) = Worth(y, c) + Worth(x, c)
    BY <2>5 DEF Worth
  <2>15. Worth(y, c) \in Nat /\ Worth(x, c) \in Nat /\ Amount(a, c) \in Nat
    BY <2>10, WorthType, UnitsFinite
  <2>16. Amount(s, c) = Amount(r, c) + Worth(x, c)
    BY <2>13, <2>14, <2>15
  <2>17. QED
    BY <2>6, <2>16
<1>2. CASE ~(r # <<>> /\ Last(r).at = x.at)
  <2>1. AddTo(r, x) = Append(r, x)
    BY <1>2 DEF AddTo
  <2>2. QED
    BY <2>1, AmountAppend
<1>3. QED
  BY <1>1, <1>2

\* "pack" keeps what the list holds at every coordinate.
LEMMA AmountMerged ==
    ASSUME NEW t, NEW q \in Seq(Component(t)), NEW c
    PROVE  Amount(Merged(q), c) = Amount(q, c)
<1>1. PICK f : Merging(t, q, f) /\ Merged(q) = f[Len(q)]
  BY MergedIs
<1> DEFINE S == {n \in Nat : n <= Len(q) => Amount(f[n], c) = Amount(SubSeq(q, 1, n), c)}
<1>2. 0 \in S
  <2>1. f[0] = <<>> /\ SubSeq(q, 1, 0) = <<>>
    BY <1>1, SubSeqEmpty DEF Merging
  <2>2. QED
    BY <2>1
<1>3. ASSUME NEW n \in Nat, n \in S PROVE n + 1 \in S
  <2> SUFFICES ASSUME n + 1 <= Len(q)
               PROVE  Amount(f[n + 1], c) = Amount(SubSeq(q, 1, n + 1), c)
    OBVIOUS
  <2>1. Amount(f[n], c) = Amount(SubSeq(q, 1, n), c)
    BY <1>3
  <2>2. /\ SubSeq(q, 1, n) \in Seq(Component(t))
        /\ q[n + 1] \in Component(t)
        /\ Extends(SubSeq(q, 1, n), SubSeq(q, 1, n + 1), q[n + 1])
    BY PrefixExtends
  <2>3. PICK a, b, x : a = SubSeq(q, 1, n) /\ b = SubSeq(q, 1, n + 1) /\ x = q[n + 1]
    OBVIOUS
  <2>4. a \in Seq(Component(t)) /\ x \in Component(t) /\ Extends(a, b, x)
    BY <2>2, <2>3, Zenon
  <2>5. Amount(b, c) = Amount(a, c) + Worth(x, c)
    BY <2>4, AmountExtend
  <2>6. PICK k : k = n + 1
    OBVIOUS
  <2>7. k \in 1 .. Len(q) /\ k - 1 = n /\ n \in 0 .. Len(q)
    BY <2>6
  <2>8. f[k] = AddTo(f[k - 1], q[k])
    BY <1>1, <2>7 DEF Merging
  <2>9. f[n] \in Seq(Component(t))
    BY <1>1, <2>7 DEF Merging
  <2>10. PICK r \in Seq(Component(t)) : r = f[n]
    BY <2>9
  <2>11. f[k] = AddTo(r, x)
    BY <2>3, <2>6, <2>7, <2>8, <2>10
  <2>12. Amount(AddTo(r, x), c) = Amount(r, c) + Worth(x, c)
    BY <2>4, AmountAddTo
  <2>13. Amount(f[k], c) = Amount(b, c)
    BY <2>1, <2>3, <2>5, <2>10, <2>11, <2>12
  <2>14. QED
    BY <2>3, <2>6, <2>13
<1> HIDE DEF S
<1>4. Nat \subseteq S
  BY <1>2, <1>3, SetInduction
<1>5. Len(q) \in S /\ Len(q) <= Len(q)
  BY <1>4
<1>6. Amount(f[Len(q)], c) = Amount(SubSeq(q, 1, Len(q)), c)
  BY <1>5, Zenon DEF S
<1>7. SubSeq(q, 1, Len(q)) = q
  BY SubSeqFull
<1>8. QED
  BY <1>1, <1>6, <1>7, Zenon

\* In a list with every coordinate once, the amount is the stored value.
LEMMA AmountStored ==
    ASSUME NEW t \in Tensors, NEW q \in Seq(Component(t)), StrictlyAscending(t, q),
           NEW c \in Coordinates(t)
    PROVE  Amount(q, c) = StoredAt(q, c)
<1>1. DOMAIN q = 1 .. Len(q) /\ Len(q) \in Nat
  BY LenProperties
<1>2. CASE \A i \in 1 .. Len(q) : q[i].at # c
  <2>1. StoredAt(q, c) = 0
    BY <1>1, <1>2, StoredAtNot
  <2>2. \A u \in (1 .. Len(q)) \X Nat : u[1] \in 1 .. Len(q)
    OBVIOUS
  <2>3. Units(q, c) = {}
    BY <1>2, <2>2 DEF Units
  <2>4. QED
    BY <2>1, <2>3, FS_EmptySet DEF Amount
<1>3. CASE \E i \in 1 .. Len(q) : q[i].at = c
  <2>1. PICK i \in 1 .. Len(q) : q[i].at = c
    BY <1>3
  <2>2. q[i] \in Component(t)
    BY ElementOfSeq
  <2>3. PICK v \in Nat : v = q[i].val
    BY <2>2 DEF Component
  <2>4. StoredAt(q, c) = v
    BY <2>1, <2>3, StoredAtIs
  <2>5. ASSUME NEW j \in 1 .. Len(q), q[j].at = c PROVE j = i
    <3>1. ~Less(Order[t], c, c)
      BY LessIsOrder
    <3>2. ~(j < i) /\ ~(i < j)
      BY <2>1, <2>5, <3>1 DEF StrictlyAscending
    <3>3. QED
      BY <3>2
  <2>6. ASSUME NEW u \in Units(q, c) PROVE u \in RowOf(i, v)
    <3>1. /\ u \in (1 .. Len(q)) \X Nat /\ q[u[1]].at = c
          /\ u[2] \in 1 .. q[u[1]].val
      BY DEF Units
    <3>2. PICK j \in 1 .. Len(q), k \in Nat : u = <<j, k>>
      BY <3>1
    <3>3. q[j].at = c /\ k \in 1 .. q[j].val
      BY <3>1, <3>2
    <3>4. j = i
      BY <2>5, <3>3
    <3>5. QED
      BY <2>3, <3>2, <3>3, <3>4 DEF RowOf
  <2>7. ASSUME NEW u \in RowOf(i, v) PROVE u \in Units(q, c)
    <3>1. PICK k \in 1 .. v : u = <<i, k>>
      BY DEF RowOf
    <3>2. u \in (1 .. Len(q)) \X Nat /\ u[1] = i /\ u[2] = k
      BY <3>1
    <3>3. QED
      BY <2>1, <2>3, <3>2 DEF Units
  <2>8. Units(q, c) = RowOf(i, v)
    BY <2>6, <2>7
  <2>9. Cardinality(RowOf(i, v)) = v
    BY RowSize
  <2>10. QED
    BY <2>4, <2>8, <2>9 DEF Amount
<1>4. QED
  BY <1>2, <1>3

\* The kernel keeps what a sorted list holds at every coordinate.
LEMMA AmountKernel ==
    ASSUME NEW t \in Tensors, NEW q \in Seq(Component(t)), Ascending(t, q),
           NEW c \in Coordinates(t)
    PROVE  Amount(PackKernel(t, q), c) = Amount(q, c)
<1>1. CASE t \notin Dense
  BY <1>1, KernelSparse, AmountMerged
<1>2. CASE t \in Dense
  <2>1. PICK k \in Seq(Component(t)) : k = PackKernel(t, q)
    BY KernelType
  <2>2. PICK m \in Seq(Component(t)) : m = Merged(q)
    BY MergedType
  <2>3. StrictlyAscending(t, k) /\ StrictlyAscending(t, m)
    BY <2>1, <2>2, KernelAscends, MergedAscends
  <2>4. Amount(k, c) = StoredAt(k, c) /\ Amount(m, c) = StoredAt(m, c)
    BY <2>3, AmountStored
  <2>5. PICK i \in 1 .. Len(Positions(t)) : Positions(t)[i] = c
    BY PositionsAreRight DEF PositionsRight
  <2>6. i \in 1 .. Len(k) /\ k[i].at = c /\ k[i].val = StoredAt(m, c)
    BY <1>2, <2>1, <2>2, <2>5, KernelDense
  <2>7. StoredAt(k, c) = StoredAt(m, c)
    BY <2>3, <2>6, StoredAtIs
  <2>8. Amount(m, c) = Amount(q, c)
    BY <2>2, AmountMerged
  <2>9. QED
    BY <2>1, <2>4, <2>7, <2>8
<1>3. QED
  BY <1>1, <1>2

(***************************************************************************)
(* What a tensor holds.                                                    *)
(***************************************************************************)
\* The components that were inserted since the last pack(), or again by it.
\* A scalar that was packed keeps its used part, which is not meant.
Waiting(t) ==
    IF Order[t] = 0 /\ ~neverPacked[t] /\ goal[t] # "pack" THEN <<>>
    ELSE SubSeq(buffer[t], 1, used[t])

\* The components that pack() has moved before.
Kept(t) == IF goal[t] = "pack" THEN <<>> ELSE storage[t]

\* How many of those are inserted again.
Past(t) == IF pc[t] = "loop" /\ goal[t] = "reinsert" THEN Done(iter[t]) ELSE 0

\* At every coordinate the list w and the part of st behind its first n
\* components add up to tot.
AddUp(t, w, st, n, tot) ==
    \A c \in Coordinates(t) :
        Amount(w, c) + Amount(st, Permuted(t, c)) =
            tot[c] + Amount(SubSeq(st, 1, n), Permuted(t, c))

Balance(t) == AddUp(t, Waiting(t), Kept(t), Past(t), total[t])

\* When a tensor has nothing waiting, and when it has room.
Phases(t) ==
    /\ Order[t] = 0 /\ ~neverPacked[t] => ~needsPack[t] /\ goal[t] # "reinsert"
    /\ goal[t] = "pack" => used[t] <= Len(buffer[t])
    /\ Order[t] > 0 /\ ~needsPack[t] /\ goal[t] \notin {"pack", "reinsert"}
          => used[t] = 0
    /\ neverPacked[t] => storage[t] = <<>>
    /\ total[t] \in [Coordinates(t) -> Nat]

SumInvariant ==
    /\ SortInvariant
    /\ DOMAIN total = Tensors
    /\ \A t \in Tensors : Phases(t) /\ Balance(t)

LEMMA PrefixType ==
    ASSUME NEW t, NEW q \in Seq(Component(t)), NEW n \in Nat, n <= Len(q)
    PROVE  SubSeq(q, 1, n) \in Seq(Component(t))
<1>1. \A i \in 1 .. n : q[i] \in Component(t)
  BY ElementOfSeq
<1>2. QED
  BY <1>1

\* An insert adds to the list and to the total.
LEMMA AddUpInsert ==
    ASSUME NEW t \in Tensors, NEW w \in Seq(Component(t)), NEW st \in Seq(Component(t)),
           NEW n \in Nat, n <= Len(st), NEW tot \in [Coordinates(t) -> Nat], NEW tot1,
           NEW x \in Component(t), AddUp(t, w, st, n, tot),
           \A c \in Coordinates(t) : tot1[c] = tot[c] + Worth(x, c)
    PROVE  AddUp(t, Append(w, x), st, n, tot1)
<1> SUFFICES ASSUME NEW c \in Coordinates(t)
             PROVE  Amount(Append(w, x), c) + Amount(st, Permuted(t, c)) =
                       tot1[c] + Amount(SubSeq(st, 1, n), Permuted(t, c))
  BY DEF AddUp
<1>1. Amount(Append(w, x), c) = Amount(w, c) + Worth(x, c)
  BY AmountAppend
<1>2. Amount(w, c) + Amount(st, Permuted(t, c)) =
         tot[c] + Amount(SubSeq(st, 1, n), Permuted(t, c))
  BY DEF AddUp
<1>3. /\ Amount(w, c) \in Nat /\ Amount(st, Permuted(t, c)) \in Nat
      /\ Worth(x, c) \in Nat /\ tot[c] \in Nat
  BY UnitsFinite, WorthType
<1>4. Amount(SubSeq(st, 1, n), Permuted(t, c)) \in Nat
  <2>1. SubSeq(st, 1, n) \in Seq(Component(t))
    BY PrefixType
  <2>2. QED
    BY <2>1, UnitsFinite, Zenon
<1>5. tot1[c] = tot[c] + Worth(x, c)
  OBVIOUS
<1>6. (Amount(w, c) + Worth(x, c)) + Amount(st, Permuted(t, c)) =
         (tot[c] + Worth(x, c)) + Amount(SubSeq(st, 1, n), Permuted(t, c))
  <2>1. PICK a \in Nat, b \in Nat, d \in Nat, e \in Nat, f \in Nat :
           /\ a = Amount(w, c) /\ b = Amount(st, Permuted(t, c)) /\ d = tot[c]
           /\ e = Amount(SubSeq(st, 1, n), Permuted(t, c)) /\ f = Worth(x, c)
    BY <1>3, <1>4, Zenon
  <2>2. a + b = d + e
    BY <1>2, <2>1, Zenon
  <2>3. (a + f) + b = (d + f) + e
    BY <2>2
  <2>4. QED
    BY <2>1, <2>3, Zenon
<1>7. QED
  BY <1>1, <1>5, <1>6, Zenon

\* A component that is inserted again moves from the kept list to the other.
LEMMA AddUpAgain ==
    ASSUME NEW t \in Tensors, NEW w \in Seq(Component(t)), NEW st \in Seq(Component(t)),
           NEW n \in Nat, n < Len(st), NEW tot \in [Coordinates(t) -> Nat],
           AddUp(t, w, st, n, tot)
    PROVE  AddUp(t, Append(w, Turned(t, st[n + 1])), st, n + 1, tot)
<1>1. n + 1 <= Len(st)
  BY LenProperties
<1>2. PICK a, b, y : a = SubSeq(st, 1, n) /\ b = SubSeq(st, 1, n + 1) /\ y = st[n + 1]
  OBVIOUS
<1>3. a \in Seq(Component(t)) /\ y \in Component(t) /\ Extends(a, b, y)
  BY <1>1, <1>2, PrefixExtends
<1>4. PICK x \in Component(t) : /\ x = Turned(t, y) /\ x.at = Permuted(t, y.at)
                                /\ x.val = y.val
  BY <1>3, TurnedType
<1>5. ASSUME NEW c \in Coordinates(t)
      PROVE  Amount(Append(w, x), c) + Amount(st, Permuted(t, c)) =
                tot[c] + Amount(b, Permuted(t, c))
  <2>1. Amount(Append(w, x), c) = Amount(w, c) + Worth(x, c)
    BY AmountAppend
  <2>2. Amount(b, Permuted(t, c)) = Amount(a, Permuted(t, c)) + Worth(y, Permuted(t, c))
    BY <1>3, AmountExtend
  <2>3. Worth(x, c) = Worth(y, Permuted(t, c))
    <3>1. y.at \in Coordinates(t)
      BY <1>3 DEF Component
    <3>2. Permuted(t, Permuted(t, y.at)) = y.at /\ Permuted(t, Permuted(t, c)) = c
      BY <3>1, PermutedBack
    <3>3. x.at = c <=> y.at = Permuted(t, c)
      BY <1>4, <3>2
    <3>4. QED
      BY <1>4, <3>3 DEF Worth
  <2>4. Amount(w, c) + Amount(st, Permuted(t, c)) = tot[c] + Amount(a, Permuted(t, c))
    BY <1>2 DEF AddUp
  <2>5. /\ Amount(w, c) \in Nat /\ Amount(st, Permuted(t, c)) \in Nat
        /\ Worth(x, c) \in Nat /\ tot[c] \in Nat
    BY UnitsFinite, WorthType
  <2>6. Amount(a, Permuted(t, c)) \in Nat
    BY <1>3, UnitsFinite
  <2>7. (Amount(w, c) + Worth(x, c)) + Amount(st, Permuted(t, c)) =
           tot[c] + (Amount(a, Permuted(t, c)) + Worth(x, c))
    <3>1. PICK k \in Nat, l \in Nat, d \in Nat, e \in Nat, f \in Nat :
             /\ k = Amount(w, c) /\ l = Amount(st, Permuted(t, c)) /\ d = tot[c]
             /\ e = Amount(a, Permuted(t, c)) /\ f = Worth(x, c)
      BY <2>5, <2>6, Zenon
    <3>2. k + l = d + e
      BY <2>4, <3>1, Zenon
    <3>3. (k + f) + l = d + (e + f)
      BY <3>2
    <3>4. QED
      BY <3>1, <3>3, Zenon
  <2>8. QED
    BY <2>1, <2>2, <2>3, <2>7, Zenon
<1>6. AddUp(t, Append(w, x), st, n + 1, tot)
  BY <1>2, <1>5, Zenon DEF AddUp
<1>7. QED
  BY <1>2, <1>4, <1>6, Zenon

\* When all are inserted again, none is kept.
LEMMA AddUpDone ==
    ASSUME NEW t \in Tensors, NEW w \in Seq(Component(t)), NEW st \in Seq(Component(t)),
           NEW tot \in [Coordinates(t) -> Nat], AddUp(t, w, st, Len(st), tot)
    PROVE  AddUp(t, w, <<>>, 0, tot)
<1> SUFFICES ASSUME NEW c \in Coordinates(t)
             PROVE  Amount(w, c) + Amount(<<>>, Permuted(t, c)) =
                       tot[c] + Amount(SubSeq(<<>>, 1, 0), Permuted(t, c))
  BY DEF AddUp
<1>1. SubSeq(st, 1, Len(st)) = st
  BY SubSeqFull
<1>2. Amount(w, c) + Amount(st, Permuted(t, c)) = tot[c] + Amount(st, Permuted(t, c))
  BY <1>1 DEF AddUp
<1>3. Amount(w, c) \in Nat /\ Amount(st, Permuted(t, c)) \in Nat /\ tot[c] \in Nat
  BY UnitsFinite
<1>4. Amount(w, c) = tot[c]
  BY <1>2, <1>3
<1>5. SubSeq(<<>>, 1, 0) = <<>>
  BY SubSeqEmpty
<1>6. QED
  BY <1>4, <1>5

\* A list that holds the total, once it is kept and nothing else waits.
LEMMA AddUpKept ==
    ASSUME NEW t \in Tensors, NEW w \in Seq(Component(t)), NEW st \in Seq(Component(t)),
           NEW tot \in [Coordinates(t) -> Nat], AddUp(t, w, <<>>, 0, tot),
           \A c \in Coordinates(t) : Amount(st, Permuted(t, c)) = Amount(w, c)
    PROVE  AddUp(t, <<>>, st, 0, tot)
<1> SUFFICES ASSUME NEW c \in Coordinates(t)
             PROVE  Amount(<<>>, c) + Amount(st, Permuted(t, c)) =
                       tot[c] + Amount(SubSeq(st, 1, 0), Permuted(t, c))
  BY DEF AddUp
<1>1. SubSeq(<<>>, 1, 0) = <<>> /\ SubSeq(st, 1, 0) = <<>>
  BY SubSeqEmpty
<1>2. \A d : Amount(<<>>, d) = 0
  BY UnitsEmpty
<1>3. Amount(w, c) + Amount(<<>>, Permuted(t, c)) =
         tot[c] + Amount(<<>>, Permuted(t, c))
  BY <1>1, Zenon DEF AddUp
<1>4. Amount(w, c) \in Nat /\ tot[c] \in Nat
  BY UnitsFinite
<1>5. Amount(w, c) = tot[c]
  BY <1>2, <1>3, <1>4
<1>6. Amount(st, Permuted(t, c)) = Amount(w, c)
  OBVIOUS
<1>7. /\ Amount(<<>>, c) = 0 /\ Amount(SubSeq(st, 1, 0), Permuted(t, c)) = 0
      /\ Amount(st, Permuted(t, c)) = tot[c]
  BY <1>1, <1>2, <1>5, <1>6, Zenon
<1>8. 0 + tot[c] = tot[c] + 0
  BY <1>4
<1>9. QED
  BY <1>7, <1>8, Zenon

\* What is kept when nothing waits holds the total.
LEMMA AddUpNothing ==
    ASSUME NEW t \in Tensors, NEW st \in Seq(Component(t)),
           NEW tot \in [Coordinates(t) -> Nat], AddUp(t, <<>>, st, 0, tot),
           NEW c \in Coordinates(t)
    PROVE  Amount(st, Permuted(t, c)) = tot[c]
<1>1. SubSeq(st, 1, 0) = <<>>
  BY SubSeqEmpty
<1>2. \A d : Amount(<<>>, d) = 0
  BY UnitsEmpty
<1>3. Amount(<<>>, c) + Amount(st, Permuted(t, c)) =
         tot[c] + Amount(<<>>, Permuted(t, c))
  BY <1>1, Zenon DEF AddUp
<1>4. Amount(st, Permuted(t, c)) \in Nat /\ tot[c] \in Nat
  BY UnitsFinite
<1>5. QED
  BY <1>2, <1>3, <1>4

LEMMA WaitingType ==
    ASSUME SumInvariant, NEW t \in Tensors
    PROVE  /\ Waiting(t) \in Seq(Component(t)) /\ Kept(t) \in Seq(Component(t))
           /\ total[t] \in [Coordinates(t) -> Nat]
           /\ Order[t] > 0 \/ neverPacked[t] \/ goal[t] = "pack" =>
                 /\ used[t] <= Len(buffer[t])
                 /\ Waiting(t) = SubSeq(buffer[t], 1, used[t])
<1>1. Shape /\ Local(t) /\ Phases(t)
  BY DEF SumInvariant, SortInvariant, PackInvariant
<1>2. PICK b \in Seq(Component(t)), n \in Nat : b = buffer[t] /\ n = used[t]
  BY <1>1 DEF Local, Typed, Shape
<1>3. Order[t] \in Nat
  BY PackAssumption
<1>4. Order[t] > 0 \/ neverPacked[t] \/ goal[t] = "pack" => n <= Len(b)
  BY <1>1, <1>2 DEF Local, Room, Phases
<1>5. Order[t] > 0 \/ neverPacked[t] \/ goal[t] = "pack" =>
         Waiting(t) = SubSeq(b, 1, n)
  BY <1>2, <1>3 DEF Waiting
<1>6. ~(Order[t] > 0 \/ neverPacked[t] \/ goal[t] = "pack") => Waiting(t) = <<>>
  BY <1>3 DEF Waiting
<1>7. Waiting(t) \in Seq(Component(t))
  BY <1>4, <1>5, <1>6, PrefixType, EmptySeq
<1>8. Kept(t) \in Seq(Component(t))
  BY <1>1, EmptySeq DEF Kept, Local, Typed
<1>9. total[t] \in [Coordinates(t) -> Nat]
  BY <1>1 DEF Phases
<1>10. QED
  BY <1>2, <1>4, <1>5, <1>7, <1>8, <1>9

\* A step of t leaves the sums of t right and those of the others alone.
Summed(t) ==
    /\ DOMAIN total' = Tensors
    /\ \A u \in Tensors \ {t} : total'[u] = total[u]
    /\ Phases(t)' /\ Balance(t)'

LEMMA SumStep ==
    ASSUME SumInvariant, SortInvariant', NEW t \in Tensors, StepOf(t), Summed(t)
    PROVE  SumInvariant'
<1>1. ASSUME NEW u \in Tensors \ {t} PROVE Phases(u)' /\ Balance(u)'
  <2>1. Phases(u) /\ Balance(u)
    BY DEF SumInvariant
  <2>2. Same(u) /\ total'[u] = total[u]
    BY DEF StepOf, Summed
  <2>3. Phases(u)'
    BY <2>1, <2>2 DEF Phases, Same
  <2>4. Waiting(u)' = Waiting(u) /\ Kept(u)' = Kept(u) /\ Past(u)' = Past(u)
    BY <2>2 DEF Waiting, Kept, Past, Same
  <2>5. Balance(u)'
    BY <2>1, <2>2, <2>4 DEF Balance
  <2>6. QED
    BY <2>3, <2>5
<1>2. Phases(t)' /\ Balance(t)' /\ DOMAIN total' = Tensors
  BY DEF Summed
<1>3. QED
  BY <1>1, <1>2 DEF SumInvariant

\* A step that moves nothing.
LEMMA QuietSum ==
    ASSUME SumInvariant, NEW t \in Tensors, total' = total, Phases(t)',
           Waiting(t)' = Waiting(t), Kept(t)' = Kept(t), Past(t)' = Past(t)
    PROVE  Summed(t)
<1>1. Balance(t)'
  BY DEF SumInvariant, Balance
<1>2. QED
  BY <1>1 DEF Summed, SumInvariant

LEMMA InsertSum ==
    ASSUME SumInvariant, "scalarAgain" \notin Usage, NEW t \in Tensors,
           NEW c \in Coordinates(t), Insert(t, c)
    PROVE  Summed(t)
<1> USE DEF components, shared, threads, ghosts
<1>1. Shape /\ Local(t) /\ Phases(t) /\ Balance(t) /\ DOMAIN total = Tensors
  BY DEF SumInvariant, SortInvariant, PackInvariant
<1>2. PICK x \in Component(t) : x = [at |-> c, val |-> 1]
  BY DEF Component
<1>3. InsertUnsynced(t, x)
  BY <1>2 DEF Insert
<1>4. Order[t] > 0 \/ neverPacked[t]
  <2>1. Order[t] \in Nat
    BY PackAssumption
  <2>2. QED
    BY <2>1 DEF Insert
<1>5. /\ used[t] <= Len(buffer[t]) /\ Waiting(t) = SubSeq(buffer[t], 1, used[t])
      /\ Waiting(t) \in Seq(Component(t)) /\ Kept(t) \in Seq(Component(t))
      /\ total[t] \in [Coordinates(t) -> Nat]
  BY <1>4, WaitingType
<1>6. SubSeq(buffer'[t], 1, used'[t]) = Append(SubSeq(buffer[t], 1, used[t]), x)
      /\ used'[t] <= Len(buffer'[t])
  BY <1>1, <1>3, <1>5, InsertsOne DEF Local, Typed
<1>7. /\ storage' = storage /\ pc' = pc /\ goal' = goal /\ iter' = iter
      /\ neverPacked' = neverPacked /\ pc[t] = "idle"
      /\ needsPack' = [needsPack EXCEPT ![t] = TRUE]
      /\ total' = [total EXCEPT ![t][c] = @ + 1]
  BY DEF Insert
<1>8. Waiting(t)' = Append(Waiting(t), x)
  <2>1. ~(Order[t] = 0 /\ ~neverPacked[t] /\ goal'[t] # "pack")
    BY <1>4
  <2>2. Waiting(t)' = SubSeq(buffer'[t], 1, used'[t])
    BY <1>7, <2>1 DEF Waiting
  <2>3. QED
    BY <1>5, <1>6, <2>2, Zenon
<1>9. Kept(t)' = Kept(t) /\ Past(t)' = 0 /\ Past(t) = 0
  BY <1>7 DEF Kept, Past
<1>10. PICK tot \in [Coordinates(t) -> Nat] : tot = total[t]
  BY <1>5
<1>11. PICK tot1 : tot1 = [tot EXCEPT ![c] = @ + 1]
  OBVIOUS
<1>12. total'[t] = tot1 /\ DOMAIN total' = Tensors
       /\ \A u \in Tensors \ {t} : total'[u] = total[u]
  BY <1>1, <1>7, <1>10, <1>11
<1>13. tot1 \in [Coordinates(t) -> Nat]
  BY <1>10, <1>11
<1>14. \A d \in Coordinates(t) : tot1[d] = tot[d] + Worth(x, d)
  <2>1. TAKE d \in Coordinates(t)
  <2>2. Worth(x, d) = IF d = c THEN 1 ELSE 0
    BY <1>2 DEF Worth
  <2>3. tot1[d] = IF d = c THEN tot[d] + 1 ELSE tot[d]
    BY <1>11
  <2>4. tot[d] \in Nat
    OBVIOUS
  <2>5. QED
    BY <2>2, <2>3, <2>4
<1>15. AddUp(t, Waiting(t), Kept(t), 0, tot)
  BY <1>1, <1>9, <1>10 DEF Balance
<1>16. AddUp(t, Append(Waiting(t), x), Kept(t), 0, tot1)
  <2>1. PICK w \in Seq(Component(t)), st \in Seq(Component(t)) :
           w = Waiting(t) /\ st = Kept(t)
    BY <1>5
  <2>2. 0 \in Nat /\ 0 <= Len(st)
    BY LenProperties
  <2>3. AddUp(t, w, st, 0, tot)
    BY <1>15, <2>1
  <2>4. AddUp(t, Append(w, x), st, 0, tot1)
    BY <1>14, <2>2, <2>3, AddUpInsert
  <2>5. QED
    BY <2>1, <2>4
<1>17. Balance(t)'
  BY <1>8, <1>9, <1>12, <1>16 DEF Balance
<1>18. Phases(t)'
  <2>1. needsPack'[t] /\ goal'[t] = "none"
    BY <1>1, <1>7 DEF Shape, Local, Control
  <2>2. QED
    BY <1>1, <1>4, <1>7, <1>12, <1>13, <2>1 DEF Phases
<1>19. QED
  BY <1>12, <1>17, <1>18 DEF Summed

LEMMA ReserveSum ==
    ASSUME SumInvariant, NEW t \in Tensors, Reserve(t)
    PROVE  Summed(t)
<1> USE DEF components, shared, threads, ghosts
<1>1. Shape /\ Local(t) /\ Phases(t)
  BY DEF SumInvariant, SortInvariant, PackInvariant
<1>2. /\ used' = used /\ storage' = storage /\ iter' = iter /\ pc' = pc
      /\ goal' = goal /\ needsPack' = needsPack /\ neverPacked' = neverPacked
      /\ total' = total /\ pc[t] = "idle"
  BY DEF Reserve
<1>3. goal[t] = "none"
  BY <1>1, <1>2 DEF Local, Control
<1>4. Phases(t)'
  BY <1>1, <1>2, <1>3 DEF Phases
<1>5. Kept(t)' = Kept(t) /\ Past(t)' = Past(t)
  BY <1>2 DEF Kept, Past
<1>6. Waiting(t)' = Waiting(t)
  <2>1. CASE Order[t] = 0 /\ ~neverPacked[t]
    BY <1>2, <1>3, <2>1 DEF Waiting
  <2>2. CASE ~(Order[t] = 0 /\ ~neverPacked[t])
    <3>1. Order[t] > 0 \/ neverPacked[t]
      BY <2>2, PackAssumption
    <3>2. PICK b \in Seq(Component(t)), n \in Nat : b = buffer[t] /\ n = used[t]
      BY <1>1 DEF Local, Typed, Shape
    <3>3. PICK z : z = [i \in 1 .. Spare |-> Zeroed(t)]
      OBVIOUS
    <3>4. z \in Seq(Component(t))
      <4>1. Spare \in Nat /\ Zeroed(t) \in Component(t)
        BY PackAssumption, ZeroedType
      <4>2. z \in [1 .. Spare -> Component(t)]
        BY <3>3, <4>1
      <4>3. QED
        BY <4>1, <4>2, IsSeq
    <3>5. n <= Len(b)
      BY <1>1, <3>1, <3>2 DEF Local, Room
    <3>6. PICK bz : bz = b \o z
      OBVIOUS
    <3>7. buffer'[t] = bz
      BY <1>1, <3>2, <3>3, <3>6 DEF Reserve, Shape
    <3>8. /\ bz \in Seq(Component(t)) /\ Len(bz) >= Len(b)
          /\ \A i \in 1 .. Len(b) : bz[i] = b[i]
      <4>1. Len(b) \in Nat /\ Len(z) \in Nat
        BY <3>4, LenProperties
      <4>2. /\ bz \in Seq(Component(t)) /\ Len(bz) = Len(b) + Len(z)
            /\ \A i \in 1 .. Len(b) + Len(z) :
                  bz[i] = IF i <= Len(b) THEN b[i] ELSE z[i - Len(b)]
        BY <3>4, <3>6, ConcatProperties
      <4>3. QED
        BY <4>1, <4>2
    <3>9. SubSeq(bz, 1, n) = SubSeq(b, 1, n)
      <4>1. \A i \in 1 .. n : bz[i] = b[i] /\ b[i] \in Component(t)
        BY <3>5, <3>8, ElementOfSeq
      <4>2. PICK p, q : p = SubSeq(bz, 1, n) /\ q = SubSeq(b, 1, n)
        OBVIOUS
      <4>3. q \in Seq(Component(t)) /\ Len(q) = n /\ \A i \in 1 .. n : q[i] = b[i]
        BY <4>1, <4>2
      <4>4. p \in Seq(Component(t)) /\ Len(p) = n /\ \A i \in 1 .. n : p[i] = bz[i]
        BY <4>1, <4>2
      <4>5. \A i \in 1 .. n : p[i] = q[i]
        BY <4>1, <4>3, <4>4
      <4>6. p = q
        BY <4>3, <4>4, <4>5, SeqEqual
      <4>7. QED
        BY <4>2, <4>6
    <3>10. Waiting(t) = SubSeq(b, 1, n)
      BY <2>2, <3>2 DEF Waiting
    <3>11. Waiting(t)' = SubSeq(bz, 1, n)
      BY <1>2, <2>2, <3>2, <3>7 DEF Waiting
    <3>12. QED
      BY <3>9, <3>10, <3>11
  <2>3. QED
    BY <2>1, <2>2
<1>7. QED
  BY <1>2, <1>4, <1>5, <1>6, QuietSum

LEMMA CallSum ==
    ASSUME SumInvariant, NEW t \in Tensors, NEW method \in {"pack", "iterate"},
           Call(t, method)
    PROVE  Summed(t)
<1> USE DEF components, shared, threads, ghosts, Goto
<1>1. Shape /\ Local(t) /\ Phases(t) /\ Balance(t) /\ DOMAIN total = Tensors
  BY DEF SumInvariant, SortInvariant, PackInvariant
<1>2. /\ buffer' = buffer /\ used' = used /\ storage' = storage
      /\ iter' = iter /\ total' = total /\ pc[t] = "idle"
  BY DEF Call
<1>3. goal[t] = "none" /\ Order[t] \in Nat
  BY <1>1, <1>2, PackAssumption DEF Local, Control
<1>4. Past(t) = 0 /\ Kept(t) = storage[t]
  BY <1>2, <1>3 DEF Past, Kept
<1>5. CASE ~needsPack[t] /\ UNCHANGED <<needsPack, neverPacked>>
           /\ pc' = [pc EXCEPT ![t] = "lookup"] /\ goal' = [goal EXCEPT ![t] = "read"]
  <2>1. pc'[t] = "lookup" /\ goal'[t] = "read"
    BY <1>1, <1>5 DEF Shape
  <2>2. Waiting(t)' = Waiting(t) /\ Kept(t)' = Kept(t) /\ Past(t)' = Past(t)
    BY <1>2, <1>3, <1>4, <1>5, <2>1 DEF Waiting, Kept, Past
  <2>3. Phases(t)'
    BY <1>1, <1>2, <1>3, <1>5, <2>1 DEF Phases
  <2>4. QED
    BY <1>2, <2>2, <2>3, QuietSum
<1>6. CASE needsPack[t] /\ BeginPack(t)
  <2>1. /\ pc'[t] = "lookup" /\ ~needsPack'[t] /\ ~neverPacked'[t]
        /\ goal'[t] = IF neverPacked[t] THEN "pack" ELSE "reinsert"
    BY <1>1, <1>6 DEF Shape, BeginPack
  <2>2. CASE neverPacked[t]
    <3>1. used[t] <= Len(buffer[t]) /\ storage[t] = <<>>
      BY <1>1, <2>2 DEF Local, Room, Phases
    <3>2. goal'[t] = "pack"
      BY <2>1, <2>2
    <3>3. Waiting(t)' = Waiting(t)
      BY <1>2, <2>2, <3>2 DEF Waiting
    <3>4. Kept(t)' = <<>> /\ Past(t)' = 0
      BY <2>1, <3>2 DEF Kept, Past
    <3>5. Balance(t)'
      BY <1>1, <1>2, <1>4, <3>1, <3>3, <3>4 DEF Balance
    <3>6. Phases(t)'
      BY <1>1, <1>2, <2>1, <3>1, <3>2 DEF Phases
    <3>7. QED
      BY <1>1, <1>2, <3>5, <3>6 DEF Summed
  <2>3. CASE ~neverPacked[t]
    <3>1. Order[t] > 0
      BY <1>1, <1>3, <1>6, <2>3 DEF Phases
    <3>2. goal'[t] = "reinsert"
      BY <2>1, <2>3
    <3>3. Waiting(t)' = Waiting(t)
      BY <1>2, <1>3, <3>1 DEF Waiting
    <3>4. Kept(t)' = Kept(t) /\ Past(t)' = Past(t)
      BY <1>2, <1>4, <2>1, <3>2 DEF Kept, Past
    <3>5. Phases(t)'
      BY <1>1, <1>2, <2>1, <3>1, <3>2 DEF Phases
    <3>6. QED
      BY <1>2, <3>3, <3>4, <3>5, QuietSum
  <2>4. QED
    BY <2>2, <2>3
<1>7. QED
  BY <1>5, <1>6 DEF Call

\* A thread that looks for its helper functions or enters them.
LEMMA LookupSum ==
    ASSUME SumInvariant, NEW t \in Tensors, pc[t] # "loop", pc'[t] # "loop",
           UNCHANGED <<buffer, used, neverPacked, needsPack, storage, goal, total>>
    PROVE  Summed(t)
<1>1. Phases(t)
  BY DEF SumInvariant
<1>2. Phases(t)'
  BY <1>1 DEF Phases
<1>3. Waiting(t)' = Waiting(t) /\ Kept(t)' = Kept(t) /\ Past(t)' = Past(t)
  BY DEF Waiting, Kept, Past
<1>4. QED
  BY <1>2, <1>3, QuietSum

LEMMA BeginSum ==
    ASSUME SumInvariant, NEW t \in Tensors, Begin(t)
    PROVE  Summed(t)
<1> USE DEF components, shared, threads, ghosts
<1>1. Shape /\ Local(t) /\ Phases(t)
  BY DEF SumInvariant, SortInvariant, PackInvariant
<1>2. /\ UNCHANGED <<buffer, used, neverPacked, needsPack, storage, goal, total>>
      /\ pc[t] = "begin"
      /\ iter' = [iter EXCEPT ![t] = Advanced(t, NoIterator)]
  BY DEF Begin
<1>3. Done(iter'[t]) = 0
  <2>1. iter'[t] = Advanced(t, NoIterator)
    BY <1>1, <1>2 DEF Shape
  <2>2. QED
    BY <1>1, <2>1, BeginOk DEF Local, Typed
<1>4. Past(t) = 0 /\ Past(t)' = 0
  BY <1>2, <1>3 DEF Past
<1>5. Phases(t)'
  BY <1>1, <1>2 DEF Phases
<1>6. Waiting(t)' = Waiting(t) /\ Kept(t)' = Kept(t)
  BY <1>2 DEF Waiting, Kept
<1>7. QED
  BY <1>2, <1>4, <1>5, <1>6, QuietSum

LEMMA LoopSum ==
    ASSUME SumInvariant, NEW t \in Tensors, Step(t)
    PROVE  Summed(t)
<1> USE DEF components, shared, threads, ghosts
<1>1. Shape /\ Local(t) /\ Phases(t) /\ Balance(t) /\ DOMAIN total = Tensors
  BY DEF SumInvariant, SortInvariant, PackInvariant
<1>2. /\ UNCHANGED <<neverPacked, needsPack, storage, goal, total, pc>>
      /\ pc[t] = "loop" /\ iter[t].chunk # <<>>
      /\ iter' = [iter EXCEPT ![t] = Advanced(t, @)]
  BY DEF Step
<1>3. PICK it : it = iter[t] /\ it.chunk # <<>> /\ iter'[t] = Advanced(t, it)
  BY <1>1, <1>2 DEF Shape
<1>4. PICK st \in Seq(Component(t)) : st = storage[t]
  BY <1>1 DEF Local, Typed
<1>5. IterOk(t, storage[t], it)
  BY <1>1, <1>2, <1>3 DEF Local, Iterating
<1>6. PICK n \in Nat : n = Done(it) /\ n < Len(st)
  BY <1>3, <1>4, <1>5, AdvancedOk
<1>7. Done(iter'[t]) = n + 1 /\ it.chunk[it.pos + 1] = Turned(t, st[n + 1])
  BY <1>3, <1>4, <1>5, <1>6, AdvancedOk
<1>8. CASE goal[t] = "reinsert" /\ InsertUnsynced(t, Current(t))
  <2>1. PICK x \in Component(t) : x = Turned(t, st[n + 1])
    <3>1. n + 1 \in 1 .. Len(st)
      <4>1. Len(st) \in Nat
        BY LenProperties
      <4>2. QED
        BY <1>6, <4>1
    <3>2. st[n + 1] \in Component(t)
      BY <3>1, ElementOfSeq
    <3>3. QED
      BY <3>2, TurnedType
  <2>2. InsertUnsynced(t, x)
    BY <1>3, <1>7, <1>8, <2>1 DEF Current
  <2>3. Order[t] > 0 /\ ~neverPacked[t] /\ ~needsPack[t]
    <3>1. Order[t] \in Nat
      BY PackAssumption
    <3>2. ~neverPacked[t] /\ ~needsPack[t]
      BY <1>1, <1>2 DEF Local, Control
    <3>3. QED
      BY <1>1, <1>8, <3>1, <3>2 DEF Phases
  <2>4. /\ used[t] <= Len(buffer[t]) /\ Waiting(t) = SubSeq(buffer[t], 1, used[t])
        /\ Waiting(t) \in Seq(Component(t)) /\ total[t] \in [Coordinates(t) -> Nat]
    BY <2>3, WaitingType
  <2>5. SubSeq(buffer'[t], 1, used'[t]) = Append(SubSeq(buffer[t], 1, used[t]), x)
    BY <1>1, <2>2, <2>4, InsertsOne DEF Local, Typed
  <2>6. Waiting(t)' = Append(Waiting(t), x)
    <3>1. Order[t] # 0
      BY <2>3
    <3>2. Waiting(t)' = SubSeq(buffer'[t], 1, used'[t])
      BY <3>1 DEF Waiting
    <3>3. QED
      BY <2>4, <2>5, <3>2, Zenon
  <2>7. Kept(t) = st /\ Kept(t)' = st /\ Past(t) = n /\ Past(t)' = n + 1
    BY <1>2, <1>3, <1>4, <1>6, <1>7, <1>8 DEF Kept, Past
  <2>8. PICK w \in Seq(Component(t)), tot \in [Coordinates(t) -> Nat] :
           w = Waiting(t) /\ tot = total[t]
    BY <2>4
  <2>9. AddUp(t, w, st, n, tot)
    BY <1>1, <2>7, <2>8 DEF Balance
  <2>10. AddUp(t, Append(w, x), st, n + 1, tot)
    BY <1>6, <2>1, <2>9, AddUpAgain
  <2>11. Balance(t)'
    BY <1>2, <2>6, <2>7, <2>8, <2>10 DEF Balance
  <2>12. Phases(t)'
    BY <1>1, <1>2, <1>8, <2>3 DEF Phases
  <2>13. QED
    BY <1>1, <1>2, <2>11, <2>12 DEF Summed
<1>9. CASE goal[t] = "read" /\ UNCHANGED <<buffer, used>>
  <2>1. Phases(t)'
    BY <1>1, <1>2, <1>9 DEF Phases
  <2>2. Waiting(t)' = Waiting(t) /\ Kept(t)' = Kept(t) /\ Past(t)' = Past(t)
    BY <1>2, <1>9 DEF Waiting, Kept, Past
  <2>3. QED
    BY <1>2, <2>1, <2>2, QuietSum
<1>10. QED
  BY <1>8, <1>9 DEF Step

LEMMA EndSum ==
    ASSUME SumInvariant, NEW t \in Tensors, End(t)
    PROVE  Summed(t)
<1> USE DEF components, shared, threads, ghosts, Goto
<1>1. Shape /\ Local(t) /\ Phases(t) /\ Balance(t) /\ DOMAIN total = Tensors
  BY DEF SumInvariant, SortInvariant, PackInvariant
<1>2. /\ UNCHANGED <<buffer, used, neverPacked, needsPack, storage, total>>
      /\ pc[t] = "loop" /\ iter[t].chunk = <<>>
  BY DEF End
<1>3. ~needsPack[t] /\ ~neverPacked[t] /\ Order[t] \in Nat
  BY <1>1, <1>2, PackAssumption DEF Local, Control
<1>4. CASE goal[t] = "reinsert"
  <2>1. pc'[t] = "lookup" /\ goal'[t] = "pack"
    BY <1>1, <1>4 DEF End, Shape
  <2>2. Order[t] > 0
    BY <1>1, <1>3, <1>4 DEF Phases
  <2>3. used[t] <= Len(buffer[t])
    BY <1>1, <2>2 DEF Local, Room
  <2>4. PICK st \in Seq(Component(t)) : st = storage[t]
    BY <1>1 DEF Local, Typed
  <2>5. Done(iter[t]) = Len(st)
    <3>1. Len(iter[t].chunk) = 0 /\ iter[t].pos = 0 /\ iter[t].ctx = Len(st)
      BY <1>1, <1>2, <2>4, EmptySeq DEF Local, Iterating, IterOk
    <3>2. Len(st) \in Nat
      BY LenProperties
    <3>3. QED
      BY <3>1, <3>2 DEF Done
  <2>6. Kept(t) = st /\ Past(t) = Len(st) /\ Kept(t)' = <<>> /\ Past(t)' = 0
    BY <1>2, <1>4, <2>1, <2>4, <2>5 DEF Kept, Past
  <2>7. Waiting(t)' = Waiting(t)
    BY <1>2, <2>2 DEF Waiting
  <2>8. PICK w \in Seq(Component(t)), tot \in [Coordinates(t) -> Nat] :
           w = Waiting(t) /\ tot = total[t]
    BY WaitingType
  <2>9. AddUp(t, w, st, Len(st), tot)
    BY <1>1, <2>6, <2>8 DEF Balance
  <2>10. AddUp(t, w, <<>>, 0, tot)
    BY <2>9, AddUpDone
  <2>11. Balance(t)'
    BY <1>2, <2>6, <2>7, <2>8, <2>10 DEF Balance
  <2>12. Phases(t)'
    BY <1>1, <1>2, <1>3, <2>1, <2>2, <2>3 DEF Phases
  <2>13. QED
    BY <1>1, <1>2, <2>11, <2>12 DEF Summed
<1>5. CASE goal[t] = "read"
  <2>1. pc'[t] = "read" /\ goal'[t] = "none"
    BY <1>1, <1>5 DEF End, Shape
  <2>2. Phases(t)'
    BY <1>1, <1>2, <1>5, <2>1 DEF Phases
  <2>3. Waiting(t)' = Waiting(t) /\ Kept(t)' = Kept(t) /\ Past(t)' = Past(t)
    BY <1>2, <1>5, <2>1 DEF Waiting, Kept, Past
  <2>4. QED
    BY <1>2, <2>2, <2>3, QuietSum
<1>6. QED
  BY <1>1, <1>2, <1>4, <1>5 DEF Local, Control

LEMMA ReturnSum ==
    ASSUME SumInvariant, NEW t \in Tensors, Return(t)
    PROVE  Summed(t)
<1> USE DEF components, shared, threads, ghosts, Goto
<1>1. Shape /\ Local(t) /\ Phases(t)
  BY DEF SumInvariant, SortInvariant, PackInvariant
<1>2. /\ UNCHANGED <<buffer, used, neverPacked, needsPack, storage, total>>
      /\ pc[t] = "read" /\ pc'[t] = "idle" /\ goal'[t] = "none" /\ goal[t] = "none"
  BY <1>1 DEF Return, Shape, Local, Control
<1>3. Phases(t)'
  BY <1>1, <1>2 DEF Phases
<1>4. Waiting(t)' = Waiting(t) /\ Kept(t)' = Kept(t) /\ Past(t)' = Past(t)
  BY <1>2 DEF Waiting, Kept, Past
<1>5. QED
  BY <1>2, <1>3, <1>4, QuietSum

\* The end of pack(): nothing waits any more, and what is stored holds what
\* waited.
LEMMA PackedSum ==
    ASSUME SumInvariant, NEW t \in Tensors, NEW st \in Seq(Component(t)),
           Finishes(t, st),
           \A c \in Coordinates(t) : Amount(st, Permuted(t, c)) = Amount(Waiting(t), c)
    PROVE  Summed(t)
<1> USE DEF components, shared, threads, ghosts
<1>1. /\ PackInvariant /\ Shape /\ Local(t) /\ Phases(t) /\ Balance(t)
      /\ DOMAIN total = Tensors
  BY DEF SumInvariant, SortInvariant, PackInvariant
<1>2. /\ storage'[t] = st /\ total' = total
      /\ neverPacked' = neverPacked /\ needsPack' = needsPack
  <2>1. storage'[t] = st
    BY <1>1, PackedKeeps
  <2>2. QED
    BY <2>1 DEF Finishes, Packed
<1>3. pc[t] \in {"pack", "sort"} /\ goal[t] = "pack" /\ ~needsPack[t] /\ ~neverPacked[t]
  BY <1>1 DEF Finishes, Local, Control
<1>4. pc'[t] \in {"lookup", "idle"} /\ goal'[t] \in {"read", "none"}
  BY <1>1 DEF Finishes, Packed, Goto, Shape
<1>5. buffer'[t] = <<>> /\ (Order[t] = 0 \/ used'[t] = 0)
  BY <1>1 DEF Finishes, Shape
<1>6. Waiting(t)' = <<>>
  <2>1. CASE Order[t] = 0
    BY <1>2, <1>3, <1>4, <2>1 DEF Waiting
  <2>2. CASE Order[t] # 0
    <3>1. Waiting(t)' = SubSeq(<<>>, 1, 0)
      BY <1>5, <2>2 DEF Waiting
    <3>2. QED
      BY <3>1, SubSeqEmpty
  <2>3. QED
    BY <2>1, <2>2
<1>7. Kept(t)' = st /\ Past(t)' = 0 /\ Kept(t) = <<>> /\ Past(t) = 0
  BY <1>2, <1>3, <1>4 DEF Kept, Past
<1>8. PICK w \in Seq(Component(t)), tot \in [Coordinates(t) -> Nat] :
         w = Waiting(t) /\ tot = total[t]
  BY WaitingType
<1>9. AddUp(t, w, <<>>, 0, tot)
  BY <1>1, <1>7, <1>8 DEF Balance
<1>10. AddUp(t, <<>>, st, 0, tot)
  BY <1>8, <1>9, AddUpKept
<1>11. Balance(t)'
  BY <1>2, <1>6, <1>7, <1>8, <1>10 DEF Balance
<1>12. Phases(t)'
  BY <1>1, <1>2, <1>3, <1>4, <1>5 DEF Phases
<1>13. QED
  BY <1>1, <1>2, <1>11, <1>12 DEF Summed

\* What pack() reads is what waits: it never reads past the buffer's end.
LEMMA UsedIsWaiting ==
    ASSUME SumInvariant, NEW t \in Tensors, goal[t] = "pack", NEW part \in UsedParts(t)
    PROVE  part = Waiting(t)
<1>1. used[t] <= Len(buffer[t]) /\ Waiting(t) = SubSeq(buffer[t], 1, used[t])
  BY WaitingType
<1>2. QED
  BY <1>1 DEF UsedParts

\* A zero adds nothing.
LEMMA AmountZeroed ==
    ASSUME NEW t \in Tensors, NEW c
    PROVE  Amount(<<Zeroed(t)>>, c) = 0
<1>1. PICK q : q = <<Zeroed(t)>>
  OBVIOUS
<1>2. Len(q) = 1 /\ q[1] = Zeroed(t)
  BY <1>1
<1>3. Zeroed(t).val = 0
  BY DEF Zeroed
<1>4. \A u : u \notin Units(q, c)
  <2> SUFFICES ASSUME NEW u \in Units(q, c) PROVE FALSE
    OBVIOUS
  <2>1. u \in (1 .. 1) \X Nat /\ u[2] \in 1 .. q[u[1]].val
    BY <1>2 DEF Units
  <2>2. u[1] = 1
    BY <2>1
  <2>3. u[2] \in 1 .. 0
    BY <1>2, <1>3, <2>1, <2>2
  <2>4. QED
    BY <2>3
<1>5. Units(q, c) = {}
  BY <1>4
<1>6. QED
  BY <1>1, <1>5, FS_EmptySet DEF Amount

\* A scalar has one coordinate.
LEMMA PermutedScalar ==
    ASSUME NEW t \in Tensors, Order[t] = 0, NEW c \in Coordinates(t)
    PROVE  Permuted(t, c) = c
<1>1. Permuted(t, c) \in Coordinates(t)
  BY PermutedBack
<1>2. 1 .. 0 = {}
  OBVIOUS
<1>3. \A a, b \in [{} -> 1 .. Dimension] : a = b
  OBVIOUS
<1>4. Coordinates(t) = [{} -> 1 .. Dimension]
  BY <1>2 DEF Coordinates
<1>5. QED
  BY <1>1, <1>3, <1>4

LEMMA PackScalarSum ==
    ASSUME SumInvariant, NEW t \in Tensors, PackScalar(t)
    PROVE  Summed(t)
<1> USE DEF components, shared, threads, ghosts
<1>1. PackInvariant /\ Shape /\ Local(t)
  BY DEF SumInvariant, SortInvariant, PackInvariant
<1>2. PICK part \in UsedParts(t) :
         Packed(t, IF part = <<>> THEN <<Zeroed(t)>> ELSE Merged(part))
  BY DEF PackScalar
<1>3. PICK st : st = IF part = <<>> THEN <<Zeroed(t)>> ELSE Merged(part)
  OBVIOUS
<1>4. pc[t] = "pack" /\ goal[t] = "pack" /\ Order[t] = 0
  BY <1>1 DEF PackScalar, Local, Control
<1>5. part = Waiting(t)
  BY <1>4, UsedIsWaiting
<1>6. part \in Seq(Component(t))
  BY <1>5, WaitingType
<1>7. st \in Seq(Component(t))
  BY <1>3, <1>6, MergedType, ZeroedType
<1>8. Finishes(t, st)
  <2>1. Packed(t, st)
    BY <1>2, <1>3
  <2>2. /\ buffer' = [buffer EXCEPT ![t] = <<>>] /\ used' = used
        /\ narrowest' \in [Tensors -> Nat] /\ numIntegersToCompare' \in 0 .. 2
    BY <1>1 DEF PackScalar, Shape
  <2>3. QED
    BY <1>4, <2>1, <2>2 DEF Finishes
<1>9. ASSUME NEW c \in Coordinates(t)
      PROVE  Amount(st, Permuted(t, c)) = Amount(part, c)
  <2>1. Amount(st, c) = Amount(part, c)
    <3>1. CASE part = <<>>
      BY <1>3, <3>1, AmountZeroed, UnitsEmpty
    <3>2. CASE part # <<>>
      BY <1>3, <1>6, <3>2, AmountMerged
    <3>3. QED
      BY <3>1, <3>2
  <2>2. QED
    BY <1>4, <2>1, PermutedScalar
<1>10. QED
  BY <1>5, <1>7, <1>8, <1>9, PackedSum

LEMMA PackSortedSum ==
    ASSUME SumInvariant, NEW t \in Tensors, PackSorted(t)
    PROVE  Summed(t)
<1> USE DEF components, shared, threads, ghosts
<1>1. PackInvariant /\ Shape /\ Local(t)
  BY DEF SumInvariant, SortInvariant, PackInvariant
<1>2. PICK part \in UsedParts(t) :
         \E q \in Sorts(t, PermutedAll(t, part), narrowest[t]) :
            Packed(t, PackKernel(t, q))
  BY DEF PackSorted
<1>3. PICK q \in Sorts(t, PermutedAll(t, part), narrowest[t]) :
         Packed(t, PackKernel(t, q))
  BY <1>2
<1>4. pc[t] = "sort" /\ goal[t] = "pack" /\ narrowest[t] \in Nat
      /\ narrowest[t] >= Order[t]
  <2>1. pc[t] = "sort" /\ goal[t] = "pack" /\ narrowest[t] \in Nat
    BY <1>1 DEF PackSorted, Local, Control, Shape
  <2>2. QED
    BY <2>1 DEF SumInvariant, SortInvariant, Wide
<1>5. part = Waiting(t)
  BY <1>4, UsedIsWaiting
<1>6. part \in Seq(Component(t))
  BY <1>5, WaitingType
<1>7. PICK r \in Seq(Component(t)) : r = PermutedAll(t, part)
  BY <1>6, PermutedAllType
<1>8. q \in Seq(Component(t)) /\ Ascending(t, q) /\ \E p : Rearranged(r, p, q)
  BY <1>3, <1>4, <1>7, SortsAre
<1>9. PICK p : Rearranged(r, p, q)
  BY <1>8
<1>10. PICK st \in Seq(Component(t)) : st = PackKernel(t, q)
  BY <1>8, KernelType
<1>11. Finishes(t, st)
  <2>1. /\ buffer' = [buffer EXCEPT ![t] = <<>>] /\ used' = [used EXCEPT ![t] = 0]
        /\ narrowest' = [narrowest EXCEPT ![t] = 0]
        /\ numIntegersToCompare' = numIntegersToCompare
    BY DEF PackSorted
  <2>2. Packed(t, st)
    BY <1>3, <1>10
  <2>3. narrowest' \in [Tensors -> Nat] /\ numIntegersToCompare' \in 0 .. 2
    BY <1>1, <2>1 DEF Shape
  <2>4. QED
    BY <1>4, <2>1, <2>2, <2>3 DEF Finishes
<1>12. ASSUME NEW c \in Coordinates(t)
       PROVE  Amount(st, Permuted(t, c)) = Amount(part, c)
  <2>1. PICK d \in Coordinates(t) : d = Permuted(t, c)
    BY PermutedBack
  <2>2. Amount(st, d) = Amount(q, d)
    BY <1>8, <1>10, AmountKernel
  <2>3. Amount(q, d) = Amount(r, d)
    BY <1>7, <1>8, <1>9, AmountRearranged
  <2>4. Amount(r, d) = Amount(part, c)
    BY <1>6, <1>7, <2>1, AmountPermuted
  <2>5. QED
    BY <2>1, <2>2, <2>3, <2>4
<1>13. QED
  BY <1>5, <1>11, <1>12, PackedSum

LEMMA SumInit == Init => SumInvariant
<1> SUFFICES ASSUME Init PROVE SumInvariant
  OBVIOUS
<1>1. SortInvariant /\ DOMAIN total = Tensors
  BY SortInit DEF Init
<1>2. ASSUME NEW t \in Tensors PROVE Phases(t) /\ Balance(t)
  <2>1. /\ buffer[t] = <<>> /\ used[t] = 0 /\ neverPacked[t] /\ needsPack[t]
        /\ storage[t] = <<>> /\ goal[t] = "none" /\ pc[t] = "idle"
        /\ total[t] = [c \in Coordinates(t) |-> 0]
    BY <1>2 DEF Init
  <2>2. Phases(t)
    BY <2>1 DEF Phases
  <2>3. Waiting(t) = <<>>
    <3>1. Waiting(t) = SubSeq(<<>>, 1, 0)
      BY <2>1 DEF Waiting
    <3>2. QED
      BY <3>1, SubSeqEmpty
  <2>4. Kept(t) = <<>> /\ Past(t) = 0
    BY <2>1 DEF Kept, Past
  <2>5. PICK tot \in [Coordinates(t) -> Nat] :
           tot = total[t] /\ \A c \in Coordinates(t) : tot[c] = 0
    BY <2>1
  <2>6. AddUp(t, <<>>, <<>>, 0, tot)
    <3> SUFFICES ASSUME NEW c \in Coordinates(t)
                 PROVE  Amount(<<>>, c) + Amount(<<>>, Permuted(t, c)) =
                           tot[c] + Amount(SubSeq(<<>>, 1, 0), Permuted(t, c))
      BY DEF AddUp
    <3>1. SubSeq(<<>>, 1, 0) = <<>>
      BY SubSeqEmpty
    <3>2. Amount(<<>>, c) = 0 /\ Amount(<<>>, Permuted(t, c)) = 0
      BY UnitsEmpty
    <3>3. QED
      BY <2>5, <3>1, <3>2
  <2>7. Balance(t)
    BY <2>3, <2>4, <2>5, <2>6 DEF Balance
  <2>8. QED
    BY <2>2, <2>7
<1>3. QED
  BY <1>1, <1>2 DEF SumInvariant

\* Every step of a thread moves components, and loses and invents none.
LEMMA SumNext ==
    ASSUME SameOrders, "scalarAgain" \notin Usage
    PROVE  SumInvariant /\ [Next]_vars => SumInvariant'
<1> SUFFICES ASSUME SumInvariant, [Next]_vars PROVE SumInvariant'
  OBVIOUS
<1>1. SortInvariant /\ PackInvariant /\ Shape
  BY DEF SumInvariant, SortInvariant, PackInvariant
<1>2. SortInvariant'
  BY <1>1, SortNext
<1>3. CASE UNCHANGED vars
  <2> USE DEF vars, components, shared, threads, ghosts
  <2>1. ASSUME NEW t \in Tensors PROVE Phases(t)' /\ Balance(t)'
    <3>1. Phases(t) /\ Balance(t)
      BY DEF SumInvariant
    <3>2. Phases(t)'
      BY <1>3, <3>1 DEF Phases
    <3>3. Waiting(t)' = Waiting(t) /\ Kept(t)' = Kept(t) /\ Past(t)' = Past(t)
      BY <1>3 DEF Waiting, Kept, Past
    <3>4. Balance(t)'
      BY <1>3, <3>1, <3>3 DEF Balance
    <3>5. QED
      BY <3>2, <3>4
  <2>2. DOMAIN total' = Tensors
    BY <1>3 DEF SumInvariant
  <2>3. QED
    BY <1>2, <2>1, <2>2 DEF SumInvariant
<1>4. ASSUME NEW t \in program,
             \/ \E c \in Coordinates(t) : Insert(t, c)
             \/ Reserve(t)
             \/ \E method \in {"pack", "iterate"} : Call(t, method)
             \/ Hit(t) \/ Miss(t) \/ Enter(t)
             \/ Begin(t) \/ Step(t) \/ End(t) \/ Return(t)
             \/ PackScalar(t) \/ SetWidth(t) \/ PackSorted(t)
      PROVE  SumInvariant'
  <2> USE DEF components, shared, threads, ghosts
  <2>1. t \in Tensors
    BY <1>1, ProgramTensors
  <2>2. CASE \E c \in Coordinates(t) : Insert(t, c)
    BY <1>1, <1>2, <2>1, <2>2, InsertKeeps, InsertSum, SumStep
  <2>3. CASE Reserve(t)
    BY <1>1, <1>2, <2>1, <2>3, ReserveKeeps, ReserveSum, SumStep
  <2>4. CASE \E method \in {"pack", "iterate"} : Call(t, method)
    BY <1>1, <1>2, <2>1, <2>4, CallKeeps, CallSum, SumStep
  <2>5. CASE Hit(t) \/ Enter(t)
    <3>1. pc[t] \in {"lookup", "compile"} /\ Found(t) /\ seen' = seen /\ total' = total
      BY <2>5 DEF Hit, Enter
    <3>2. StepOf(t)
      BY <1>1, <2>1, <3>1, FoundKeeps
    <3>3. pc[t] # "loop" /\ pc'[t] # "loop"
      BY <1>1, <2>1, <3>1 DEF Found, Shape
    <3>4. UNCHANGED <<buffer, used, neverPacked, needsPack, storage, goal, total>>
      BY <3>1 DEF Found
    <3>5. QED
      BY <1>2, <2>1, <3>2, <3>3, <3>4, LookupSum, SumStep
  <2>6. CASE Miss(t)
    <3>1. StepOf(t)
      BY <1>1, <2>1, <2>6, MissKeeps
    <3>2. pc[t] # "loop" /\ pc'[t] # "loop"
      BY <1>1, <2>1, <2>6 DEF Miss, Shape
    <3>3. UNCHANGED <<buffer, used, neverPacked, needsPack, storage, goal, total>>
      BY <2>6 DEF Miss
    <3>4. QED
      BY <1>2, <2>1, <3>1, <3>2, <3>3, LookupSum, SumStep
  <2>7. CASE Begin(t)
    BY <1>1, <1>2, <2>1, <2>7, BeginKeeps, BeginSum, SumStep
  <2>8. CASE Step(t)
    BY <1>1, <1>2, <2>1, <2>8, StepKeepsLocal, LoopSum, SumStep
  <2>9. CASE End(t)
    BY <1>1, <1>2, <2>1, <2>9, EndKeeps, EndSum, SumStep
  <2>10. CASE Return(t)
    BY <1>1, <1>2, <2>1, <2>10, ReturnKeeps, ReturnSum, SumStep
  <2>11. CASE PackScalar(t)
    BY <1>1, <1>2, <2>1, <2>11, PackScalarKeeps, PackScalarSum, SumStep
  <2>12. CASE SetWidth(t)
    <3>1. StepOf(t)
      BY <1>1, <2>1, <2>12, SetWidthKeeps
    <3>2. pc[t] # "loop" /\ pc'[t] # "loop"
      BY <1>1, <2>1, <2>12 DEF SetWidth, Shape
    <3>3. UNCHANGED <<buffer, used, neverPacked, needsPack, storage, goal, total>>
      BY <2>12 DEF SetWidth
    <3>4. QED
      BY <1>2, <2>1, <3>1, <3>2, <3>3, LookupSum, SumStep
  <2>13. CASE PackSorted(t)
    BY <1>1, <1>2, <2>1, <2>13, PackSortedKeeps, PackSortedSum, SumStep
  <2>14. QED
    BY <1>4, <2>2, <2>3, <2>4, <2>5, <2>6, <2>7, <2>8, <2>9, <2>10, <2>11,
       <2>12, <2>13
<1>5. QED
  BY <1>3, <1>4 DEF Next

\* What waits and what is kept add up to what was inserted, at every
\* coordinate and in every state.
THEOREM SumInvariantHolds ==
    ASSUME SameOrders, "scalarAgain" \notin Usage
    PROVE  Spec => []SumInvariant
BY SumInit, SumNext, PTL DEF Spec

\* The increment semantics of pack(): a packed tensor holds at every
\* coordinate the sum of all that was ever inserted there.
THEOREM IncrementSemanticsHolds ==
    ASSUME SameOrders, "scalarAgain" \notin Usage
    PROVE  Spec => []IncrementSemantics
<1>1. SumInvariant => IncrementSemantics
  <2> SUFFICES ASSUME SumInvariant, NEW t \in Tensors, pc[t] = "idle", ~needsPack[t],
                      NEW c \in Coordinates(t)
               PROVE  StoredAt(storage[t], Permuted(t, c)) = total[t][c]
    BY DEF IncrementSemantics
  <2>1. Local(t) /\ Shape /\ Phases(t) /\ Balance(t) /\ Sorted(t)
    BY DEF SumInvariant, SortInvariant, PackInvariant
  <2>2. PICK st \in Seq(Component(t)) : st = storage[t]
    BY <2>1 DEF Local, Typed
  <2>3. goal[t] = "none" /\ ~neverPacked[t]
    BY <2>1 DEF Local, Control
  <2>4. Kept(t) = st /\ Past(t) = 0
    BY <2>2, <2>3 DEF Kept, Past
  <2>5. Waiting(t) = <<>>
    <3>1. CASE Order[t] = 0
      BY <2>3, <3>1 DEF Waiting
    <3>2. CASE Order[t] # 0
      <4>1. Order[t] > 0
        BY <3>2, PackAssumption
      <4>2. used[t] = 0 /\ used[t] <= Len(buffer[t])
        BY <2>1, <2>3, <4>1 DEF Phases, Local, Room
      <4>3. Waiting(t) = SubSeq(buffer[t], 1, 0)
        BY <3>2, <4>2 DEF Waiting
      <4>4. buffer[t] \in Seq(Component(t))
        BY <2>1 DEF Local, Typed
      <4>5. QED
        BY <4>3, <4>4, SubSeqEmpty
    <3>3. QED
      BY <3>1, <3>2
  <2>6. PICK tot \in [Coordinates(t) -> Nat] : tot = total[t]
    BY <2>1 DEF Phases
  <2>7. AddUp(t, <<>>, st, 0, tot)
    BY <2>1, <2>4, <2>5, <2>6 DEF Balance
  <2>8. PICK d \in Coordinates(t) : d = Permuted(t, c)
    BY PermutedBack
  <2>9. Amount(st, d) = tot[c]
    BY <2>7, <2>8, AddUpNothing
  <2>10. Amount(st, d) = StoredAt(st, d)
    <3>1. StrictlyAscending(t, st)
      BY <2>1, <2>2 DEF Sorted
    <3>2. QED
      BY <3>1, AmountStored
  <2>11. QED
    BY <2>2, <2>6, <2>8, <2>9, <2>10
<1>2. QED
  BY <1>1, SumInvariantHolds, PTL
=============================================================================
