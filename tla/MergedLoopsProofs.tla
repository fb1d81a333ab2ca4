-------------------------- MODULE MergedLoopsProofs ---------------------------
(***************************************************************************)
(* Proofs about MergedLoops and the lattices of MergeLattice, for every    *)
(* set of expressions of any size, every dimension and every pattern of    *)
(* components.                                                             *)
(***************************************************************************)
EXTENDS MergedLoops, SequenceTheorems, FiniteSetTheorems, TLAPS

\* Induction over the natural numbers, for a set in place of a predicate: the
\* intervals from 0 are well-founded.
LEMMA SetInduction ==
    ASSUME NEW S, 0 \in S, \A n \in Nat : n \in S => n + 1 \in S
    PROVE  Nat \subseteq S
<1> SUFFICES ASSUME NEW m \in Nat, m \notin S PROVE FALSE
  OBVIOUS
<1> DEFINE T == {0 .. k : k \in Nat \ S}
           R == StrictSubsetOrdering(Nat)
<1>1. T \subseteq FiniteSubsetsOf(Nat)
  <2>1. \A k \in Nat : IsFiniteSet(0 .. k) /\ 0 .. k \in SUBSET Nat
    BY FS_Interval
  <2>2. QED
    BY <2>1 DEF FiniteSubsetsOf
<1>2. 0 .. m \in T
  OBVIOUS
<1>3. IsWellFoundedOn(R, FiniteSubsetsOf(Nat))
  BY FS_StrictSubsetOrderingWellFounded
<1>4. PICK x \in T : \A y \in T : <<y, x>> \notin R
  <2> HIDE DEF T, R
  <2>1. T # {}
    BY <1>2
  <2>2. QED
    BY <1>1, <1>3, <2>1, WFMin
<1>5. PICK k \in Nat \ S : x = 0 .. k
  BY <1>4
<1>6. k - 1 \in Nat \ S
  BY <1>5
<1>7. 0 .. k - 1 \in T
  BY <1>6
<1>8. <<0 .. k - 1, 0 .. k>> \in R
  <2>1. 0 .. k - 1 \in SUBSET Nat /\ 0 .. k \in SUBSET Nat
    BY <1>5, <1>6
  <2>2. k \in 0 .. k /\ k \notin 0 .. k - 1
    BY <1>5
  <2>3. 0 .. k - 1 \subseteq 0 .. k /\ 0 .. k - 1 # 0 .. k
    BY <1>5, <2>2
  <2>4. QED
    BY <2>1, <2>3 DEF StrictSubsetOrdering
<1>9. QED
  BY <1>4, <1>5, <1>7, <1>8

\* A number is in S if all numbers before it are.
LEMMA NodeInduction ==
    ASSUME NEW N \in Nat, NEW S,
           \A n \in 1 .. N : (\A m \in 1 .. (n - 1) : m \in S) => n \in S
    PROVE  \A n \in 1 .. N : n \in S
<1> DEFINE T == {k \in Nat : \A n \in 1 .. N : n <= k => n \in S}
<1>1. 0 \in T
  OBVIOUS
<1>2. ASSUME NEW k \in Nat, k \in T PROVE k + 1 \in T
  <2> SUFFICES ASSUME NEW n \in 1 .. N, n <= k + 1 PROVE n \in S
    OBVIOUS
  <2>1. \A m \in 1 .. (n - 1) : m \in 1 .. N /\ m <= k
    OBVIOUS
  <2>2. \A m \in 1 .. (n - 1) : m \in S
    BY <1>2, <2>1
  <2>3. QED
    BY <2>2
<1>3. N \in T
  <2> HIDE DEF T
  <2>1. QED
    BY <1>1, <1>2, SetInduction
<1>4. QED
  BY <1>3

\* A non-empty set of natural numbers has a least element.
LEMMA Least ==
    ASSUME NEW P \in SUBSET Nat, P # {}
    PROVE  \E x \in P : \A y \in P : x <= y
<1> SUFFICES ASSUME \A x \in P : \E y \in P : ~(x <= y) PROVE FALSE
  OBVIOUS
<1> DEFINE S == {k \in Nat : \A y \in P : k < y}
<1>1. 0 \in S
  OBVIOUS
<1>2. ASSUME NEW k \in Nat, k \in S PROVE k + 1 \in S
  <2>1. k + 1 \notin P
    BY <1>2
  <2>2. QED
    BY <1>2, <2>1
<1>3. Nat \subseteq S
  <2> HIDE DEF S
  <2>1. QED
    BY <1>1, <1>2, SetInduction
<1>4. ASSUME NEW y \in P PROVE FALSE
  <2>1. y \in S /\ y \in Nat
    BY <1>3
  <2>2. QED
    BY <2>1
<1>5. QED
  BY <1>4

\* Min() and Max() of the community modules find what there is.
LEMMA MinProperty ==
    ASSUME NEW P \in SUBSET Nat, P # {}
    PROVE  Min(P) \in P /\ \A y \in P : Min(P) <= y
BY Least DEF Min

\* The Max of the community modules, on a nonempty set of numbers up to n.
LEMMA MaxProperty ==
    ASSUME NEW n \in Nat, NEW P \in SUBSET (0 .. n), P # {}
    PROVE  Max(P) \in P /\ \A y \in P : Max(P) >= y
<1> DEFINE Q == {n - x : x \in P}
<1>1. Q \in SUBSET Nat /\ Q # {}
  <2>1. \A x \in P : x \in 0 .. n
    OBVIOUS
  <2>2. \A x \in P : n - x \in Nat
    BY <2>1
  <2>3. QED
    BY <2>2
<1>2. PICK x \in Q : \A y \in Q : x <= y
  BY <1>1, Least
<1>3. n - x \in P /\ \A y \in P : n - x >= y
  <2>1. PICK z \in P : x = n - z
    BY <1>2
  <2>2. \A y \in P : x <= n - y
    BY <1>2
  <2>3. QED
    BY <2>1, <2>2
<1>4. QED
  BY <1>3 DEF Max

\* A function on 1..n is a sequence of its values.
LEMMA SequenceOfRange ==
    ASSUME NEW S, NEW s \in Seq(S)
    PROVE  /\ s \in Seq(Range(s))
           /\ \A i \in 1 .. Len(s) : s[i] \in Range(s) /\ s[i] \in S
           /\ \A x \in Range(s) : \E i \in 1 .. Len(s) : s[i] = x
BY DEF Range

(***************************************************************************)
(* Filters: Keep(s, K) has the elements of s at the positions K.           *)
(***************************************************************************)
\* f has the elements kept of the first n, for each n up to m.
Keeps(s, K, m, f) ==
    f = [n \in 0 .. m |->
            IF n = 0 THEN <<>>
            ELSE IF n \in K THEN Append(f[n - 1], s[n])
            ELSE f[n - 1]]

\* r has the elements of s at the positions K up to n, at are these positions.
KeptAt(s, K, n, r, at) ==
    /\ at \in [1 .. Len(r) -> K \cap (1 .. n)]
    /\ \A i, j \in 1 .. Len(r) : i < j => at[i] < at[j]
    /\ \A k \in K \cap (1 .. n) : \E i \in 1 .. Len(r) : at[i] = k
    /\ \A i \in 1 .. Len(r) : r[i] = s[at[i]]

\* The recursion by which a lattice keeps the points of K has a solution.
LEMMA KeepsExist ==
    ASSUME NEW s, NEW K, NEW m \in Nat
    PROVE  \E f : Keeps(s, K, m, f)
<1> DEFINE S == {k \in Nat : \E f : Keeps(s, K, k, f)}
<1>1. 0 \in S
  <2>1. Keeps(s, K, 0, [n \in 0 .. 0 |-> <<>>])
    BY DEF Keeps
  <2>2. QED
    BY <2>1
<1>2. ASSUME NEW k \in Nat, k \in S PROVE k + 1 \in S
  <2>1. PICK f : Keeps(s, K, k, f)
    BY <1>2
  <2> DEFINE last == IF k + 1 \in K THEN Append(f[k], s[k + 1]) ELSE f[k]
             g == [n \in 0 .. k + 1 |-> IF n = k + 1 THEN last ELSE f[n]]
  <2>2. g[k + 1] = last /\ \A n \in 0 .. k : g[n] = f[n]
    OBVIOUS
  <2>3. DOMAIN g = 0 .. k + 1 /\ g = [n \in 0 .. k + 1 |-> g[n]]
    OBVIOUS
  <2>4. \A n \in 0 .. k :
           f[n] = IF n = 0 THEN <<>>
                  ELSE IF n \in K THEN Append(f[n - 1], s[n])
                  ELSE f[n - 1]
    BY <2>1 DEF Keeps
  <2> HIDE DEF g
  <2>5. ASSUME NEW n \in 0 .. k + 1
        PROVE  g[n] = IF n = 0 THEN <<>>
                      ELSE IF n \in K THEN Append(g[n - 1], s[n])
                      ELSE g[n - 1]
    <3>1. CASE n = k + 1
      <4>1. k \in 0 .. k /\ n - 1 = k /\ n # 0
        BY <3>1
      <4>2. QED
        BY <2>2, <3>1, <4>1
    <3>2. CASE n \in 1 .. k
      <4>1. n \in 0 .. k /\ n - 1 \in 0 .. k /\ n # 0
        BY <3>2
      <4>2. QED
        BY <2>2, <2>4, <4>1
    <3>3. CASE n = 0
      BY <2>2, <2>4, <3>3
    <3>4. QED
      BY <3>1, <3>2, <3>3
  <2>6. Keeps(s, K, k + 1, g)
    BY <2>3, <2>5 DEF Keeps
  <2>7. QED
    BY <2>6
<1> HIDE DEF S
<1>3. m \in S
  BY <1>1, <1>2, SetInduction
<1>4. QED
  BY <1>3 DEF S

\* What a filter keeps, and in which order.
LEMMA KeepProperty ==
    ASSUME NEW T, NEW s \in Seq(T), NEW K
    PROVE  /\ Keep(s, K) \in Seq(T)
           /\ \E at : KeptAt(s, K, Len(s), Keep(s, K), at)
<1>1. Len(s) \in Nat /\ \A n \in 1 .. Len(s) : s[n] \in T
  BY ElementOfSeq
<1>2. PICK f : Keeps(s, K, Len(s), f) /\ Keep(s, K) = f[Len(s)]
  <2>1. \E f : Keeps(s, K, Len(s), f)
    BY <1>1, KeepsExist
  <2>2. Keep(s, K) = (CHOOSE f : Keeps(s, K, Len(s), f))[Len(s)]
    BY DEF Keep, Keeps
  <2>3. QED
    BY <2>1, <2>2
<1>3. /\ f[0] = <<>>
      /\ \A n \in 1 .. Len(s) :
            f[n] = IF n \in K THEN Append(f[n - 1], s[n]) ELSE f[n - 1]
  <2>1. \A n \in 0 .. Len(s) :
           f[n] = IF n = 0 THEN <<>>
                  ELSE IF n \in K THEN Append(f[n - 1], s[n])
                  ELSE f[n - 1]
    BY <1>2 DEF Keeps
  <2>2. 0 \in 0 .. Len(s) /\ \A n \in 1 .. Len(s) : n \in 0 .. Len(s) /\ n # 0
    BY <1>1
  <2>3. QED
    BY <2>1, <2>2
<1> DEFINE S == {n \in Nat : n <= Len(s) =>
                    f[n] \in Seq(T) /\ \E at : KeptAt(s, K, n, f[n], at)}
<1>4. 0 \in S
  <2>1. KeptAt(s, K, 0, <<>>, [i \in {} |-> 0])
    BY DEF KeptAt
  <2>2. KeptAt(s, K, 0, f[0], [i \in {} |-> 0]) /\ f[0] \in Seq(T)
    BY <1>3, <2>1
  <2>3. QED
    BY <2>2
<1>5. ASSUME NEW n \in Nat, n \in S PROVE n + 1 \in S
  <2> SUFFICES ASSUME n + 1 <= Len(s)
               PROVE  f[n + 1] \in Seq(T) /\ \E at : KeptAt(s, K, n + 1, f[n + 1], at)
    OBVIOUS
  <2>1. n <= Len(s) /\ n + 1 \in 1 .. Len(s) /\ (n + 1) - 1 = n
    BY <1>1
  <2>2. PICK at : f[n] \in Seq(T) /\ KeptAt(s, K, n, f[n], at)
    BY <1>5, <2>1
  <2> DEFINE r == f[n]
             l == Len(r)
  <2>3. l \in Nat
    BY <2>2, LenProperties
  <2>4. CASE n + 1 \notin K
    <3>1. f[n + 1] = r
      BY <1>3, <2>1, <2>4
    <3>2. K \cap (1 .. n + 1) = K \cap (1 .. n)
      BY <2>4
    <3>3. KeptAt(s, K, n + 1, r, at)
      BY <2>2, <3>2 DEF KeptAt
    <3>4. QED
      BY <2>2, <3>1, <3>3
  <2>5. CASE n + 1 \in K
    <3>1. f[n + 1] = Append(r, s[n + 1]) /\ s[n + 1] \in T
      BY <1>1, <1>3, <2>1, <2>5
    <3> DEFINE q == Append(r, s[n + 1])
               b == [i \in 1 .. l + 1 |-> IF i = l + 1 THEN n + 1 ELSE at[i]]
    <3>2. /\ q \in Seq(T) /\ Len(q) = l + 1 /\ q[l + 1] = s[n + 1]
          /\ \A i \in 1 .. l : q[i] = r[i]
      BY <2>2, <3>1, AppendProperties
    <3>3. b[l + 1] = n + 1 /\ \A i \in 1 .. l : b[i] = at[i]
      BY <2>3
    <3>4. \A i \in 1 .. l + 1 : i = l + 1 \/ i \in 1 .. l
      BY <2>3
    <3>5. \A i \in 1 .. l : at[i] \in K /\ at[i] \in 1 .. n
      BY <2>2 DEF KeptAt
    <3>6. b \in [1 .. l + 1 -> K \cap (1 .. n + 1)]
      <4>1. \A i \in 1 .. l + 1 : b[i] \in K \cap (1 .. n + 1)
        BY <2>5, <3>3, <3>4, <3>5
      <4>2. QED
        BY <4>1
    <3> HIDE DEF b, q
    <3>7. \A i, j \in 1 .. l + 1 : i < j => b[i] < b[j]
      <4> SUFFICES ASSUME NEW i \in 1 .. l + 1, NEW j \in 1 .. l + 1, i < j
                   PROVE  b[i] < b[j]
        OBVIOUS
      <4>1. i \in 1 .. l
        BY <2>3
      <4>2. CASE j = l + 1
        BY <3>3, <3>5, <4>1, <4>2
      <4>3. CASE j \in 1 .. l
        BY <2>2, <3>3, <4>1, <4>3 DEF KeptAt
      <4>4. QED
        BY <3>4, <4>2, <4>3
    <3>8. \A k \in K \cap (1 .. n + 1) : \E i \in 1 .. l + 1 : b[i] = k
      <4> SUFFICES ASSUME NEW k \in K \cap (1 .. n + 1)
                   PROVE  \E i \in 1 .. l + 1 : b[i] = k
        OBVIOUS
      <4>1. CASE k = n + 1
        BY <2>3, <3>3, <4>1
      <4>2. CASE k # n + 1
        <5>1. k \in K \cap (1 .. n)
          BY <4>2
        <5>2. PICK i \in 1 .. l : at[i] = k
          BY <2>2, <5>1 DEF KeptAt
        <5>3. i \in 1 .. l + 1 /\ b[i] = k
          BY <2>3, <3>3, <5>2
        <5>4. QED
          BY <5>3
      <4>3. QED
        BY <4>1, <4>2
    <3>9. \A i \in 1 .. l + 1 : q[i] = s[b[i]]
      <4> SUFFICES ASSUME NEW i \in 1 .. l + 1 PROVE q[i] = s[b[i]]
        OBVIOUS
      <4>1. CASE i = l + 1
        BY <3>2, <3>3, <4>1
      <4>2. CASE i \in 1 .. l
        BY <2>2, <3>2, <3>3, <4>2 DEF KeptAt
      <4>3. QED
        BY <3>4, <4>1, <4>2
    <3>10. KeptAt(s, K, n + 1, q, b)
      BY <3>2, <3>6, <3>7, <3>8, <3>9 DEF KeptAt
    <3>11. QED
      BY <3>1, <3>2, <3>10 DEF q
  <2>6. QED
    BY <2>4, <2>5
<1> HIDE DEF S
<1>6. Len(s) \in S
  BY <1>1, <1>4, <1>5, SetInduction
<1>7. QED
  BY <1>1, <1>2, <1>6 DEF S

(***************************************************************************)
(* Lattices.                                                               *)
(***************************************************************************)
\* Any two points have a join, which is not behind either of them.
Joined(lat) ==
    \A i, j \in 1 .. Len(lat) : \E k \in 1 .. Len(lat) :
        k <= i /\ k <= j /\ lat[k] = lat[i] \cup lat[j]

\* The full iterators of the first point are in every point.
FullEverywhere(lat) ==
    \A it \in lat[1] : IsFull(it) => \A i \in 1 .. Len(lat) : it \in lat[i]

\* A lattice over the iterators I.
WellFormed(lat, I) ==
    /\ lat \in Seq(SUBSET I) /\ Len(lat) > 0
    /\ \A i \in 1 .. Len(lat) : lat[i] # {}
    /\ Joined(lat) /\ FullEverywhere(lat)

\* Of two points at K, a join is kept as well.
KeepsJoins(lat, K) ==
    \A i, j \in K \cap (1 .. Len(lat)) : \A k \in 1 .. Len(lat) :
        k <= i /\ k <= j /\ lat[k] = lat[i] \cup lat[j]
        => \E m \in K \cap (1 .. Len(lat)) : m <= k /\ lat[m] = lat[k]

\* Keeping points with their unions keeps the order.
LEMMA KeptJoined ==
    ASSUME NEW T, NEW lat \in Seq(T), Joined(lat), NEW K, KeepsJoins(lat, K)
    PROVE  Joined(Keep(lat, K))
<1> DEFINE r == Keep(lat, K)
           P == K \cap (1 .. Len(lat))
<1>1. /\ r \in Seq(T) /\ Len(r) \in Nat /\ Len(lat) \in Nat
      /\ \E at : KeptAt(lat, K, Len(lat), r, at)
  BY KeepProperty, LenProperties
<1>2. PICK at : KeptAt(lat, K, Len(lat), r, at)
  BY <1>1
<1>3. \A i \in P : i \in 1 .. Len(lat)
  BY <1>1
<1>4. /\ \A i \in 1 .. Len(r) : at[i] \in P /\ r[i] = lat[at[i]]
      /\ \A i, j \in 1 .. Len(r) : i < j => at[i] < at[j]
      /\ \A k \in P : \E i \in 1 .. Len(r) : at[i] = k
  BY <1>2 DEF KeptAt
<1> HIDE DEF r, P
<1>5. \A i, j \in 1 .. Len(r) : at[i] <= at[j] => i <= j
  <2> SUFFICES ASSUME NEW i \in 1 .. Len(r), NEW j \in 1 .. Len(r),
                      at[i] <= at[j], j < i
               PROVE  FALSE
    BY <1>1
  <2>1. at[j] < at[i] /\ at[i] \in Nat /\ at[j] \in Nat
    BY <1>3, <1>4
  <2>2. QED
    BY <2>1
<1>6. Joined(r)
  <2> SUFFICES ASSUME NEW i \in 1 .. Len(r), NEW j \in 1 .. Len(r)
               PROVE  \E k \in 1 .. Len(r) :
                         k <= i /\ k <= j /\ r[k] = r[i] \cup r[j]
    BY DEF Joined
  <2>1. /\ at[i] \in P /\ at[j] \in P /\ r[i] = lat[at[i]] /\ r[j] = lat[at[j]]
        /\ at[i] \in 1 .. Len(lat) /\ at[j] \in 1 .. Len(lat)
    BY <1>3, <1>4
  <2>2. PICK k \in 1 .. Len(lat) :
           k <= at[i] /\ k <= at[j] /\ lat[k] = lat[at[i]] \cup lat[at[j]]
    BY <2>1 DEF Joined
  <2>3. PICK m \in P : m <= k /\ lat[m] = lat[k]
    <3>1. at[i] \in K \cap (1 .. Len(lat)) /\ at[j] \in K \cap (1 .. Len(lat))
      BY <2>1 DEF P
    <3>2. k <= at[i] /\ k <= at[j] /\ lat[k] = lat[at[i]] \cup lat[at[j]]
      BY <2>2
    <3>3. \E m \in K \cap (1 .. Len(lat)) : m <= k /\ lat[m] = lat[k]
      BY <3>1, <3>2 DEF KeepsJoins
    <3>4. QED
      BY <3>3 DEF P
  <2>4. PICK n \in 1 .. Len(r) : at[n] = m
    BY <1>4
  <2>5. at[n] <= at[i] /\ at[n] <= at[j]
    BY <1>3, <2>1, <2>2, <2>3, <2>4
  <2>6. n <= i /\ n <= j
    BY <1>5, <2>5
  <2>7. r[n] = r[i] \cup r[j]
    BY <1>4, <2>1, <2>2, <2>3, <2>4
  <2>8. QED
    BY <2>6, <2>7
<1>7. QED
  BY <1>6 DEF r

\* A filter that keeps the first point and, of points it keeps, a join, keeps
\* what a lattice is.
LEMMA KeepJoined ==
    ASSUME NEW T, NEW lat \in Seq(T), Len(lat) > 0, Joined(lat),
           NEW K, 1 \in K, KeepsJoins(lat, K)
    PROVE  /\ Keep(lat, K) \in Seq(T) /\ Len(Keep(lat, K)) > 0
           /\ Keep(lat, K)[1] = lat[1]
           /\ Joined(Keep(lat, K))
           /\ \A n \in 1 .. Len(Keep(lat, K)) :
                 \E i \in K \cap (1 .. Len(lat)) : Keep(lat, K)[n] = lat[i]
<1> DEFINE r == Keep(lat, K)
           P == K \cap (1 .. Len(lat))
<1>1. /\ r \in Seq(T) /\ Len(r) \in Nat /\ Len(lat) \in Nat
      /\ \E at : KeptAt(lat, K, Len(lat), r, at)
  BY KeepProperty, LenProperties
<1>2. PICK at : KeptAt(lat, K, Len(lat), r, at)
  BY <1>1
<1>3. 1 \in P /\ \A i \in P : i \in 1 .. Len(lat)
  BY <1>1
<1>4. /\ \A i \in 1 .. Len(r) : at[i] \in P /\ r[i] = lat[at[i]]
      /\ \A i, j \in 1 .. Len(r) : i < j => at[i] < at[j]
      /\ \A k \in P : \E i \in 1 .. Len(r) : at[i] = k
  BY <1>2 DEF KeptAt
<1> HIDE DEF r, P
<1>5. \A i, j \in 1 .. Len(r) : at[i] <= at[j] => i <= j
  <2> SUFFICES ASSUME NEW i \in 1 .. Len(r), NEW j \in 1 .. Len(r),
                      at[i] <= at[j], j < i
               PROVE  FALSE
    BY <1>1
  <2>1. at[j] < at[i] /\ at[i] \in Nat /\ at[j] \in Nat
    BY <1>3, <1>4
  <2>2. QED
    BY <2>1
<1>6. Len(r) > 0 /\ r[1] = lat[1]
  <2>1. PICK i \in 1 .. Len(r) : at[i] = 1
    BY <1>3, <1>4
  <2>2. 1 \in 1 .. Len(r) /\ 1 <= at[1]
    BY <1>1, <1>3, <1>4
  <2>3. i <= 1
    BY <1>5, <2>1, <2>2
  <2>4. i = 1
    BY <2>3
  <2>5. QED
    BY <1>4, <2>1, <2>2, <2>4
<1>7. Joined(r)
  BY KeptJoined DEF r
<1>8. \A n \in 1 .. Len(r) : \E i \in P : r[n] = lat[i]
  BY <1>4
<1>9. QED
  BY <1>1, <1>6, <1>7, <1>8 DEF r, P

\* Removing the points without the full iterators of the first one leaves a
\* lattice.
LEMMA RemoveLackingWellFormed ==
    ASSUME NEW I, NEW lat \in Seq(SUBSET I), Len(lat) > 0, Joined(lat),
           \A i \in 1 .. Len(lat) : lat[i] # {}
    PROVE  WellFormed(RemovePointsThatLackFullIterators(lat), I)
<1> DEFINE full == {it \in lat[1] : IsFull(it)}
           K == {i \in DOMAIN lat : full \subseteq lat[i]}
           r == Keep(lat, K)
<1>1. DOMAIN lat = 1 .. Len(lat) /\ Len(lat) \in Nat /\ 1 \in DOMAIN lat
  BY LenProperties
<1>2. 1 \in K
  BY <1>1
<1>3. \A i \in K \cap (1 .. Len(lat)) : i \in 1 .. Len(lat) /\ full \subseteq lat[i]
  OBVIOUS
<1>4. KeepsJoins(lat, K)
  <2> SUFFICES ASSUME NEW i \in K \cap (1 .. Len(lat)),
                      NEW j \in K \cap (1 .. Len(lat)), NEW k \in 1 .. Len(lat),
                      lat[k] = lat[i] \cup lat[j]
               PROVE  k \in K \cap (1 .. Len(lat)) /\ k <= k
    BY DEF KeepsJoins
  <2>1. full \subseteq lat[i]
    BY <1>3
  <2>2. full \subseteq lat[k]
    BY <2>1
  <2>3. QED
    BY <1>1, <2>2
<1> HIDE DEF K, r
<1>5. /\ r \in Seq(SUBSET I) /\ Len(r) > 0 /\ r[1] = lat[1] /\ Joined(r)
      /\ \A n \in 1 .. Len(r) : \E i \in K \cap (1 .. Len(lat)) : r[n] = lat[i]
  BY <1>2, <1>4, KeepJoined DEF r
<1>6. \A n \in 1 .. Len(r) : r[n] # {} /\ full \subseteq r[n]
  BY <1>3, <1>5
<1>7. FullEverywhere(r)
  BY <1>5, <1>6 DEF FullEverywhere
<1>8. r = RemovePointsThatLackFullIterators(lat)
  BY DEF RemovePointsThatLackFullIterators, r, K
<1>9. QED
  BY <1>5, <1>6, <1>7, <1>8 DEF WellFormed

\* Of equal points the first one has none before it.
LEMMA FirstOfEqual ==
    ASSUME NEW lat, Len(lat) \in Nat, NEW k \in 1 .. Len(lat)
    PROVE  \E m \in 1 .. Len(lat) :
              /\ m <= k /\ lat[m] = lat[k]
              /\ \A j \in 1 .. (m - 1) : lat[m] # lat[j]
<1> DEFINE Q == {i \in 1 .. Len(lat) : lat[i] = lat[k]}
<1>1. Q \in SUBSET Nat /\ k \in Q
  OBVIOUS
<1>2. PICK m \in Q : \A i \in Q : m <= i
  BY <1>1, Least
<1>3. m \in 1 .. Len(lat) /\ lat[m] = lat[k] /\ m <= k
  BY <1>1, <1>2
<1>4. ASSUME NEW j \in 1 .. (m - 1), lat[m] = lat[j] PROVE FALSE
  <2>1. j \in Q
    BY <1>3, <1>4
  <2>2. m <= j
    BY <1>2, <2>1
  <2>3. QED
    BY <1>3, <2>2
<1>5. QED
  BY <1>3, <1>4

\* Removing the points that were there before leaves a lattice.
LEMMA RemoveIdenticalWellFormed ==
    ASSUME NEW I, NEW lat, WellFormed(lat, I)
    PROVE  WellFormed(RemovePointsWithIdenticalIterators(lat), I)
<1> DEFINE K == {i \in DOMAIN lat : \A j \in 1 .. (i - 1) : lat[i] # lat[j]}
           r == Keep(lat, K)
<1>1. DOMAIN lat = 1 .. Len(lat) /\ Len(lat) \in Nat /\ 1 \in DOMAIN lat
  BY LenProperties DEF WellFormed
<1>2. 1 \in K
  BY <1>1
<1>3. ASSUME NEW k \in 1 .. Len(lat)
      PROVE  \E m \in K \cap (1 .. Len(lat)) : m <= k /\ lat[m] = lat[k]
  BY <1>1, FirstOfEqual
<1> HIDE DEF K, r
<1>4. /\ r \in Seq(SUBSET I) /\ Len(r) > 0 /\ r[1] = lat[1] /\ Joined(r)
      /\ \A n \in 1 .. Len(r) : \E i \in K \cap (1 .. Len(lat)) : r[n] = lat[i]
  <2>1. KeepsJoins(lat, K)
    BY <1>3 DEF KeepsJoins
  <2>2. QED
    BY <1>2, <2>1, KeepJoined DEF r, WellFormed
<1>5. \A n \in 1 .. Len(r) : \E i \in 1 .. Len(lat) : r[n] = lat[i]
  BY <1>4
<1>6. FullEverywhere(r) /\ \A n \in 1 .. Len(r) : r[n] # {}
  BY <1>4, <1>5 DEF FullEverywhere, WellFormed
<1>7. r = RemovePointsWithIdenticalIterators(lat)
  BY DEF RemovePointsWithIdenticalIterators, r, K
<1>8. QED
  BY <1>4, <1>6, <1>7 DEF WellFormed

(***************************************************************************)
(* Combinations of the points of two lattices.                             *)
(***************************************************************************)
\* f has the combinations of the first i points, for each i up to m.
Rows(left, right, m, f) ==
    f = [i \in 0 .. m |->
            IF i = 0 THEN <<>>
            ELSE f[i - 1] \o [j \in 1 .. Len(right) |-> <<left[i], right[j]>>]]

\* r has the combinations of the first n points of left, those of i and j at
\* at[<<i, j>>]: the later of two points come later.
CombinedAt(left, right, n, r, at) ==
    /\ at \in [(1 .. n) \X (1 .. Len(right)) -> 1 .. Len(r)]
    /\ \A i, k \in 1 .. n : \A j, l \in 1 .. Len(right) :
          k <= i /\ l <= j => at[<<k, l>>] <= at[<<i, j>>]
    /\ \A m \in 1 .. Len(r) :
          \E i \in 1 .. n : \E j \in 1 .. Len(right) : m = at[<<i, j>>]
    /\ \A i \in 1 .. n : \A j \in 1 .. Len(right) :
          r[at[<<i, j>>]] = <<left[i], right[j]>>

\* So has the one that lists all pairs of points of two lattices.
LEMMA RowsExist ==
    ASSUME NEW left, NEW right, NEW m \in Nat
    PROVE  \E f : Rows(left, right, m, f)
<1> DEFINE Row(i) == [j \in 1 .. Len(right) |-> <<left[i], right[j]>>]
           S == {k \in Nat : \E f : Rows(left, right, k, f)}
<1>1. 0 \in S
  <2>1. Rows(left, right, 0, [i \in 0 .. 0 |-> <<>>])
    BY DEF Rows
  <2>2. QED
    BY <2>1
<1>2. ASSUME NEW k \in Nat, k \in S PROVE k + 1 \in S
  <2>1. PICK f : Rows(left, right, k, f)
    BY <1>2
  <2> DEFINE last == f[k] \o Row(k + 1)
             g == [i \in 0 .. k + 1 |-> IF i = k + 1 THEN last ELSE f[i]]
  <2>2. g[k + 1] = last /\ \A i \in 0 .. k : g[i] = f[i]
    OBVIOUS
  <2>3. DOMAIN g = 0 .. k + 1 /\ g = [i \in 0 .. k + 1 |-> g[i]]
    OBVIOUS
  <2>4. \A i \in 0 .. k : f[i] = IF i = 0 THEN <<>> ELSE f[i - 1] \o Row(i)
    BY <2>1 DEF Rows
  <2> HIDE DEF g
  <2>5. ASSUME NEW i \in 0 .. k + 1
        PROVE  g[i] = IF i = 0 THEN <<>> ELSE g[i - 1] \o Row(i)
    <3> HIDE DEF Row
    <3>1. CASE i = k + 1
      <4>1. k \in 0 .. k /\ i - 1 = k /\ i # 0
        BY <3>1
      <4>2. QED
        BY <2>2, <3>1, <4>1
    <3>2. CASE i \in 1 .. k
      <4>1. i \in 0 .. k /\ i - 1 \in 0 .. k /\ i # 0
        BY <3>2
      <4>2. QED
        BY <2>2, <2>4, <4>1
    <3>3. CASE i = 0
      BY <2>2, <2>4, <3>3
    <3>4. QED
      BY <3>1, <3>2, <3>3
  <2>6. Rows(left, right, k + 1, g)
    BY <2>3, <2>5 DEF Rows
  <2>7. QED
    BY <2>6
<1> HIDE DEF S
<1>3. m \in S
  BY <1>1, <1>2, SetInduction
<1>4. QED
  BY <1>3 DEF S

\* Every combination is there, in the order of its points.
LEMMA CombinationsProperty ==
    ASSUME NEW T, NEW left \in Seq(T), NEW right \in Seq(T)
    PROVE  /\ Combinations(left, right) \in Seq(T \X T)
           /\ \E at : CombinedAt(left, right, Len(left), Combinations(left, right), at)
<1> DEFINE w == Len(right)
           Row(i) == [j \in 1 .. w |-> <<left[i], right[j]>>]
<1>1. /\ Len(left) \in Nat /\ w \in Nat
      /\ \A i \in 1 .. Len(left) : left[i] \in T
      /\ \A j \in 1 .. w : right[j] \in T
  BY ElementOfSeq
<1>2. PICK f : /\ Rows(left, right, Len(left), f)
               /\ Combinations(left, right) = f[Len(left)]
  <2>1. \E f : Rows(left, right, Len(left), f)
    BY <1>1, RowsExist
  <2>2. Combinations(left, right)
           = (CHOOSE f : Rows(left, right, Len(left), f))[Len(left)]
    BY DEF Combinations, Rows
  <2>3. QED
    BY <2>1, <2>2
<1>3. f[0] = <<>> /\ \A i \in 1 .. Len(left) : f[i] = f[i - 1] \o Row(i)
  <2>1. \A i \in 0 .. Len(left) :
           f[i] = IF i = 0 THEN <<>> ELSE f[i - 1] \o Row(i)
    BY <1>2 DEF Rows
  <2> HIDE DEF Row
  <2>2. 0 \in 0 .. Len(left)
        /\ \A i \in 1 .. Len(left) : i \in 0 .. Len(left) /\ i # 0
    BY <1>1
  <2>3. QED
    BY <2>1, <2>2
<1> DEFINE S == {n \in Nat : n <= Len(left) =>
                    /\ f[n] \in Seq(T \X T)
                    /\ \E at : CombinedAt(left, right, n, f[n], at)}
<1>4. 0 \in S
  <2>1. CombinedAt(left, right, 0, <<>>, [x \in {} |-> 0])
    BY DEF CombinedAt
  <2>2. CombinedAt(left, right, 0, f[0], [x \in {} |-> 0]) /\ f[0] \in Seq(T \X T)
    BY <1>3, <2>1
  <2>3. QED
    BY <2>2
<1>5. ASSUME NEW n \in Nat, n \in S PROVE n + 1 \in S
  <2> SUFFICES ASSUME n + 1 <= Len(left)
               PROVE  /\ f[n + 1] \in Seq(T \X T)
                      /\ \E at : CombinedAt(left, right, n + 1, f[n + 1], at)
    OBVIOUS
  <2>1. n <= Len(left) /\ n + 1 \in 1 .. Len(left) /\ (n + 1) - 1 = n
    BY <1>1
  <2>2. PICK at : f[n] \in Seq(T \X T) /\ CombinedAt(left, right, n, f[n], at)
    BY <1>5, <2>1
  <2> DEFINE r == f[n]
             l == Len(r)
             row == Row(n + 1)
             q == r \o row
  <2>3. l \in Nat /\ f[n + 1] = q
    BY <1>3, <2>1, <2>2, LenProperties
  <2>4. /\ row \in Seq(T \X T) /\ Len(row) = w
        /\ \A j \in 1 .. w : row[j] = <<left[n + 1], right[j]>>
    BY <1>1, <2>1
  <2> HIDE DEF row, r, w
  <2>5. /\ q \in Seq(T \X T) /\ Len(q) = l + w
        /\ \A m \in 1 .. l : q[m] = r[m]
        /\ \A j \in 1 .. w : q[l + j] = row[j]
    <3>1. r \in Seq(T \X T)
      BY <2>2 DEF r
    <3>2. q \in Seq(T \X T) /\ Len(q) = Len(r) + Len(row)
          /\ \A m \in 1 .. Len(r) + Len(row) :
                q[m] = IF m <= Len(r) THEN r[m] ELSE row[m - Len(r)]
      BY <2>4, <3>1, ConcatProperties
    <3> HIDE DEF q
    <3>3. \A m \in 1 .. l : m \in 1 .. l + w /\ m <= l
      BY <1>1, <2>3
    <3>4. \A j \in 1 .. w : l + j \in 1 .. l + w /\ ~(l + j <= l) /\ (l + j) - l = j
      BY <1>1, <2>3
    <3>5. QED
      BY <2>4, <3>2, <3>3, <3>4
  <2> HIDE DEF q
  <2> DEFINE D == (1 .. n + 1) \X (1 .. w)
             b == [x \in D |-> IF x[1] = n + 1 THEN l + x[2] ELSE at[x]]
  <2>6. /\ \A j \in 1 .. w : b[<<n + 1, j>>] = l + j
        /\ \A i \in 1 .. n : \A j \in 1 .. w : b[<<i, j>>] = at[<<i, j>>]
    <3>1. \A j \in 1 .. w : <<n + 1, j>> \in D
      OBVIOUS
    <3>2. \A i \in 1 .. n : \A j \in 1 .. w : <<i, j>> \in D /\ i # n + 1
      OBVIOUS
    <3>3. QED
      BY <3>1, <3>2
  <2>7. \A i \in 1 .. n + 1 : i = n + 1 \/ i \in 1 .. n
    OBVIOUS
  <2>8. \A i \in 1 .. n : \A j \in 1 .. w : at[<<i, j>>] \in 1 .. l
    BY <2>2 DEF CombinedAt, r, w
  <2>9. b \in [D -> 1 .. Len(q)]
    <3>1. ASSUME NEW i \in 1 .. n + 1, NEW j \in 1 .. w
          PROVE  b[<<i, j>>] \in 1 .. Len(q)
      <4>1. CASE i = n + 1
        BY <1>1, <2>3, <2>5, <2>6, <4>1
      <4>2. CASE i \in 1 .. n
        BY <1>1, <2>3, <2>5, <2>6, <2>8, <4>2
      <4>3. QED
        BY <2>7, <4>1, <4>2
    <3>2. \A x \in D : \E i \in 1 .. n + 1 : \E j \in 1 .. w : x = <<i, j>>
      OBVIOUS
    <3>3. DOMAIN b = D /\ b = [x \in D |-> b[x]]
      OBVIOUS
    <3> HIDE DEF b, D
    <3>4. \A x \in D : b[x] \in 1 .. Len(q)
      BY <3>1, <3>2
    <3>5. QED
      BY <3>3, <3>4
  <2> HIDE DEF b
  <2>10. ASSUME NEW i \in 1 .. n + 1, NEW k \in 1 .. n + 1,
                NEW j \in 1 .. w, NEW m \in 1 .. w, k <= i, m <= j
         PROVE  b[<<k, m>>] <= b[<<i, j>>]
    <3>1. CASE k = n + 1
      <4>1. i = n + 1
        BY <2>10, <3>1
      <4>2. QED
        BY <2>3, <2>6, <2>10, <3>1, <4>1
    <3>2. CASE k \in 1 .. n /\ i = n + 1
      BY <2>3, <2>6, <2>8, <3>2
    <3>3. CASE k \in 1 .. n /\ i \in 1 .. n
      <4>1. at[<<k, m>>] <= at[<<i, j>>]
        BY <2>2, <2>10, <3>3 DEF CombinedAt, w
      <4>2. QED
        BY <2>6, <3>3, <4>1
    <3>4. QED
      BY <2>7, <3>1, <3>2, <3>3
  <2>11. ASSUME NEW m \in 1 .. Len(q)
         PROVE  \E i \in 1 .. n + 1 : \E j \in 1 .. w : m = b[<<i, j>>]
    <3>1. CASE m <= l
      <4>1. m \in 1 .. l
        BY <2>3, <3>1
      <4>2. PICK i \in 1 .. n : \E j \in 1 .. w : m = at[<<i, j>>]
        BY <2>2, <4>1 DEF CombinedAt, r, w
      <4>3. PICK j \in 1 .. w : m = at[<<i, j>>]
        BY <4>2
      <4>4. i \in 1 .. n + 1 /\ m = b[<<i, j>>]
        BY <2>6, <4>3
      <4>5. QED
        BY <4>4
    <3>2. CASE ~(m <= l)
      <4>1. m - l \in 1 .. w /\ n + 1 \in 1 .. n + 1 /\ m = l + (m - l)
        BY <1>1, <2>3, <2>5, <3>2
      <4>2. m = b[<<n + 1, m - l>>]
        BY <2>6, <4>1
      <4>3. QED
        BY <4>1, <4>2
    <3>3. QED
      BY <3>1, <3>2
  <2>12. ASSUME NEW i \in 1 .. n + 1, NEW j \in 1 .. w
         PROVE  q[b[<<i, j>>]] = <<left[i], right[j]>>
    <3>1. CASE i = n + 1
      BY <2>4, <2>5, <2>6, <3>1
    <3>2. CASE i \in 1 .. n
      <4>1. r[at[<<i, j>>]] = <<left[i], right[j]>>
        BY <2>2, <3>2 DEF CombinedAt, r, w
      <4>2. QED
        BY <2>5, <2>6, <2>8, <3>2, <4>1
    <3>3. QED
      BY <2>7, <3>1, <3>2
  <2>13. CombinedAt(left, right, n + 1, q, b)
    BY <2>9, <2>10, <2>11, <2>12 DEF CombinedAt, w, D
  <2>14. QED
    BY <2>3, <2>5, <2>13
<1> HIDE DEF S
<1>6. Len(left) \in S
  BY <1>1, <1>4, <1>5, SetInduction
<1>7. QED
  BY <1>1, <1>2, <1>6 DEF S

\* The first combination is that of the first points.
LEMMA FirstCombination ==
    ASSUME NEW T, NEW left \in Seq(T), NEW right \in Seq(T),
           Len(left) > 0, Len(right) > 0, NEW r \in Seq(T \X T), NEW at,
           CombinedAt(left, right, Len(left), r, at)
    PROVE  /\ Len(r) > 0 /\ at[<<1, 1>>] = 1
           /\ \A i \in 1 .. Len(left) : \A j \in 1 .. Len(right) :
                 at[<<i, j>>] \in 1 .. Len(r)
<1>1. Len(left) \in Nat /\ Len(right) \in Nat /\ Len(r) \in Nat
  BY LenProperties
<1>2. \A i \in 1 .. Len(left) : \A j \in 1 .. Len(right) :
         at[<<i, j>>] \in 1 .. Len(r)
  BY DEF CombinedAt
<1>3. 1 \in 1 .. Len(left) /\ 1 \in 1 .. Len(right)
  BY <1>1
<1>4. at[<<1, 1>>] \in 1 .. Len(r)
  BY <1>2, <1>3
<1>5. 1 \in 1 .. Len(r)
  BY <1>1, <1>4
<1>6. PICK i \in 1 .. Len(left) : \E j \in 1 .. Len(right) : 1 = at[<<i, j>>]
  BY <1>5 DEF CombinedAt
<1>7. PICK j \in 1 .. Len(right) : 1 = at[<<i, j>>]
  BY <1>6
<1>8. 1 <= i /\ 1 <= j
  BY <1>1
<1>9. at[<<1, 1>>] <= at[<<i, j>>]
  BY <1>3, <1>8 DEF CombinedAt
<1>10. QED
  BY <1>1, <1>2, <1>4, <1>7, <1>9

\* The point m is the join of i and k.
JoinAt(lat, i, k, m) == lat[m] = lat[i] \cup lat[k]

\* What is combined from joins is the join of what is combined.
Distributes(left, right, pts, at) ==
    \A i, k, m \in 1 .. Len(left) : \A j, l, n \in 1 .. Len(right) :
        JoinAt(left, i, k, m) /\ JoinAt(right, j, l, n)
        => JoinAt(pts, at[<<i, j>>], at[<<k, l>>], at[<<m, n>>])

\* Points that are combined by an operation which distributes over joins have
\* joins.
LEMMA CombinationsJoined ==
    ASSUME NEW T, NEW left \in Seq(T), NEW right \in Seq(T),
           Joined(left), Joined(right), NEW r \in Seq(T \X T), NEW at,
           CombinedAt(left, right, Len(left), r, at),
           NEW pts, Len(pts) = Len(r), Distributes(left, right, pts, at)
    PROVE  Joined(pts)
<1> SUFFICES ASSUME NEW x \in 1 .. Len(r), NEW y \in 1 .. Len(r)
             PROVE  \E z \in 1 .. Len(r) :
                       z <= x /\ z <= y /\ pts[z] = pts[x] \cup pts[y]
  BY DEF Joined
<1>1. \E i \in 1 .. Len(left) : \E j \in 1 .. Len(right) : x = at[<<i, j>>]
  BY DEF CombinedAt
<1>2. PICK i \in 1 .. Len(left), j \in 1 .. Len(right) : x = at[<<i, j>>]
  BY <1>1
<1>3. \E k \in 1 .. Len(left) : \E l \in 1 .. Len(right) : y = at[<<k, l>>]
  BY DEF CombinedAt
<1>4. PICK k \in 1 .. Len(left), l \in 1 .. Len(right) : y = at[<<k, l>>]
  BY <1>3
<1>5. PICK m \in 1 .. Len(left) : m <= i /\ m <= k /\ left[m] = left[i] \cup left[k]
  BY DEF Joined
<1>6. PICK n \in 1 .. Len(right) : n <= j /\ n <= l /\ right[n] = right[j] \cup right[l]
  BY DEF Joined
<1>7. /\ at[<<m, n>>] <= at[<<i, j>>] /\ at[<<m, n>>] <= at[<<k, l>>]
      /\ at[<<m, n>>] \in 1 .. Len(r)
  BY <1>5, <1>6 DEF CombinedAt
<1>8. pts[at[<<m, n>>]] = pts[at[<<i, j>>]] \cup pts[at[<<k, l>>]]
  <2>1. JoinAt(left, i, k, m) /\ JoinAt(right, j, l, n)
    BY <1>5, <1>6 DEF JoinAt
  <2>2. JoinAt(pts, at[<<i, j>>], at[<<k, l>>], at[<<m, n>>])
    BY <2>1 DEF Distributes
  <2>3. QED
    BY <2>2 DEF JoinAt
<1>9. QED
  BY <1>2, <1>4, <1>7, <1>8

\* intersectLattices() of well-formed lattices gives one: its first point has all
\* their iterators that matter, and no point is empty.
LEMMA IntersectWellFormed ==
    ASSUME NEW I, NEW left, NEW right, WellFormed(left, I), WellFormed(right, I)
    PROVE  WellFormed(IntersectLattices(left, right), I)
<1> DEFINE pairs == Combinations(left, right)
           locate == LocateFromLeft(left, right)
           pts == IntersectLattices(left, right)
           T == SUBSET I
<1>1. /\ left \in Seq(T) /\ right \in Seq(T) /\ Len(left) > 0 /\ Len(right) > 0
      /\ Joined(left) /\ Joined(right) /\ FullEverywhere(left) /\ FullEverywhere(right)
      /\ \A i \in 1 .. Len(left) : left[i] # {}
      /\ \A i \in 1 .. Len(right) : right[i] # {}
  BY DEF WellFormed
<1>2. /\ Len(left) \in Nat /\ Len(right) \in Nat
      /\ \A i \in 1 .. Len(left) : left[i] \subseteq I
      /\ \A i \in 1 .. Len(right) : right[i] \subseteq I
  BY <1>1, LenProperties, ElementOfSeq
<1>3. /\ pairs \in Seq(T \X T)
      /\ \E at : CombinedAt(left, right, Len(left), pairs, at)
  BY <1>1, CombinationsProperty
<1>4. PICK at : CombinedAt(left, right, Len(left), pairs, at)
  BY <1>3
<1>5. /\ DOMAIN pts = 1 .. Len(pairs) /\ Len(pairs) \in Nat
      /\ \A x \in 1 .. Len(pairs) :
            pts[x] = IntersectPoints(pairs[x][1], pairs[x][2], locate)
      /\ pts = [x \in 1 .. Len(pairs) |-> pts[x]]
  BY <1>3, LenProperties DEF IntersectLattices
<1> HIDE DEF pts, pairs, locate
<1>6. /\ Len(pairs) > 0 /\ at[<<1, 1>>] = 1
      /\ \A i \in 1 .. Len(left) : \A j \in 1 .. Len(right) :
            at[<<i, j>>] \in 1 .. Len(pairs)
  <2> HIDE DEF T
  <2>1. QED
    BY <1>1, <1>3, <1>4, FirstCombination
<1>7. \A i \in 1 .. Len(left) : \A j \in 1 .. Len(right) :
         pts[at[<<i, j>>]] = IF locate THEN (left[i] \ {Dim}) \cup right[j]
                             ELSE left[i] \cup (right[j] \ {Dim})
  <2> TAKE i \in 1 .. Len(left)
  <2> TAKE j \in 1 .. Len(right)
  <2>1. pairs[at[<<i, j>>]][1] = left[i] /\ pairs[at[<<i, j>>]][2] = right[j]
    <3>1. pairs[at[<<i, j>>]] = <<left[i], right[j]>>
      BY <1>4 DEF CombinedAt
    <3>2. QED
      BY <3>1
  <2>2. at[<<i, j>>] \in 1 .. Len(pairs)
    BY <1>6
  <2>3. pts[at[<<i, j>>]] = IntersectPoints(left[i], right[j], locate)
    BY <1>5, <2>1, <2>2
  <2>4. QED
    BY <2>3 DEF IntersectPoints
<1>8. \A x \in 1 .. Len(pairs) :
         \E i \in 1 .. Len(left) : \E j \in 1 .. Len(right) : x = at[<<i, j>>]
  BY <1>4 DEF CombinedAt
<1>9. \A x \in 1 .. Len(pairs) : pts[x] \in T /\ pts[x] # {}
  <2> TAKE x \in 1 .. Len(pairs)
  <2>1. PICK i \in 1 .. Len(left), j \in 1 .. Len(right) : x = at[<<i, j>>]
    BY <1>8
  <2>2. /\ left[i] \subseteq I /\ right[j] \subseteq I
        /\ left[i] # {} /\ right[j] # {}
    BY <1>1, <1>2
  <2>3. QED
    BY <1>7, <2>1, <2>2
<1>10. pts \in Seq(T) /\ Len(pts) = Len(pairs)
  <2> HIDE DEF T
  <2>1. QED
    BY <1>5, <1>9
<1>11. Joined(pts)
  <2>1. ASSUME NEW i \in 1 .. Len(left), NEW k \in 1 .. Len(left),
               NEW m \in 1 .. Len(left), NEW j \in 1 .. Len(right),
               NEW l \in 1 .. Len(right), NEW n \in 1 .. Len(right),
               JoinAt(left, i, k, m), JoinAt(right, j, l, n)
        PROVE  JoinAt(pts, at[<<i, j>>], at[<<k, l>>], at[<<m, n>>])
    <3>1. CASE locate
      BY <1>7, <2>1, <3>1 DEF JoinAt
    <3>2. CASE ~locate
      BY <1>7, <2>1, <3>2 DEF JoinAt
    <3>3. QED
      BY <3>1, <3>2
  <2> HIDE DEF T
  <2>2. Distributes(left, right, pts, at)
    BY <2>1 DEF Distributes
  <2>3. QED
    BY <1>1, <1>3, <1>4, <1>10, <2>2, CombinationsJoined
<1>12. FullEverywhere(pts)
  <2> SUFFICES ASSUME NEW it \in pts[1], IsFull(it), NEW x \in 1 .. Len(pairs)
               PROVE  it \in pts[x]
    BY <1>10 DEF FullEverywhere
  <2>1. PICK i \in 1 .. Len(left), j \in 1 .. Len(right) : x = at[<<i, j>>]
    BY <1>8
  <2>2. 1 \in 1 .. Len(left) /\ 1 \in 1 .. Len(right)
    BY <1>1, <1>2
  <2>3. it \in IF locate THEN (left[1] \ {Dim}) \cup right[1]
               ELSE left[1] \cup (right[1] \ {Dim})
    <3>1. pts[at[<<1, 1>>]] = IF locate THEN (left[1] \ {Dim}) \cup right[1]
                              ELSE left[1] \cup (right[1] \ {Dim})
      BY <1>7, <2>2
    <3>2. QED
      BY <1>6, <3>1
  <2>4. /\ it \in left[1] => it \in left[i]
        /\ it \in right[1] => it \in right[j]
    BY <1>1 DEF FullEverywhere
  <2>5. QED
    BY <1>7, <2>1, <2>3, <2>4
<1>13. QED
  BY <1>6, <1>9, <1>10, <1>11, <1>12 DEF WellFormed, pts

\* A sequence of points can follow another one if with every point of the
\* other one each of them has a join there.
LEMMA FollowedJoined ==
    ASSUME NEW T, NEW u \in Seq(T), NEW v \in Seq(T), Joined(u), Joined(v),
           \A i \in 1 .. Len(u) : \A j \in 1 .. Len(v) : \E k \in 1 .. Len(u) :
              k <= i /\ u[k] = u[i] \cup v[j]
    PROVE  Joined(u \o v)
<1> DEFINE q == u \o v
           m == Len(u)
<1>1. /\ m \in Nat /\ Len(v) \in Nat /\ Len(q) = m + Len(v)
      /\ \A i \in 1 .. m + Len(v) : q[i] = IF i <= m THEN u[i] ELSE v[i - m]
  BY LenProperties, ConcatProperties
<1> HIDE DEF q
<1>2. /\ \A i \in 1 .. m : i \in 1 .. Len(q) /\ q[i] = u[i]
      /\ \A j \in 1 .. Len(v) : m + j \in 1 .. Len(q) /\ q[m + j] = v[j]
  <2>1. \A i \in 1 .. m : i \in 1 .. m + Len(v) /\ i <= m
    BY <1>1
  <2>2. \A j \in 1 .. Len(v) :
           m + j \in 1 .. m + Len(v) /\ ~(m + j <= m) /\ (m + j) - m = j
    BY <1>1
  <2> HIDE DEF m
  <2>3. QED
    BY <1>1, <2>1, <2>2
<1>3. \A i \in 1 .. Len(q) :
         i \in 1 .. m \/ (i - m \in 1 .. Len(v) /\ i = m + (i - m))
  BY <1>1
<1> HIDE DEF m
<1> SUFFICES ASSUME NEW i \in 1 .. Len(q), NEW j \in 1 .. Len(q)
             PROVE  \E k \in 1 .. Len(q) :
                       k <= i /\ k <= j /\ q[k] = q[i] \cup q[j]
  BY DEF Joined, q
<1>4. CASE i \in 1 .. m /\ j \in 1 .. m
  <2>1. PICK k \in 1 .. m : k <= i /\ k <= j /\ u[k] = u[i] \cup u[j]
    BY <1>4 DEF Joined, m
  <2>2. QED
    BY <1>2, <1>4, <2>1
<1>5. CASE i \in 1 .. m /\ j - m \in 1 .. Len(v) /\ j = m + (j - m)
  <2>1. PICK k \in 1 .. m : k <= i /\ u[k] = u[i] \cup v[j - m]
    BY <1>5 DEF m
  <2>2. k <= j
    BY <1>1, <1>5, <2>1
  <2>3. q[j] = v[j - m]
    BY <1>2, <1>5
  <2>4. QED
    BY <1>2, <1>5, <2>1, <2>2, <2>3
<1>6. CASE i - m \in 1 .. Len(v) /\ i = m + (i - m) /\ j \in 1 .. m
  <2>1. PICK k \in 1 .. m : k <= j /\ u[k] = u[j] \cup v[i - m]
    BY <1>6 DEF m
  <2>2. k <= i
    BY <1>1, <1>6, <2>1
  <2>3. q[i] = v[i - m]
    BY <1>2, <1>6
  <2>4. QED
    BY <1>2, <1>6, <2>1, <2>2, <2>3
<1>7. CASE /\ i - m \in 1 .. Len(v) /\ i = m + (i - m)
           /\ j - m \in 1 .. Len(v) /\ j = m + (j - m)
  <2>1. PICK k \in 1 .. Len(v) :
           k <= i - m /\ k <= j - m /\ v[k] = v[i - m] \cup v[j - m]
    BY <1>7 DEF Joined
  <2>2. m + k <= i /\ m + k <= j
    BY <1>1, <1>7, <2>1
  <2>3. q[i] = v[i - m] /\ q[j] = v[j - m]
    BY <1>2, <1>7
  <2>4. m + k \in 1 .. Len(q) /\ q[m + k] = v[k]
    BY <1>2
  <2>5. QED
    BY <2>1, <2>2, <2>3, <2>4
<1>8. QED
  BY <1>3, <1>4, <1>5, <1>6, <1>7

\* unionLattices() of well-formed lattices gives one.
LEMMA UnionWellFormed ==
    ASSUME NEW I, NEW left, NEW right, WellFormed(left, I), WellFormed(right, I)
    PROVE  WellFormed(UnionLattices(left, right), I)
<1> DEFINE pairs == Combinations(left, right)
           pts == UnionsOfPoints(left, right)
           T == SUBSET I
<1>1. /\ left \in Seq(T) /\ right \in Seq(T) /\ Len(left) > 0 /\ Len(right) > 0
      /\ Joined(left) /\ Joined(right)
      /\ \A i \in 1 .. Len(left) : left[i] # {}
      /\ \A i \in 1 .. Len(right) : right[i] # {}
  BY DEF WellFormed
<1>2. /\ Len(left) \in Nat /\ Len(right) \in Nat
      /\ \A i \in 1 .. Len(left) : left[i] \subseteq I
      /\ \A i \in 1 .. Len(right) : right[i] \subseteq I
  BY <1>1, LenProperties, ElementOfSeq
<1>3. /\ pairs \in Seq(T \X T)
      /\ \E at : CombinedAt(left, right, Len(left), pairs, at)
  BY <1>1, CombinationsProperty
<1>4. PICK at : CombinedAt(left, right, Len(left), pairs, at)
  BY <1>3
<1>5. /\ DOMAIN pts = 1 .. Len(pairs) /\ Len(pairs) \in Nat
      /\ \A x \in 1 .. Len(pairs) : pts[x] = UnionPoints(pairs[x][1], pairs[x][2])
      /\ pts = [x \in 1 .. Len(pairs) |-> pts[x]]
  BY <1>3, LenProperties DEF UnionsOfPoints
<1> HIDE DEF pts, pairs
<1>6. /\ Len(pairs) > 0 /\ at[<<1, 1>>] = 1
      /\ \A i \in 1 .. Len(left) : \A j \in 1 .. Len(right) :
            at[<<i, j>>] \in 1 .. Len(pairs)
  <2> HIDE DEF T
  <2>1. QED
    BY <1>1, <1>3, <1>4, FirstCombination
<1>7. \A i \in 1 .. Len(left) : \A j \in 1 .. Len(right) :
         pts[at[<<i, j>>]] = left[i] \cup right[j]
  <2> TAKE i \in 1 .. Len(left)
  <2> TAKE j \in 1 .. Len(right)
  <2>1. pairs[at[<<i, j>>]][1] = left[i] /\ pairs[at[<<i, j>>]][2] = right[j]
    <3>1. pairs[at[<<i, j>>]] = <<left[i], right[j]>>
      BY <1>4 DEF CombinedAt
    <3>2. QED
      BY <3>1
  <2>2. at[<<i, j>>] \in 1 .. Len(pairs)
    BY <1>6
  <2>3. pts[at[<<i, j>>]] = UnionPoints(left[i], right[j])
    BY <1>5, <2>1, <2>2
  <2>4. QED
    BY <2>3 DEF UnionPoints
<1>8. \A x \in 1 .. Len(pairs) :
         \E i \in 1 .. Len(left) : \E j \in 1 .. Len(right) : x = at[<<i, j>>]
  BY <1>4 DEF CombinedAt
<1>9. \A x \in 1 .. Len(pairs) : pts[x] \in T /\ pts[x] # {}
  <2> TAKE x \in 1 .. Len(pairs)
  <2>1. PICK i \in 1 .. Len(left), j \in 1 .. Len(right) : x = at[<<i, j>>]
    BY <1>8
  <2>2. left[i] \subseteq I /\ right[j] \subseteq I /\ left[i] # {}
    BY <1>1, <1>2
  <2>3. QED
    BY <1>7, <2>1, <2>2
<1>10. pts \in Seq(T) /\ Len(pts) = Len(pairs)
  <2> HIDE DEF T
  <2>1. QED
    BY <1>5, <1>9
<1>11. Joined(pts)
  <2>1. ASSUME NEW i \in 1 .. Len(left), NEW k \in 1 .. Len(left),
               NEW m \in 1 .. Len(left), NEW j \in 1 .. Len(right),
               NEW l \in 1 .. Len(right), NEW n \in 1 .. Len(right),
               JoinAt(left, i, k, m), JoinAt(right, j, l, n)
        PROVE  JoinAt(pts, at[<<i, j>>], at[<<k, l>>], at[<<m, n>>])
    BY <1>7, <2>1 DEF JoinAt
  <2> HIDE DEF T
  <2>2. Distributes(left, right, pts, at)
    BY <2>1 DEF Distributes
  <2>3. QED
    BY <1>1, <1>3, <1>4, <1>10, <2>2, CombinationsJoined
<1> DEFINE both == pts \o left
           all == both \o right
\* Each point of the union has its joins with the points of either side.
<1>12. \A x \in 1 .. Len(pts) :
          /\ \A k \in 1 .. Len(left) : \E z \in 1 .. Len(pts) :
                z <= x /\ pts[z] = pts[x] \cup left[k]
          /\ \A l \in 1 .. Len(right) : \E z \in 1 .. Len(pts) :
                z <= x /\ pts[z] = pts[x] \cup right[l]
  <2> TAKE x \in 1 .. Len(pts)
  <2>1. x \in 1 .. Len(pairs)
    BY <1>10
  <2>2. PICK i \in 1 .. Len(left), j \in 1 .. Len(right) : x = at[<<i, j>>]
    BY <1>8, <2>1
  <2>3. pts[x] = left[i] \cup right[j] /\ i <= i /\ j <= j
    BY <1>2, <1>7, <2>2
  <2>4. ASSUME NEW k \in 1 .. Len(left)
        PROVE  \E z \in 1 .. Len(pts) : z <= x /\ pts[z] = pts[x] \cup left[k]
    <3>1. PICK m \in 1 .. Len(left) : m <= i /\ left[m] = left[i] \cup left[k]
      BY <1>1 DEF Joined
    <3>2. at[<<m, j>>] <= x /\ at[<<m, j>>] \in 1 .. Len(pts)
      BY <1>4, <1>6, <1>10, <2>2, <2>3, <3>1 DEF CombinedAt
    <3>3. pts[at[<<m, j>>]] = pts[x] \cup left[k]
      BY <1>7, <2>3, <3>1
    <3>4. QED
      BY <3>2, <3>3
  <2>5. ASSUME NEW l \in 1 .. Len(right)
        PROVE  \E z \in 1 .. Len(pts) : z <= x /\ pts[z] = pts[x] \cup right[l]
    <3>1. PICK n \in 1 .. Len(right) : n <= j /\ right[n] = right[j] \cup right[l]
      BY <1>1 DEF Joined
    <3>2. at[<<i, n>>] <= x /\ at[<<i, n>>] \in 1 .. Len(pts)
      BY <1>4, <1>6, <1>10, <2>2, <2>3, <3>1 DEF CombinedAt
    <3>3. pts[at[<<i, n>>]] = pts[x] \cup right[l]
      BY <1>7, <2>3, <3>1
    <3>4. QED
      BY <3>2, <3>3
  <2>6. QED
    BY <2>4, <2>5
<1>13. /\ both \in Seq(T) /\ Len(both) = Len(pts) + Len(left) /\ Len(pts) \in Nat
       /\ \A x \in 1 .. Len(pts) + Len(left) :
             both[x] = IF x <= Len(pts) THEN pts[x] ELSE left[x - Len(pts)]
       /\ Joined(both)
  <2> HIDE DEF T
  <2>1. Joined(both)
    BY <1>1, <1>10, <1>11, <1>12, FollowedJoined
  <2>2. QED
    BY <1>1, <1>10, <2>1, ConcatProperties, LenProperties
<1> HIDE DEF both
<1>14. /\ \A x \in 1 .. Len(pts) : x \in 1 .. Len(both) /\ both[x] = pts[x]
       /\ \A x \in 1 .. Len(both) : \/ x \in 1 .. Len(pts)
                                    \/ /\ x - Len(pts) \in 1 .. Len(left)
                                       /\ Len(pts) < x
                                       /\ both[x] = left[x - Len(pts)]
  <2>1. \A x \in 1 .. Len(pts) : x \in 1 .. Len(pts) + Len(left) /\ x <= Len(pts)
    BY <1>2, <1>13
  <2>2. \A x \in 1 .. Len(both) :
           \/ x \in 1 .. Len(pts)
           \/ x - Len(pts) \in 1 .. Len(left) /\ Len(pts) < x /\ ~(x <= Len(pts))
    BY <1>2, <1>13
  <2>3. QED
    BY <1>13, <2>1, <2>2
<1>15. \A x \in 1 .. Len(both) : \A l \in 1 .. Len(right) :
          \E z \in 1 .. Len(both) : z <= x /\ both[z] = both[x] \cup right[l]
  <2> TAKE x \in 1 .. Len(both)
  <2> TAKE l \in 1 .. Len(right)
  <2>1. CASE x \in 1 .. Len(pts)
    <3>1. PICK z \in 1 .. Len(pts) : z <= x /\ pts[z] = pts[x] \cup right[l]
      BY <1>12, <2>1
    <3>2. QED
      BY <1>14, <2>1, <3>1
  <2>2. CASE /\ x - Len(pts) \in 1 .. Len(left) /\ Len(pts) < x
             /\ both[x] = left[x - Len(pts)]
    <3> DEFINE z == at[<<x - Len(pts), l>>]
    <3>1. z \in 1 .. Len(pts) /\ pts[z] = both[x] \cup right[l]
      BY <1>6, <1>7, <1>10, <2>2
    <3> HIDE DEF z
    <3>2. z <= x
      BY <1>13, <2>2, <3>1
    <3>3. QED
      BY <1>14, <3>1, <3>2
  <2>3. QED
    BY <1>14, <2>1, <2>2
<1>16. /\ all \in Seq(T) /\ Len(all) = Len(both) + Len(right) /\ Len(both) \in Nat
       /\ \A x \in 1 .. Len(both) + Len(right) :
             all[x] = IF x <= Len(both) THEN both[x] ELSE right[x - Len(both)]
       /\ Joined(all)
  <2> HIDE DEF T
  <2>1. Joined(all)
    BY <1>1, <1>13, <1>15, FollowedJoined
  <2>2. QED
    BY <1>1, <1>13, <2>1, ConcatProperties, LenProperties
<1> HIDE DEF all
<1>17. Len(all) > 0 /\ \A x \in 1 .. Len(all) : all[x] # {}
  <2>1. Len(all) > 0
    BY <1>1, <1>2, <1>13, <1>16
  <2>2. ASSUME NEW x \in 1 .. Len(all) PROVE all[x] # {}
    <3>1. CASE x \in 1 .. Len(both)
      <4>1. all[x] = both[x]
        BY <1>2, <1>16, <3>1
      <4>2. CASE x \in 1 .. Len(pts)
        <5>1. both[x] = pts[x] /\ x \in 1 .. Len(pairs)
          BY <1>10, <1>14, <4>2
        <5>2. QED
          BY <1>9, <4>1, <5>1
      <4>3. CASE x - Len(pts) \in 1 .. Len(left) /\ both[x] = left[x - Len(pts)]
        BY <1>1, <4>1, <4>3
      <4>4. QED
        BY <1>14, <3>1, <4>2, <4>3
    <3>2. CASE ~(x \in 1 .. Len(both))
      <4>1. x - Len(both) \in 1 .. Len(right) /\ all[x] = right[x - Len(both)]
        BY <1>2, <1>16, <3>2
      <4>2. QED
        BY <1>1, <4>1
    <3>3. QED
      BY <3>1, <3>2
  <2>3. QED
    BY <2>1, <2>2
<1>18. WellFormed(RemovePointsThatLackFullIterators(all), I)
  BY <1>16, <1>17, RemoveLackingWellFormed
<1>19. UnionLattices(left, right)
          = RemovePointsWithIdenticalIterators(RemovePointsThatLackFullIterators(all))
  BY DEF UnionLattices, all, both, pts
<1>20. QED
  BY <1>18, <1>19, RemoveIdenticalWellFormed

(***************************************************************************)
(* The lattice of an expression.                                           *)
(***************************************************************************)
\* The iterators of an expression.
IteratorsOf(e) ==
    {Dim} \cup {Iterator(e[n].t, e[n].kind) :
                   n \in {m \in DOMAIN e : e[m].op = "access" /\ e[m].kind # "dense"}}

\* f has the lattices of the nodes N.
Built(e, N, f) == f = [n \in N |-> NodeLattice(e[n], f)]

\* The nodes of an expression.
LEMMA NodeCases ==
    ASSUME NEW e, IsExpression(e), NEW n \in DOMAIN e
    PROVE  \/ e[n].op = "access" /\ e[n].t \in Operands /\ e[n].kind \in Kinds
           \/ e[n].op = "literal"
           \/ e[n].op = "neg" /\ e[n].a \in 1 .. (n - 1)
           \/ /\ e[n].op \in {"add", "sub", "mul"}
              /\ e[n].a \in 1 .. (n - 1) /\ e[n].b \in 1 .. (n - 1)
<1>1. \/ e[n] \in [op : {"access"}, t : Operands, kind : Kinds]
      \/ e[n] = Literal
      \/ e[n] \in [op : {"neg"}, a : 1..(n - 1)]
      \/ e[n] \in [op : {"add", "sub", "mul"}, a : 1..(n - 1), b : 1..(n - 1)]
  BY DEF IsExpression
<1> HIDE DEF Kinds
<1>2. QED
  BY <1>1 DEF Literal

\* The lattice of a node depends on the lattices of the nodes it is made of.
LEMMA NodeLatticeAgrees ==
    ASSUME NEW e, IsExpression(e), NEW n \in DOMAIN e, NEW f, NEW g,
           \A m \in 1 .. (n - 1) : f[m] = g[m]
    PROVE  NodeLattice(e[n], f) = NodeLattice(e[n], g)
<1>1. CASE e[n].op = "access"
  BY <1>1 DEF NodeLattice
<1>2. CASE e[n].op = "literal"
  BY <1>2 DEF NodeLattice
<1>3. CASE e[n].op = "neg" /\ e[n].a \in 1 .. (n - 1)
  <2>1. f[e[n].a] = g[e[n].a]
    BY <1>3
  <2>2. QED
    BY <1>3, <2>1 DEF NodeLattice
<1>4. CASE /\ e[n].op \in {"add", "sub", "mul"}
           /\ e[n].a \in 1 .. (n - 1) /\ e[n].b \in 1 .. (n - 1)
  <2>1. f[e[n].a] = g[e[n].a] /\ f[e[n].b] = g[e[n].b]
    BY <1>4
  <2>2. QED
    BY <1>4, <2>1 DEF NodeLattice
<1>5. QED
  BY <1>1, <1>2, <1>3, <1>4, NodeCases

\* The recursion over the nodes by which MergeLattice::make() builds has a
\* solution.
LEMMA BuiltExists ==
    ASSUME NEW e, IsExpression(e), NEW m \in Nat, 1 .. m \subseteq DOMAIN e
    PROVE  \E f : Built(e, 1 .. m, f)
<1> DEFINE S == {k \in Nat : k <= m => \E f : Built(e, 1 .. k, f)}
<1>1. 0 \in S
  <2>1. Built(e, 1 .. 0, [n \in {} |-> 0])
    BY DEF Built
  <2>2. QED
    BY <2>1
<1>2. ASSUME NEW k \in Nat, k \in S PROVE k + 1 \in S
  <2> SUFFICES ASSUME k + 1 <= m PROVE \E f : Built(e, 1 .. k + 1, f)
    OBVIOUS
  <2>1. PICK f : Built(e, 1 .. k, f)
    BY <1>2
  <2> DEFINE last == NodeLattice(e[k + 1], f)
             g == [n \in 1 .. k + 1 |-> IF n = k + 1 THEN last ELSE f[n]]
  <2>2. g[k + 1] = last /\ \A n \in 1 .. k : g[n] = f[n]
    OBVIOUS
  <2>3. g = [n \in 1 .. k + 1 |-> g[n]]
    OBVIOUS
  <2>4. \A n \in 1 .. k : f[n] = NodeLattice(e[n], f)
    BY <2>1 DEF Built
  <2> HIDE DEF g, last
  <2>5. ASSUME NEW n \in 1 .. k + 1 PROVE g[n] = NodeLattice(e[n], g)
    <3>1. n \in DOMAIN e /\ \A i \in 1 .. (n - 1) : i \in 1 .. k
      OBVIOUS
    <3>2. \A i \in 1 .. (n - 1) : f[i] = g[i]
      BY <2>2, <3>1
    <3>3. NodeLattice(e[n], f) = NodeLattice(e[n], g)
      BY <3>1, <3>2, NodeLatticeAgrees
    <3>4. CASE n = k + 1
      BY <2>2, <3>3, <3>4 DEF last
    <3>5. CASE n \in 1 .. k
      BY <2>2, <2>4, <3>3, <3>5
    <3>6. QED
      BY <3>4, <3>5
  <2>6. Built(e, 1 .. k + 1, g)
    BY <2>3, <2>5 DEF Built
  <2>7. QED
    BY <2>6
<1> HIDE DEF S
<1>3. m \in S
  BY <1>1, <1>2, SetInduction
<1>4. QED
  BY <1>3 DEF S

\* The lattice of an access is well formed.
LEMMA SinglePointWellFormed ==
    ASSUME NEW I, NEW it \in I
    PROVE  WellFormed(<<{it}>>, I)
<1> DEFINE lat == <<{it}>>
<1>1. lat \in Seq(SUBSET I) /\ Len(lat) = 1 /\ lat[1] = {it}
  OBVIOUS
<1> HIDE DEF lat
<1>2. \A i \in 1 .. Len(lat) : i = 1
  BY <1>1
<1>3. Joined(lat)
  BY <1>1, <1>2 DEF Joined
<1>4. FullEverywhere(lat)
  BY <1>1, <1>2 DEF FullEverywhere
<1>5. QED
  BY <1>1, <1>2, <1>3, <1>4 DEF WellFormed, lat

\* f has the lattices of all nodes of e.
Lattices(e, f) ==
    \A n \in 1 .. Len(e) :
        f[n] = NodeLattice(e[n], f) /\ WellFormed(f[n], IteratorsOf(e))

\* Every node of an expression has a lattice, and the last one's is the result.
LEMMA BuildLattices ==
    ASSUME NEW e, e \in Seq(Range(e)), IsExpression(e)
    PROVE  /\ Len(e) \in Nat \ {0} /\ DOMAIN e = 1 .. Len(e)
           /\ \E f : Lattices(e, f) /\ Build(e) = f[Len(e)]
<1> DEFINE I == IteratorsOf(e)
<1>1. Len(e) \in Nat /\ DOMAIN e = 1 .. Len(e) /\ Len(e) \in 1 .. Len(e)
  <2>1. Len(e) \in Nat /\ DOMAIN e = 1 .. Len(e)
    BY LenProperties
  <2>2. Len(e) # 0
    BY EmptySeq DEF IsExpression
  <2>3. QED
    BY <2>1, <2>2
<1>2. PICK f : Built(e, DOMAIN e, f) /\ Build(e) = f[Len(e)]
  <2>1. \E f : Built(e, DOMAIN e, f)
    BY <1>1, BuiltExists
  <2>2. Build(e) = (CHOOSE f : Built(e, DOMAIN e, f))[Len(e)]
    BY DEF Build, Built
  <2>3. QED
    BY <2>1, <2>2
<1>3. \A n \in DOMAIN e : f[n] = NodeLattice(e[n], f)
  BY <1>2 DEF Built
<1>4. ASSUME NEW n \in DOMAIN e, \A m \in 1 .. (n - 1) : WellFormed(f[m], I)
      PROVE  WellFormed(f[n], I)
  <2>1. Dim \in I
    BY DEF IteratorsOf
  <2>2. CASE e[n].op = "access" /\ e[n].t \in Operands /\ e[n].kind \in Kinds
    <3>1. f[n] = AccessLattice(e[n])
      BY <1>3, <2>2 DEF NodeLattice
    <3> DEFINE it == Iterator(e[n].t, e[n].kind)
    <3>2. CASE HasPosIter(it)
      <4>1. e[n].kind # "dense"
        BY <3>2 DEF HasPosIter, Iterator
      <4>2. it \in I
        BY <2>2, <4>1 DEF IteratorsOf
      <4>3. f[n] = <<{it}>>
        BY <3>1, <3>2 DEF AccessLattice
      <4> HIDE DEF it, I
      <4>4. QED
        BY <4>2, <4>3, SinglePointWellFormed
    <3>3. CASE ~HasPosIter(it)
      <4>1. f[n] = <<{Dim}>>
        BY <3>1, <3>3 DEF AccessLattice
      <4> HIDE DEF I
      <4>2. QED
        BY <2>1, <4>1, SinglePointWellFormed
    <3>4. QED
      BY <3>2, <3>3
  <2>3. CASE e[n].op = "literal"
    <3>1. f[n] = <<{Dim}>>
      BY <1>3, <2>3 DEF NodeLattice, ModeIterationLattice
    <3> HIDE DEF I
    <3>2. QED
      BY <2>1, <3>1, SinglePointWellFormed
  <2>4. CASE e[n].op = "neg" /\ e[n].a \in 1 .. (n - 1)
    <3>1. f[n] = f[e[n].a]
      BY <1>3, <2>4 DEF NodeLattice
    <3>2. WellFormed(f[e[n].a], I)
      BY <1>4, <2>4
    <3>3. QED
      BY <3>1, <3>2
  <2>5. CASE /\ e[n].op \in {"add", "sub", "mul"}
             /\ e[n].a \in 1 .. (n - 1) /\ e[n].b \in 1 .. (n - 1)
    <3>1. WellFormed(f[e[n].a], I) /\ WellFormed(f[e[n].b], I)
      BY <1>4, <2>5
    <3> HIDE DEF I
    <3>2. CASE e[n].op \in {"add", "sub"}
      <4>1. f[n] = UnionLattices(f[e[n].a], f[e[n].b])
        BY <1>3, <3>2 DEF NodeLattice
      <4>2. QED
        BY <3>1, <4>1, UnionWellFormed
    <3>3. CASE e[n].op = "mul"
      <4>1. f[n] = IntersectLattices(f[e[n].a], f[e[n].b])
        BY <1>3, <3>3 DEF NodeLattice
      <4>2. QED
        BY <3>1, <4>1, IntersectWellFormed
    <3>4. QED
      BY <2>5, <3>2, <3>3
  <2>6. QED
    BY <2>2, <2>3, <2>4, <2>5, NodeCases
<1> DEFINE S == {n \in 1 .. Len(e) : WellFormed(f[n], I)}
<1> HIDE DEF I
<1>5. \A n \in 1 .. Len(e) : n \in S
  <2>1. ASSUME NEW n \in 1 .. Len(e), \A m \in 1 .. (n - 1) : m \in S
        PROVE  n \in S
    <3>1. \A m \in 1 .. (n - 1) : WellFormed(f[m], I)
      BY <2>1
    <3>2. QED
      BY <1>1, <1>4, <3>1
  <2> HIDE DEF S
  <2>2. QED
    BY <1>1, <2>1, NodeInduction
<1>6. Lattices(e, f)
  BY <1>1, <1>3, <1>5 DEF Lattices, I
<1>7. QED
  BY <1>1, <1>2, <1>6

\* MergeLattice::make() builds a well-formed lattice.
LEMMA BuildWellFormed ==
    ASSUME NEW e, e \in Seq(Range(e)), IsExpression(e)
    PROVE  WellFormed(Build(e), IteratorsOf(e))
<1>1. Len(e) \in 1 .. Len(e)
  BY BuildLattices
<1>2. QED
  BY <1>1, BuildLattices DEF Lattices

(***************************************************************************)
(* The iterators of an expression and the levels they go through.          *)
(***************************************************************************)
\* The iterator of an operand, if it has one, is of the operand's kind.
LEMMA IteratorFacts ==
    ASSUME NEW e, IsExpression(e)
    PROVE  /\ \A it \in IteratorsOf(e) :
                 \/ it = Dim
                 \/ /\ it # Dim /\ it.t \in Operands /\ it.kind = KindOf(e, it.t)
                    /\ it.kind \in {"compressed", "full", "duplicates"}
           /\ \A a, b \in IteratorsOf(e) : a.t = b.t => a = b
           /\ Dim.t \notin Operands
<1>1. Dim.t = 0 /\ Dim.t \notin Operands
  BY LoopAssumption DEF Dim, Iterator
<1>2. \A n \in DOMAIN e : e[n].op = "access" =>
         e[n].t \in Operands /\ e[n].kind \in Kinds
  BY NodeCases
<1>3. \A m, n \in DOMAIN e :
         e[m].op = "access" /\ e[n].op = "access" /\ e[m].t = e[n].t => m = n
  BY DEF IsExpression
<1>4. \A n \in DOMAIN e : e[n].op = "access" => KindOf(e, e[n].t) = e[n].kind
  <2> TAKE n \in DOMAIN e
  <2> HAVE e[n].op = "access"
  <2>1. \A m \in DOMAIN e : e[m].op = "access" /\ e[m].t = e[n].t => m = n
    BY <1>3
  <2>2. (CHOOSE m \in DOMAIN e : e[m].op = "access" /\ e[m].t = e[n].t) = n
    BY <2>1
  <2>3. QED
    BY <2>2 DEF KindOf
<1>5. \A it \in IteratorsOf(e) : it = Dim \/ \E n \in DOMAIN e :
         /\ e[n].op = "access" /\ e[n].kind # "dense"
         /\ it = Iterator(e[n].t, e[n].kind)
  BY DEF IteratorsOf
<1>6. \A it \in IteratorsOf(e) : it = Dim \/ \E n \in DOMAIN e :
         /\ e[n].op = "access" /\ e[n].kind # "dense"
         /\ it.t = e[n].t /\ it.kind = e[n].kind
  BY <1>5 DEF Iterator
<1>7. ASSUME NEW it \in IteratorsOf(e)
      PROVE  \/ it = Dim
             \/ /\ it # Dim /\ it.t \in Operands /\ it.kind = KindOf(e, it.t)
                /\ it.kind \in {"compressed", "full", "duplicates"}
  BY <1>1, <1>2, <1>4, <1>6 DEF Kinds
<1>8. ASSUME NEW a \in IteratorsOf(e), NEW b \in IteratorsOf(e), a.t = b.t
      PROVE  a = b
  <2>1. CASE a = Dim
    BY <1>1, <1>7, <1>8, <2>1
  <2>2. CASE b = Dim
    BY <1>1, <1>7, <1>8, <2>2
  <2>3. CASE a # Dim /\ b # Dim
    <3>1. PICK m \in DOMAIN e : e[m].op = "access" /\ a = Iterator(e[m].t, e[m].kind)
      BY <1>5, <2>3
    <3>2. PICK n \in DOMAIN e : e[n].op = "access" /\ b = Iterator(e[n].t, e[n].kind)
      BY <1>5, <2>3
    <3>3. a.t = e[m].t /\ b.t = e[n].t
      BY <3>1, <3>2 DEF Iterator
    <3>4. m = n
      BY <1>3, <1>8, <3>1, <3>2, <3>3
    <3>5. QED
      BY <3>1, <3>2, <3>4
  <2>4. QED
    BY <2>1, <2>2, <2>3
<1>9. QED
  BY <1>1, <1>7, <1>8

\* The components of a level of each kind.
LEMMA LevelFacts ==
    ASSUME NEW kind \in Kinds, NEW s \in Patterns[kind]
    PROVE  /\ Len(s) \in Nat /\ \A i \in 1 .. Len(s) : s[i] \in Coordinates
           /\ kind = "full" =>
                 Len(s) = Dimension /\ \A i \in 1 .. Len(s) : s[i] = i - 1
           /\ \A i \in 1 .. Len(s) - 1 : s[i] <= s[i + 1]
           /\ kind # "duplicates" => \A i \in 1 .. Len(s) - 1 : s[i] < s[i + 1]
<1>1. CASE kind \in {"dense", "full"}
  <2>1. s = [i \in 1 .. Dimension |-> i - 1] /\ Dimension \in Nat
    BY <1>1, LoopAssumption DEF Patterns, All
  <2>2. Len(s) = Dimension /\ \A i \in 1 .. Dimension : s[i] = i - 1
    BY <2>1
  <2>3. \A i \in 1 .. Dimension - 1 : i \in 1 .. Dimension /\ i + 1 \in 1 .. Dimension
    BY <2>1
  <2> HIDE <2>1
  <2>4. \A i \in 1 .. Dimension - 1 : s[i] = i - 1 /\ s[i + 1] = i
    BY <2>2, <2>3
  <2>5. QED
    BY <2>1, <2>2, <2>4 DEF Coordinates
<1>2. ASSUME NEW max \in Nat, s \in Lists(max)
      PROVE  Len(s) \in Nat /\ \A i \in 1 .. Len(s) : s[i] \in Coordinates
  <2>1. PICK n \in 0 .. max : s \in [1 .. n -> Coordinates]
    BY <1>2 DEF Lists
  <2>2. Len(s) = n /\ n \in Nat
    BY <2>1
  <2>3. QED
    BY <2>1, <2>2
<1>3. \A i \in 1 .. Len(s) - 1 : Len(s) \in Nat => i \in 1 .. Len(s) /\ i + 1 \in 1 .. Len(s)
  OBVIOUS
<1>4. CASE kind = "compressed"
  <2>1. s \in Lists(Dimension) /\ \A i \in 1 .. Len(s) - 1 : s[i] < s[i + 1]
    BY <1>4 DEF Patterns
  <2>2. Len(s) \in Nat /\ \A i \in 1 .. Len(s) : s[i] \in Coordinates
    BY <1>2, <2>1, LoopAssumption
  <2>3. \A i \in 1 .. Len(s) - 1 : s[i] <= s[i + 1]
    BY <1>3, <2>1, <2>2 DEF Coordinates
  <2>4. QED
    BY <1>4, <2>1, <2>2, <2>3
<1>5. CASE kind = "duplicates"
  <2>1. s \in Lists(MaxDuplicates) /\ \A i \in 1 .. Len(s) - 1 : s[i] <= s[i + 1]
    BY <1>5 DEF Patterns
  <2>2. Len(s) \in Nat /\ \A i \in 1 .. Len(s) : s[i] \in Coordinates
    BY <1>2, <2>1, LoopAssumption
  <2>3. QED
    BY <1>5, <2>1, <2>2
<1>6. QED
  BY <1>1, <1>4, <1>5 DEF Kinds

\* How far the components at c go on from a position.
Segment(level, from, c) ==
    Max({n \in from .. (Len(level) + 1) : \A i \in from .. (n - 1) : level[i] = c}
        \cup {from})

\* The segment of duplicates at a position ends before the next coordinate.
LEMMA SegmentProperty ==
    ASSUME NEW level, Len(level) \in Nat, NEW from \in 1 .. Len(level) + 1, NEW c
    PROVE  /\ Segment(level, from, c) \in from .. Len(level) + 1
           /\ \A i \in from .. (Segment(level, from, c) - 1) : level[i] = c
           /\ Segment(level, from, c) <= Len(level)
                 => level[Segment(level, from, c)] # c
<1> DEFINE ends == {n \in from .. (Len(level) + 1) :
                       \A i \in from .. (n - 1) : level[i] = c}
           m == Segment(level, from, c)
<1>1. ends \cup {from} = ends /\ from \in ends
  OBVIOUS
<1>2. ends \in SUBSET (0 .. Len(level) + 1) /\ ends # {}
  BY <1>1
<1>3. m = Max(ends)
  BY <1>1 DEF Segment
<1> HIDE DEF ends, m
<1>4. m \in ends /\ \A n \in ends : m >= n
  <2>1. Len(level) + 1 \in Nat
    OBVIOUS
  <2>2. Max(ends) \in ends /\ \A n \in ends : Max(ends) >= n
    BY <1>2, <2>1, MaxProperty
  <2>3. QED
    BY <1>3, <2>2
<1>5. m \in from .. Len(level) + 1 /\ \A i \in from .. (m - 1) : level[i] = c
  BY <1>4 DEF ends
<1>6. ASSUME m <= Len(level), level[m] = c PROVE FALSE
  <2>1. m + 1 \in from .. Len(level) + 1
    BY <1>5, <1>6
  <2>2. \A i \in from .. ((m + 1) - 1) : i = m \/ i \in from .. (m - 1)
    BY <1>5
  <2>3. \A i \in from .. ((m + 1) - 1) : level[i] = c
    BY <1>5, <1>6, <2>2
  <2>4. m + 1 \in ends
    BY <2>1, <2>3 DEF ends
  <2>5. m >= m + 1
    BY <1>4, <2>4
  <2>6. QED
    BY <1>5, <2>5
<1>7. QED
  BY <1>5, <1>6 DEF m

(***************************************************************************)
(* The inductive invariant.                                                *)
(***************************************************************************)
\* The positions are inside the levels, or just past their end.
Typed ==
    /\ expr \in Expressions /\ lattice = Build(expr)
    /\ \A t \in Operands : levels[t] \in Patterns[KindOf(expr, t)]
    /\ loop \in 1 .. Len(lattice) + 1
    /\ pos \in [Operands -> Nat]
    /\ \A t \in Operands : pos[t] \in 1 .. Len(levels[t]) + 1
    /\ dim \in Nat
    /\ \E R : result \in Seq(R)

\* The loops have visited the coordinates before x.  The full iterators, which
\* are in every point, are at x.  A loop that is not over has none of its
\* iterators behind x, also one that still waits for its turn; a loop that is
\* over stays over.
Visited(x) ==
    /\ \A i \in 1 .. Len(result) : result[i][1] \in Nat /\ result[i][1] < x
    /\ \A it \in lattice[1] : IsFull(it) =>
          IF it = Dim THEN dim = x ELSE pos[it.t] = x + 1
    /\ \A p \in loop .. Len(lattice) :
          (\A it \in Rangers(lattice[p]) : Unexhausted(it)) =>
             \A it \in lattice[p] : Unexhausted(it) => x <= Loaded(it)
    /\ \A p \in 1 .. (loop - 1) : \E it \in Rangers(lattice[p]) : ~Unexhausted(it)

Invariant ==
    /\ Typed /\ AppendsAscending
    /\ \E x \in 0 .. Dimension : Visited(x)

\* The lattice in a state of the loops.
LEMMA LatticeFacts ==
    ASSUME Typed
    PROVE  /\ expr \in Seq(Range(expr)) /\ IsExpression(expr)
           /\ WellFormed(lattice, IteratorsOf(expr))
           /\ Len(lattice) \in Nat \ {0}
           /\ \A i \in 1 .. Len(lattice) :
                 /\ lattice[i] \subseteq IteratorsOf(expr)
                 /\ lattice[i] \subseteq lattice[1]
                 /\ \A it \in lattice[1] : IsFull(it) => it \in lattice[i]
<1>1. expr \in Seq(Range(expr)) /\ IsExpression(expr)
  BY ExpressionsAssumption DEF Typed
<1>2. WellFormed(lattice, IteratorsOf(expr))
  BY <1>1, BuildWellFormed DEF Typed
<1>3. /\ lattice \in Seq(SUBSET IteratorsOf(expr)) /\ Len(lattice) > 0
      /\ Joined(lattice) /\ FullEverywhere(lattice)
  BY <1>2 DEF WellFormed
<1>4. Len(lattice) \in Nat \ {0}
  BY <1>3, LenProperties
<1>5. ASSUME NEW i \in 1 .. Len(lattice)
      PROVE  /\ lattice[i] \subseteq IteratorsOf(expr)
             /\ lattice[i] \subseteq lattice[1]
             /\ \A it \in lattice[1] : IsFull(it) => it \in lattice[i]
  <2>1. lattice[i] \in SUBSET IteratorsOf(expr)
    BY <1>3, ElementOfSeq
  <2>2. 1 \in 1 .. Len(lattice)
    BY <1>4
  <2>3. PICK k \in 1 .. Len(lattice) : k <= 1 /\ lattice[k] = lattice[1] \cup lattice[i]
    BY <1>3, <2>2 DEF Joined
  <2>4. k = 1
    BY <1>4, <2>3
  <2>5. QED
    BY <1>3, <2>1, <2>3, <2>4 DEF FullEverywhere
<1>6. QED
  BY <1>1, <1>2, <1>4, <1>5

\* The sublattice of a loop starts with the point of the loop, and its points
\* have no other iterators.
LEMMA SublatticeFacts ==
    ASSUME Typed, loop <= Len(lattice)
    PROVE  /\ sublattice \in Seq(SUBSET IteratorsOf(expr)) /\ Len(sublattice) > 0
           /\ point = lattice[loop]
           /\ \A n \in 1 .. Len(sublattice) :
                 sublattice[n] \subseteq point /\ sublattice[n] # {}
<1> DEFINE K == {i \in DOMAIN lattice : lattice[i] \subseteq lattice[loop]}
           I == IteratorsOf(expr)
<1>1. /\ lattice \in Seq(SUBSET I) /\ Joined(lattice) /\ Len(lattice) \in Nat
      /\ \A i \in 1 .. Len(lattice) : lattice[i] # {}
      /\ DOMAIN lattice = 1 .. Len(lattice) /\ loop \in 1 .. Len(lattice)
  BY LatticeFacts, LenProperties DEF WellFormed, Typed
<1>2. sublattice = Keep(lattice, K)
  BY DEF sublattice, SubLattice
<1>3. /\ sublattice \in Seq(SUBSET I)
      /\ \E at : KeptAt(lattice, K, Len(lattice), sublattice, at)
  <2> HIDE DEF K, I
  <2>1. QED
    BY <1>1, <1>2, KeepProperty
<1>4. PICK at : KeptAt(lattice, K, Len(lattice), sublattice, at)
  BY <1>3
<1>5. loop \in K /\ K \cap (1 .. Len(lattice)) = K
  BY <1>1
<1>6. Len(sublattice) \in Nat
  BY <1>3, LenProperties
<1>7. /\ \A n \in 1 .. Len(sublattice) : at[n] \in K /\ sublattice[n] = lattice[at[n]]
      /\ \A i, j \in 1 .. Len(sublattice) : i < j => at[i] < at[j]
      /\ \A k \in K : \E n \in 1 .. Len(sublattice) : at[n] = k
  BY <1>4, <1>5 DEF KeptAt
<1>8. PICK n \in 1 .. Len(sublattice) : at[n] = loop
  BY <1>5, <1>7
<1>9. 1 \in 1 .. Len(sublattice)
  BY <1>6, <1>8
<1>10. at[1] \in 1 .. Len(lattice) /\ lattice[at[1]] \subseteq lattice[loop]
  BY <1>7, <1>9, <1>1
<1>11. PICK k \in 1 .. Len(lattice) :
          k <= at[1] /\ k <= loop /\ lattice[k] = lattice[at[1]] \cup lattice[loop]
  BY <1>1, <1>10 DEF Joined
<1>12. lattice[k] = lattice[loop]
  BY <1>10, <1>11
<1>13. k \in K
  BY <1>1, <1>12
<1>14. PICK m \in 1 .. Len(sublattice) : at[m] = k
  BY <1>7, <1>13
<1>15. m = 1
  <2>1. CASE 1 < m
    <3>1. at[1] < k
      BY <1>7, <1>9, <1>14, <2>1
    <3>2. QED
      BY <1>10, <1>11, <3>1
  <2>2. QED
    BY <1>6, <2>1
<1>16. sublattice[1] = lattice[loop]
  BY <1>7, <1>9, <1>12, <1>14, <1>15
<1>17. \A i \in 1 .. Len(sublattice) :
          sublattice[i] \subseteq lattice[loop] /\ sublattice[i] # {}
  BY <1>1, <1>7
<1>18. QED
  BY <1>3, <1>6, <1>9, <1>16, <1>17 DEF point

\* What is loaded from a level that is not exhausted is a coordinate, the next
\* one is not less.
LEMMA LoadedFacts ==
    ASSUME Typed, NEW it \in IteratorsOf(expr)
    PROVE  /\ Unexhausted(it) => Loaded(it) \in Coordinates
           /\ it # Dim =>
                 /\ it.t \in Operands /\ it.kind = KindOf(expr, it.t)
                 /\ it.kind \in {"compressed", "full", "duplicates"}
                 /\ pos[it.t] \in 1 .. Len(levels[it.t]) + 1
                 /\ Len(levels[it.t]) \in Nat
                 /\ \A i \in 1 .. Len(levels[it.t]) : levels[it.t][i] \in Coordinates
                 /\ IsFull(it) => /\ Len(levels[it.t]) = Dimension
                                  /\ \A i \in 1 .. Len(levels[it.t]) :
                                        levels[it.t][i] = i - 1
                 /\ \A i \in 1 .. Len(levels[it.t]) - 1 :
                       levels[it.t][i] <= levels[it.t][i + 1]
                 /\ IsUnique(it) => \A i \in 1 .. Len(levels[it.t]) - 1 :
                       levels[it.t][i] < levels[it.t][i + 1]
<1>1. IsExpression(expr)
  BY LatticeFacts
<1>2. CASE it = Dim
  BY <1>2, LoopAssumption DEF Typed, Unexhausted, Loaded, IsDimension, Coordinates
<1>3. CASE it # Dim
  <2>1. /\ it.t \in Operands /\ it.kind = KindOf(expr, it.t)
        /\ it.kind \in {"compressed", "full", "duplicates"}
    BY <1>1, <1>3, IteratorFacts
  <2>2. /\ pos[it.t] \in 1 .. Len(levels[it.t]) + 1
        /\ levels[it.t] \in Patterns[it.kind]
    BY <2>1 DEF Typed
  <2> DEFINE s == levels[it.t]
  <2>3. it.kind \in Kinds
    BY <2>1 DEF Kinds
  <2> HIDE DEF s
  <2>4. /\ Len(s) \in Nat /\ \A i \in 1 .. Len(s) : s[i] \in Coordinates
        /\ it.kind = "full" =>
              Len(s) = Dimension /\ \A i \in 1 .. Len(s) : s[i] = i - 1
        /\ \A i \in 1 .. Len(s) - 1 : s[i] <= s[i + 1]
        /\ it.kind # "duplicates" => \A i \in 1 .. Len(s) - 1 : s[i] < s[i + 1]
    BY <2>2, <2>3, LevelFacts DEF s
  <2>5. /\ IsFull(it) => it.kind = "full"
        /\ IsUnique(it) => it.kind # "duplicates"
    BY <2>1 DEF IsFull, IsUnique
  <2>6. Unexhausted(it) => Loaded(it) \in Coordinates
    <3>1. Unexhausted(it) => pos[it.t] \in 1 .. Len(s)
      BY <1>3, <2>2, <2>4 DEF Unexhausted, IsDimension, s
    <3>2. Loaded(it) = s[pos[it.t]]
      BY <1>3 DEF Loaded, IsDimension, s
    <3>3. QED
      BY <2>4, <3>1, <3>2
  <2>7. QED
    BY <2>1, <2>2, <2>4, <2>5, <2>6 DEF s
<1>4. QED
  BY <1>2, <1>3

\* The rangers and mergers that the lowerer picks: the full iterators are merged
\* if there are any, and tested only when there is nothing else.
LEMMA RangersFacts ==
    ASSUME NEW p
    PROVE  /\ Rangers(p) \subseteq p /\ Mergers(p) \subseteq p
           /\ p # {} => Mergers(p) # {}
           /\ \A it \in p : ~IsFull(it) => it \in Rangers(p)
           /\ \A it \in p : IsFull(it) => Mergers(p) = FullOf(p)
           /\ (\A it \in p : ~IsFull(it)) => Mergers(p) = p
           /\ (\A it \in p : IsFull(it)) => Rangers(p) = p
           /\ \A it \in Rangers(p) : IsFull(it) => \A z \in p : IsFull(z)
BY DEF Rangers, Mergers, FullOf, SparseOf

\* While a loop runs no iterator of its point is exhausted, and none is behind.
LEMMA RunningInside ==
    ASSUME Typed, NEW x \in 0 .. Dimension, Visited(x), Running
    PROVE  /\ point # {} /\ point \subseteq IteratorsOf(expr)
           /\ point \subseteq lattice[1] /\ point = lattice[loop]
           /\ loop \in 1 .. Len(lattice)
           /\ \A it \in point :
                 /\ Unexhausted(it) /\ Loaded(it) \in Coordinates /\ x <= Loaded(it)
                 /\ IsFull(it) => Loaded(it) = x
<1>1. loop \in 1 .. Len(lattice) /\ loop <= Len(lattice) /\ Len(lattice) \in Nat
  BY LatticeFacts DEF Running, Typed
<1>2. /\ point = lattice[loop] /\ lattice[loop] \subseteq IteratorsOf(expr)
      /\ lattice[loop] \subseteq lattice[1] /\ lattice[loop] # {}
  BY <1>1, LatticeFacts, SublatticeFacts DEF WellFormed
<1>3. \A it \in Rangers(point) : Unexhausted(it)
  BY DEF Running
<1>4. loop \in loop .. Len(lattice)
  BY <1>1
<1>5. \A it \in point : Unexhausted(it) => x <= Loaded(it)
  <2> HIDE DEF point
  <2>1. QED
    BY <1>2, <1>3, <1>4 DEF Visited
<1>6. ASSUME NEW it \in point, IsFull(it), x < Dimension
      PROVE  Unexhausted(it) /\ Loaded(it) = x
  <2>1. IF it = Dim THEN dim = x ELSE pos[it.t] = x + 1
    BY <1>2, <1>6 DEF Visited
  <2>2. CASE it = Dim
    BY <1>6, <2>1, <2>2 DEF Unexhausted, Loaded, IsDimension
  <2>3. CASE it # Dim
    <3>1. /\ Len(levels[it.t]) = Dimension
          /\ \A i \in 1 .. Len(levels[it.t]) : levels[it.t][i] = i - 1
      BY <1>2, <1>6, <2>3, LoadedFacts
    <3>2. pos[it.t] = x + 1 /\ x + 1 \in 1 .. Len(levels[it.t])
      BY <1>6, <2>1, <2>3, <3>1, LoopAssumption
    <3>3. levels[it.t][pos[it.t]] = x /\ pos[it.t] <= Len(levels[it.t])
      BY <3>1, <3>2, LoopAssumption
    <3>4. QED
      BY <2>3, <3>3 DEF Unexhausted, Loaded, IsDimension
  <2>4. QED
    BY <2>2, <2>3
<1>7. ASSUME NEW it \in point, IsFull(it) PROVE x < Dimension
  <2>1. CASE \A z \in point : IsFull(z)
    <3>1. Unexhausted(it)
      BY <1>3, <2>1, RangersFacts
    <3>2. IF it = Dim THEN dim = x ELSE pos[it.t] = x + 1
      BY <1>2, <1>7 DEF Visited
    <3>3. CASE it = Dim
      BY <3>1, <3>2, <3>3 DEF Unexhausted, IsDimension
    <3>4. CASE it # Dim
      <4>1. Len(levels[it.t]) = Dimension
        BY <1>2, <1>7, <3>4, LoadedFacts
      <4>2. x + 1 <= Dimension
        BY <3>1, <3>2, <3>4, <4>1 DEF Unexhausted, IsDimension
      <4>3. QED
        BY <4>2, LoopAssumption
    <3>5. QED
      BY <3>3, <3>4
  <2>2. CASE ~(\A z \in point : IsFull(z))
    <3>1. PICK z \in point : ~IsFull(z)
      BY <2>2
    <3>2. Unexhausted(z)
      BY <1>3, <3>1, RangersFacts
    <3>3. x <= Loaded(z) /\ Loaded(z) \in Coordinates
      BY <1>2, <1>5, <3>1, <3>2, LoadedFacts
    <3>4. QED
      BY <3>3, LoopAssumption DEF Coordinates
  <2>3. QED
    BY <2>1, <2>2
<1>8. ASSUME NEW it \in point
      PROVE  /\ Unexhausted(it) /\ Loaded(it) \in Coordinates /\ x <= Loaded(it)
             /\ IsFull(it) => Loaded(it) = x
  <2>1. Unexhausted(it)
    <3>1. CASE IsFull(it)
      BY <1>6, <1>7, <3>1
    <3>2. CASE ~IsFull(it)
      BY <1>3, <3>2, RangersFacts
    <3>3. QED
      BY <3>1, <3>2
  <2>2. QED
    BY <1>2, <1>5, <1>6, <1>7, <2>1, LoadedFacts
<1>9. QED
  BY <1>1, <1>2, <1>8

\* The coordinate of an iteration is the least one.
LEMMA CoordinateFacts ==
    ASSUME Typed, NEW x \in 0 .. Dimension, Visited(x), Running
    PROVE  /\ coordinate \in Coordinates /\ x <= coordinate
           /\ \E it \in Mergers(point) : it \in point /\ Loaded(it) = coordinate
           /\ \A it \in point : coordinate <= Loaded(it)
           /\ \A it \in point : IsFull(it) => Loaded(it) = coordinate /\ coordinate = x
<1>1. /\ point # {}
      /\ \A it \in point :
            /\ Unexhausted(it) /\ Loaded(it) \in Coordinates /\ x <= Loaded(it)
            /\ IsFull(it) => Loaded(it) = x
  BY RunningInside
<1> DEFINE P == {Loaded(it) : it \in Mergers(point)}
<1>2. Mergers(point) \subseteq point /\ Mergers(point) # {}
  BY <1>1, RangersFacts
<1>3. P \in SUBSET Nat /\ P # {}
  <2>1. \A it \in Mergers(point) : Loaded(it) \in Coordinates
    BY <1>1, <1>2
  <2>2. QED
    BY <1>2, <2>1, LoopAssumption DEF Coordinates
<1>4. coordinate = Min(P)
  BY DEF coordinate
<1>5. coordinate \in P /\ \A y \in P : coordinate <= y
  <2> HIDE DEF P
  <2>1. QED
    BY <1>3, <1>4, MinProperty
<1>6. PICK m \in Mergers(point) : coordinate = Loaded(m)
  BY <1>5
<1>7. coordinate \in Coordinates /\ x <= coordinate /\ m \in point
  BY <1>1, <1>2, <1>6
<1>8. ASSUME NEW it \in point, IsFull(it) PROVE coordinate = x
  <2>1. Mergers(point) = FullOf(point)
    BY <1>8, RangersFacts
  <2>2. IsFull(m)
    BY <1>6, <2>1 DEF FullOf
  <2>3. QED
    BY <1>1, <1>6, <1>7, <2>2
<1>9. ASSUME NEW it \in point PROVE coordinate <= Loaded(it)
  <2>1. CASE \E z \in point : IsFull(z)
    BY <1>1, <1>8, <2>1
  <2>2. CASE ~(\E z \in point : IsFull(z))
    <3>1. Mergers(point) = point
      BY <2>2, RangersFacts
    <3>2. Loaded(it) \in P
      BY <3>1
    <3>3. QED
      BY <1>5, <3>2
  <2>3. QED
    BY <2>1, <2>2
<1>10. QED
  BY <1>1, <1>6, <1>7, <1>8, <1>9

\* An iterator of the point moves on to a later coordinate.
LEMMA AdvancedFacts ==
    ASSUME Typed, NEW x \in 0 .. Dimension, Visited(x), Running,
           NEW it \in point, it # Dim
    PROVE  /\ Advanced(it) \in pos[it.t] .. Len(levels[it.t]) + 1
           /\ Advanced(it) <= Len(levels[it.t])
                 => coordinate < levels[it.t][Advanced(it)]
           /\ IsFull(it) => Advanced(it) = pos[it.t] + 1
           /\ Loaded(it) = coordinate => pos[it.t] < Advanced(it)
<1> DEFINE s == levels[it.t]
           p == pos[it.t]
<1>1. it \in IteratorsOf(expr) /\ Unexhausted(it)
  BY RunningInside
<1>2. /\ p \in 1 .. Len(s) /\ Len(s) \in Nat /\ Loaded(it) = s[p]
      /\ \A i \in 1 .. Len(s) : s[i] \in Nat
      /\ \A i \in 1 .. Len(s) - 1 : s[i] <= s[i + 1]
      /\ IsUnique(it) => \A i \in 1 .. Len(s) - 1 : s[i] < s[i + 1]
  <2>1. /\ p \in 1 .. Len(s) + 1 /\ Len(s) \in Nat
        /\ \A i \in 1 .. Len(s) : s[i] \in Coordinates
        /\ \A i \in 1 .. Len(s) - 1 : s[i] <= s[i + 1]
        /\ IsUnique(it) => \A i \in 1 .. Len(s) - 1 : s[i] < s[i + 1]
    BY <1>1, LoadedFacts
  <2>2. p <= Len(s) /\ Loaded(it) = s[p]
    BY <1>1 DEF Unexhausted, Loaded, IsDimension
  <2>3. Coordinates \subseteq Nat
    BY LoopAssumption DEF Coordinates
  <2> HIDE DEF p, s
  <2>4. p \in 1 .. Len(s)
    BY <2>1, <2>2
  <2>5. \A i \in 1 .. Len(s) : s[i] \in Nat
    BY <2>1, <2>3
  <2>6. QED
    BY <2>1, <2>2, <2>4, <2>5
<1>3. coordinate \in Nat /\ coordinate <= s[p] /\ (IsFull(it) => s[p] = coordinate)
  BY <1>2, CoordinateFacts, LoopAssumption DEF Coordinates
<1> HIDE DEF p, s
<1>4. CASE IsUnique(it)
  <2>1. \/ Advanced(it) = p + 1
        \/ Advanced(it) = p /\ ~IsFull(it) /\ Loaded(it) # coordinate
    BY <1>4 DEF Advanced, p
  <2>2. CASE Advanced(it) = p + 1
    <3>1. p + 1 <= Len(s) => s[p] < s[p + 1] /\ s[p + 1] \in Nat /\ s[p] \in Nat
      BY <1>2, <1>4
    <3>2. p + 1 <= Len(s) => coordinate < s[p + 1]
      BY <1>3, <3>1
    <3>3. QED
      BY <1>2, <2>2, <3>2 DEF p, s
  <2>3. CASE Advanced(it) = p /\ ~IsFull(it) /\ Loaded(it) # coordinate
    <3>1. coordinate < s[p]
      BY <1>2, <1>3, <2>3
    <3>2. QED
      BY <1>2, <2>3, <3>1 DEF p, s
  <2>4. QED
    BY <2>1, <2>2, <2>3
<1>5. CASE ~IsUnique(it)
  <2> DEFINE from == IF AlwaysReduce THEN p + 1 ELSE p
             end == Segment(s, from, coordinate)
  <2>1. Advanced(it) = end
    BY <1>5 DEF Advanced, SegmentEnd, Segment, p, s
  <2>2. ~IsFull(it)
    BY <1>5 DEF IsFull, IsUnique
  <2>3. from \in 1 .. Len(s) + 1 /\ from \in p .. p + 1
    BY <1>2
  <2> HIDE DEF from, end
  <2>4. /\ end \in from .. Len(s) + 1
        /\ \A i \in from .. (end - 1) : s[i] = coordinate
        /\ end <= Len(s) => s[end] # coordinate
    BY <1>2, <2>3, SegmentProperty DEF end
  <2>5. end \in p .. Len(s) + 1
    BY <1>2, <2>3, <2>4
  <2>6. ASSUME end <= Len(s) PROVE coordinate < s[end]
    <3>1. s[end] \in Nat /\ s[p] \in Nat
      BY <1>2, <2>5, <2>6
    <3>2. CASE end = p
      BY <1>3, <2>4, <2>6, <3>1, <3>2
    <3>3. CASE end # p
      <4>1. end - 1 \in 1 .. Len(s) - 1 /\ (end - 1) + 1 = end
        BY <1>2, <2>5, <2>6, <3>3
      <4>2. s[end - 1] <= s[end] /\ s[end - 1] \in Nat
        BY <1>2, <4>1
      <4>3. end - 1 = p \/ end - 1 \in from .. (end - 1)
        BY <1>2, <2>3, <2>5, <3>3
      <4>4. coordinate <= s[end - 1]
        BY <1>3, <2>4, <4>2, <4>3
      <4>5. QED
        BY <1>3, <2>4, <2>6, <3>1, <4>2, <4>4
    <3>4. QED
      BY <3>2, <3>3
  <2>7. ASSUME Loaded(it) = coordinate PROVE p < end
    <3>1. end # p
      <4> SUFFICES ASSUME end = p PROVE FALSE
        OBVIOUS
      <4>1. s[end] = coordinate /\ end <= Len(s)
        BY <1>2, <2>7
      <4>2. QED
        BY <2>4, <4>1
    <3>2. QED
      BY <1>2, <2>5, <3>1
  <2>8. QED
    BY <2>1, <2>2, <2>5, <2>6, <2>7 DEF p, s
<1>6. QED
  BY <1>4, <1>5

(***************************************************************************)
(* What the invariant says of a state.                                     *)
(***************************************************************************)
\* An exact sublattice has a point all of whose rangers are at the coordinate.
LEMMA InvariantExact ==
    ASSUME Invariant
    PROVE  ExactHasCase
<1> SUFFICES ASSUME Running, Exact(sublattice)
             PROVE  \E n \in DOMAIN sublattice : Matches(sublattice[n])
  BY DEF ExactHasCase
<1>1. PICK x \in 0 .. Dimension : Visited(x)
  BY DEF Invariant
<1>2. Typed /\ loop <= Len(lattice)
  BY DEF Invariant, Running
<1>3. /\ sublattice \in Seq(SUBSET IteratorsOf(expr)) /\ Len(sublattice) > 0
      /\ \A n \in 1 .. Len(sublattice) :
            sublattice[n] \subseteq point /\ sublattice[n] # {}
  BY <1>2, SublatticeFacts
<1>4. DOMAIN sublattice = 1 .. Len(sublattice)
  BY <1>3, LenProperties
<1>5. /\ \E it \in Mergers(point) : it \in point /\ Loaded(it) = coordinate
      /\ \A it \in point : IsFull(it) => Loaded(it) = coordinate
  BY <1>1, <1>2, CoordinateFacts
<1>6. CASE \E p \in Range(sublattice) : \A it \in p : IsFull(it)
  <2>1. PICK n \in DOMAIN sublattice : \A it \in sublattice[n] : IsFull(it)
    BY <1>6 DEF Range
  <2>2. \A it \in sublattice[n] : Loaded(it) = coordinate
    BY <1>3, <1>4, <1>5, <2>1
  <2>3. Rangers(sublattice[n]) \subseteq sublattice[n]
    BY RangersFacts
  <2>4. Matches(sublattice[n])
    BY <2>2, <2>3 DEF Matches
  <2>5. QED
    BY <2>4
<1>7. CASE \A it \in Iterators(sublattice) : {it} \in Range(sublattice)
  <2>1. PICK it \in point : Loaded(it) = coordinate
    BY <1>5
  <2>2. Iterators(sublattice) = point
    BY DEF Iterators, point
  <2>3. PICK n \in DOMAIN sublattice : sublattice[n] = {it}
    BY <1>7, <2>1, <2>2 DEF Range
  <2>4. Rangers(sublattice[n]) \subseteq {it}
    BY <2>3, RangersFacts
  <2>5. Matches(sublattice[n])
    BY <2>1, <2>4 DEF Matches
  <2>6. QED
    BY <2>5
<1>8. QED
  BY <1>6, <1>7 DEF Exact

\* A loop's condition covers the positions that its body loads.
LEMMA InvariantLoadsInside ==
    ASSUME Invariant
    PROVE  LoadsInside
<1>1. PICK x \in 0 .. Dimension : Visited(x)
  BY DEF Invariant
<1>2. Typed
  BY DEF Invariant
<1>3. Running => \A it \in point : Unexhausted(it)
  BY <1>1, <1>2, RunningInside
<1>4. \A t \in Operands : pos[t] \in 1 .. (Len(levels[t]) + 1)
  BY <1>2 DEF Typed
<1>5. QED
  BY <1>3, <1>4 DEF LoadsInside

\* The iterator at the coordinate advances.
LEMMA InvariantAdvances ==
    ASSUME Invariant
    PROVE  IterationAdvances
<1> SUFFICES ASSUME Running
             PROVE  \E it \in point : IsDimension(it) \/ Advanced(it) > pos[it.t]
  BY DEF IterationAdvances
<1>1. PICK x \in 0 .. Dimension : Visited(x)
  BY DEF Invariant
<1>2. Typed
  BY DEF Invariant
<1>3. PICK it \in point : Loaded(it) = coordinate
  BY <1>1, <1>2, CoordinateFacts
<1>4. CASE it = Dim
  BY <1>4 DEF IsDimension
<1>5. CASE it # Dim
  <2>1. pos[it.t] < Advanced(it)
    BY <1>1, <1>2, <1>3, <1>5, AdvancedFacts
  <2>2. QED
    BY <2>1
<1>6. QED
  BY <1>4, <1>5

\* At most one case is taken.
LEMMA TakenFacts ==
    ASSUME Typed, loop <= Len(lattice)
    PROVE  Cardinality(Taken) \in {0, 1}
<1>1. Len(sublattice) \in Nat /\ DOMAIN sublattice = 1 .. Len(sublattice)
  BY SublatticeFacts, LenProperties
<1>2. CASE Taken = {1}
  BY <1>2, FS_Singleton
<1>3. CASE Taken = {n \in DOMAIN sublattice :
                      /\ \/ Matches(sublattice[n])
                         \/ Exact(sublattice) /\ n = Len(sublattice) /\ n > 1
                      /\ \A m \in 1 .. (n - 1) : ~Matches(sublattice[m])}
  <2>1. ASSUME NEW m \in Taken, NEW n \in Taken, m < n PROVE FALSE
    <3>1. m \in 1 .. Len(sublattice) /\ n \in 1 .. Len(sublattice)
      BY <1>1, <1>3
    <3>2. /\ Matches(sublattice[m]) \/ m = Len(sublattice)
          /\ \A i \in 1 .. (n - 1) : ~Matches(sublattice[i])
      BY <1>3
    <3> DEFINE l == Len(sublattice)
    <3> HIDE DEF l
    <3>3. m \in 1 .. (n - 1) /\ m # l
      <4>1. l \in Nat /\ m \in 1 .. l /\ n \in 1 .. l
        BY <1>1, <3>1 DEF l
      <4>2. QED
        BY <2>1, <4>1
    <3>4. QED
      BY <3>2, <3>3 DEF l
  <2>2. \A n \in Taken : n \in 1 .. Len(sublattice)
    BY <1>1, <1>3
  <2>3. \A m, n \in Taken : m = n
    BY <1>1, <2>1, <2>2
  <2>4. CASE Taken = {}
    BY <2>4, FS_EmptySet
  <2>5. CASE Taken # {}
    <3>1. PICK n \in Taken : TRUE
      BY <2>5
    <3>2. Taken = {n}
      BY <2>3, <3>1
    <3>3. QED
      BY <3>2, FS_Singleton
  <2>6. QED
    BY <2>4, <2>5
<1>4. QED
  BY <1>2, <1>3 DEF Taken

(***************************************************************************)
(* The invariant is inductive.                                             *)
(***************************************************************************)
\* Before the first loop nothing was visited.
LEMMA InitVisited ==
    ASSUME Init
    PROVE  0 \in 0 .. Dimension /\ Typed /\ AppendsAscending /\ Visited(0)
<1>1. expr \in Seq(Range(expr)) /\ IsExpression(expr)
  BY ExpressionsAssumption DEF Init
<1>2. WellFormed(lattice, IteratorsOf(expr))
  BY <1>1, BuildWellFormed DEF Init
<1>3. Len(lattice) \in Nat /\ Len(lattice) > 0
  BY <1>2, LenProperties DEF WellFormed
<1>4. \A t \in Operands : KindOf(expr, t) \in Kinds
  <2> TAKE t \in Operands
  <2>1. \A n \in DOMAIN expr : expr[n].op = "access" => expr[n].kind \in Kinds
    BY <1>1, NodeCases
  <2>2. QED
    BY <2>1 DEF KindOf, Kinds
<1>5. \A t \in Operands : pos[t] = 1 /\ Len(levels[t]) \in Nat
  BY <1>4, LevelFacts DEF Init
<1>6. pos \in [Operands -> Nat]
  BY DEF Init
<1>7. result \in Seq({}) /\ Len(result) = 0
  BY EmptySeq DEF Init
<1>8. Typed
  <2>1. \A t \in Operands : pos[t] \in 1 .. Len(levels[t]) + 1
    BY <1>5
  <2>2. loop \in 1 .. Len(lattice) + 1 /\ dim \in Nat
    BY <1>3 DEF Init
  <2>3. /\ expr \in Expressions /\ lattice = Build(expr)
        /\ \A t \in Operands : levels[t] \in Patterns[KindOf(expr, t)]
    BY DEF Init
  <2>4. QED
    BY <1>6, <1>7, <2>1, <2>2, <2>3 DEF Typed
<1>9. AppendsAscending
  BY <1>7 DEF AppendsAscending
<1>10. Visited(0)
  <2>1. ASSUME NEW it \in lattice[1]
        PROVE  IF it = Dim THEN dim = 0 ELSE pos[it.t] = 0 + 1
    <3>1. 1 \in 1 .. Len(lattice)
      BY <1>3
    <3>2. it \in IteratorsOf(expr)
      BY <1>8, <3>1, LatticeFacts
    <3>3. it = Dim \/ it.t \in Operands
      BY <1>1, <3>2, IteratorFacts
    <3>4. dim = 0
      BY DEF Init
    <3>5. QED
      BY <1>5, <3>3, <3>4
  <2>2. ASSUME NEW p \in 1 .. Len(lattice), NEW it \in lattice[p], Unexhausted(it)
        PROVE  0 <= Loaded(it)
    <3>1. it \in IteratorsOf(expr)
      BY <1>8, LatticeFacts
    <3>2. Loaded(it) \in Coordinates
      BY <1>8, <2>2, <3>1, LoadedFacts
    <3>3. QED
      BY <3>2, LoopAssumption DEF Coordinates
  <2>3. loop = 1 /\ 1 .. (loop - 1) = {} /\ 1 .. Len(result) = {}
    BY <1>7 DEF Init
  <2>4. QED
    BY <2>1, <2>2, <2>3 DEF Visited
<1>11. 0 \in 0 .. Dimension
  BY LoopAssumption
<1>12. QED
  BY <1>8, <1>9, <1>10, <1>11

\* The invariant holds before the first loop.
LEMMA InitInvariant == Init => Invariant
BY InitVisited DEF Invariant

\* The next loop starts where the last one stopped.
LEMMA NextLoopVisited ==
    ASSUME Typed, AppendsAscending, NEW x \in 0 .. Dimension, Visited(x), NextLoop
    PROVE  Typed' /\ AppendsAscending' /\ Visited(x)'
<1>1. Visited(x)
  OBVIOUS
<1>2. /\ Typed /\ AppendsAscending /\ loop <= Len(lattice) /\ ~Running
      /\ loop' = loop + 1
      /\ expr' = expr /\ lattice' = lattice /\ levels' = levels
      /\ pos' = pos /\ dim' = dim /\ result' = result
  BY DEF NextLoop
<1>3. Len(lattice) \in Nat /\ loop \in Nat /\ point = lattice[loop]
  BY <1>2, LatticeFacts, SublatticeFacts DEF Typed
<1>4. \A it : /\ Unexhausted(it)' = Unexhausted(it)
              /\ Loaded(it)' = Loaded(it)
  BY <1>2 DEF Unexhausted, Loaded
<1>5. Typed'
  <2>1. loop' \in 1 .. Len(lattice) + 1
    BY <1>2, <1>3
  <2>2. QED
    BY <1>2, <2>1 DEF Typed
<1>6. AppendsAscending'
  BY <1>2 DEF AppendsAscending
<1>7. \E it \in Rangers(lattice[loop]) : ~Unexhausted(it)
  BY <1>2, <1>3 DEF Running
<1>8. Visited(x)'
  <2>1. /\ \A i \in 1 .. Len(result') : result'[i][1] \in Nat /\ result'[i][1] < x
        /\ \A it \in lattice'[1] : IsFull(it) =>
              IF it = Dim THEN dim' = x ELSE pos'[it.t] = x + 1
    BY <1>1, <1>2 DEF Visited
  <2>2. ASSUME NEW p \in loop' .. Len(lattice'),
               \A it \in Rangers(lattice'[p]) : Unexhausted(it)',
               NEW it \in lattice'[p], Unexhausted(it)'
        PROVE  x <= Loaded(it)'
    <3>1. p \in loop .. Len(lattice)
      BY <1>2, <1>3
    <3>2. /\ \A z \in Rangers(lattice[p]) : Unexhausted(z)
          /\ it \in lattice[p] /\ Unexhausted(it)
      BY <1>2, <1>4, <2>2
    <3>3. x <= Loaded(it)
      BY <1>1, <3>1, <3>2 DEF Visited
    <3>4. QED
      BY <1>4, <3>3
  <2>3. ASSUME NEW p \in 1 .. (loop' - 1)
        PROVE  \E it \in Rangers(lattice'[p]) : ~Unexhausted(it)'
    <3>1. p = loop \/ p \in 1 .. (loop - 1)
      BY <1>2, <1>3
    <3>2. \E it \in Rangers(lattice[p]) : ~Unexhausted(it)
      BY <1>1, <1>7, <3>1 DEF Visited
    <3>3. QED
      BY <1>2, <1>4, <3>2
  <2>4. QED
    BY <2>1, <2>2, <2>3 DEF Visited
<1>9. QED
  BY <1>5, <1>6, <1>8

\* The next loop keeps the invariant.
LEMMA NextLoopInvariant ==
    ASSUME Invariant, NextLoop
    PROVE  Invariant'
<1>1. PICK x \in 0 .. Dimension : Visited(x)
  BY DEF Invariant
<1>2. Typed' /\ AppendsAscending' /\ Visited(x)'
  BY <1>1, NextLoopVisited DEF Invariant
<1>3. QED
  BY <1>2 DEF Invariant

\* A loop before which all loops are over and that has an iterator which the
\* running loop does not advance is over as well: the point of both of them is
\* before the running loop, and the iterator that ended it ends this one.
LEMMA OtherPointsOver ==
    ASSUME Typed, NEW x \in 0 .. Dimension, Visited(x), Running,
           NEW p \in loop .. Len(lattice),
           \A it \in Rangers(lattice[p]) : Unexhausted(it)
    PROVE  lattice[p] \subseteq point
<1>1. /\ point = lattice[loop] /\ loop \in 1 .. Len(lattice)
      /\ p \in 1 .. Len(lattice) /\ Len(lattice) \in Nat
  BY RunningInside, LatticeFacts
<1>2. PICK r \in 1 .. Len(lattice) :
         r <= loop /\ lattice[r] = lattice[loop] \cup lattice[p]
  BY <1>1, LatticeFacts DEF WellFormed, Joined
<1>3. CASE r = loop
  BY <1>1, <1>2, <1>3
<1>4. CASE r # loop
  <2>1. r \in 1 .. (loop - 1)
    BY <1>1, <1>2, <1>4
  <2>2. PICK it \in Rangers(lattice[r]) : ~Unexhausted(it)
    BY <2>1 DEF Visited
  <2>3. it \in lattice[loop] \/ it \in lattice[p]
    BY <1>2, RangersFacts
  <2>4. IsFull(it) => /\ \A z \in lattice[loop] : IsFull(z)
                      /\ \A z \in lattice[p] : IsFull(z)
    <3>1. IsFull(it) => \A z \in lattice[r] : IsFull(z)
      BY RangersFacts
    <3>2. QED
      BY <1>2, <3>1
  <2>5. it \in Rangers(lattice[loop]) \/ it \in Rangers(lattice[p])
    BY <2>3, <2>4, RangersFacts
  <2>6. \A z \in Rangers(lattice[loop]) : Unexhausted(z)
    BY <1>1 DEF Running
  <2>7. QED
    BY <2>2, <2>5, <2>6
<1>5. QED
  BY <1>3, <1>4

\* What an iteration does to the positions.
LEMMA MovedFacts ==
    ASSUME Typed, NEW x \in 0 .. Dimension, Visited(x), Iterate
    PROVE  /\ \A it \in point : it # Dim => pos'[it.t] = Advanced(it)
           /\ \A t \in Operands : t \notin {it.t : it \in point} => pos'[t] = pos[t]
           /\ pos' \in [Operands -> Nat]
           /\ \A t \in Operands : pos'[t] \in pos[t] .. Len(levels[t]) + 1
           /\ dim' = IF Dim \in point THEN dim + 1 ELSE dim
<1>1. /\ Running
      /\ pos' = [t \in Operands |->
                   IF \E it \in point : it.t = t
                   THEN Advanced(CHOOSE it \in point : it.t = t)
                   ELSE pos[t]]
      /\ dim' = IF Dim \in point THEN dim + 1 ELSE dim
  BY DEF Iterate
<1>2. point \subseteq IteratorsOf(expr) /\ IsExpression(expr)
  BY <1>1, RunningInside, LatticeFacts
<1>3. /\ \A it \in point : it # Dim => it.t \in Operands
      /\ \A a, b \in point : a.t = b.t => a = b
      /\ Dim.t \notin Operands
  BY <1>2, IteratorFacts
<1>4. ASSUME NEW it \in point, it # Dim PROVE pos'[it.t] = Advanced(it)
  <2>1. it.t \in Operands
    BY <1>3, <1>4
  <2>2. (CHOOSE z \in point : z.t = it.t) = it
    BY <1>3
  <2>3. pos'[it.t] = Advanced(CHOOSE z \in point : z.t = it.t)
    BY <1>1, <2>1
  <2>4. QED
    BY <2>2, <2>3
<1>5. \A t \in Operands : t \notin {it.t : it \in point} => pos'[t] = pos[t]
  BY <1>1
<1>6. ASSUME NEW t \in Operands PROVE pos'[t] \in pos[t] .. Len(levels[t]) + 1
  <2>1. CASE t \in {it.t : it \in point}
    <3>1. PICK it \in point : it.t = t
      BY <2>1
    <3>2. it # Dim
      BY <1>3, <3>1
    <3>3. Advanced(it) \in pos[it.t] .. Len(levels[it.t]) + 1
      BY <1>1, <3>2, AdvancedFacts
    <3>4. QED
      BY <1>4, <3>1, <3>2, <3>3
  <2>2. CASE t \notin {it.t : it \in point}
    <3>1. pos'[t] = pos[t] /\ pos[t] \in 1 .. Len(levels[t]) + 1
      BY <1>5, <2>2 DEF Typed
    <3>2. QED
      BY <3>1
  <2>3. QED
    BY <2>1, <2>2
<1>7. pos' \in [Operands -> Nat]
  <2>1. \A t \in Operands : pos[t] \in Nat
    BY DEF Typed
  <2>2. \A t \in Operands : pos'[t] \in Nat
    BY <1>6, <2>1
  <2>3. DOMAIN pos' = Operands /\ pos' = [t \in Operands |-> pos'[t]]
    BY <1>1
  <2>4. QED
    BY <2>2, <2>3
<1>8. QED
  BY <1>1, <1>4, <1>5, <1>6, <1>7

\* What is exhausted stays exhausted.
LEMMA StaysExhausted ==
    ASSUME Typed, NEW x \in 0 .. Dimension, Visited(x), Iterate,
           NEW it \in IteratorsOf(expr), Unexhausted(it)'
    PROVE  Unexhausted(it)
<1>1. levels' = levels
  BY DEF Iterate
<1>2. CASE it = Dim
  <2>1. dim' < Dimension /\ dim \in Nat /\ (dim' = dim + 1 \/ dim' = dim)
    BY <1>2, MovedFacts DEF Unexhausted, IsDimension, Typed
  <2>2. dim < Dimension
    BY <2>1, LoopAssumption
  <2>3. QED
    BY <1>2, <2>2 DEF Unexhausted, IsDimension
<1>3. CASE it # Dim
  <2>1. /\ it.t \in Operands /\ pos[it.t] \in 1 .. Len(levels[it.t]) + 1
        /\ Len(levels[it.t]) \in Nat
    BY <1>3, LoadedFacts
  <2>2. pos'[it.t] \in pos[it.t] .. Len(levels[it.t]) + 1
    BY <2>1, MovedFacts
  <2>3. pos'[it.t] <= Len(levels[it.t])
    BY <1>1, <1>3 DEF Unexhausted, IsDimension
  <2>4. pos[it.t] <= Len(levels[it.t])
    BY <2>1, <2>2, <2>3
  <2>5. QED
    BY <1>3, <2>4 DEF Unexhausted, IsDimension
<1>4. QED
  BY <1>2, <1>3

\* What an iteration appends.
LEMMA AppendedFacts ==
    ASSUME Typed, NEW x \in 0 .. Dimension, Visited(x), AppendsAscending, Iterate
    PROVE  /\ \E R : result' \in Seq(R)
           /\ \A i \in 1 .. Len(result') :
                 result'[i][1] \in Nat /\ result'[i][1] < coordinate + 1
           /\ AppendsAscending'
<1> DEFINE c == coordinate
           v == Evaluate(Case(CHOOSE n \in Taken : TRUE))
           k == Cardinality(Taken)
           u == [i \in 1 .. k |-> <<c, v>>]
           l == Len(result)
<1>1. Running /\ result' = result \o u
  BY DEF Iterate
<1>2. c \in Nat /\ x <= c /\ x \in Nat
  <2>1. coordinate \in Coordinates /\ x <= coordinate
    BY <1>1, CoordinateFacts
  <2>2. QED
    BY <2>1, LoopAssumption DEF Coordinates
<1>3. k \in {0, 1}
  BY <1>1, TakenFacts DEF Running
<1> HIDE DEF c, v, k
<1>4. PICK R : result \in Seq(R)
  BY DEF Typed
<1>5. u \in Seq({<<c, v>>}) /\ Len(u) = k /\ \A i \in 1 .. k : u[i] = <<c, v>>
  BY <1>3
<1> HIDE DEF u, l
<1> DEFINE Q == R \cup {<<c, v>>}
           q == result \o u
<1>6. /\ q \in Seq(Q) /\ Len(q) = l + k /\ l \in Nat
      /\ \A i \in 1 .. l + k : q[i] = IF i <= l THEN result[i] ELSE u[i - l]
  <2>1. result \in Seq(Q) /\ u \in Seq(Q)
    BY <1>4, <1>5, SeqDef DEF Q
  <2> HIDE DEF Q
  <2>2. QED
    BY <1>5, <2>1, ConcatProperties, LenProperties DEF l
<1> HIDE DEF q
<1>7. ASSUME NEW i \in 1 .. l + k
      PROVE  \/ i \in 1 .. l /\ q[i] = result[i]
             \/ i = l + 1 /\ q[i] = <<c, v>>
  <2>1. CASE i <= l
    BY <1>6, <2>1
  <2>2. CASE ~(i <= l)
    <3>1. k = 1 /\ i = l + 1 /\ i - l = 1
      BY <1>3, <1>6, <2>2
    <3>2. QED
      BY <1>5, <1>6, <2>2, <3>1
  <2>3. QED
    BY <2>1, <2>2
<1>8. \A i \in 1 .. l : result[i][1] \in Nat /\ result[i][1] < x
  BY DEF Visited, l
<1>9. \A i \in 1 .. l + k : q[i][1] \in Nat /\ q[i][1] < c + 1
  <2> TAKE i \in 1 .. l + k
  <2>1. CASE i \in 1 .. l /\ q[i] = result[i]
    BY <1>2, <1>8, <2>1
  <2>2. CASE i = l + 1 /\ q[i] = <<c, v>>
    BY <1>2, <2>2
  <2>3. QED
    BY <1>7, <2>1, <2>2
<1>10. ASSUME NEW i \in 1 .. (l + k) - 1 PROVE q[i][1] < q[i + 1][1]
  <2>1. /\ i \in 1 .. l + k /\ i + 1 \in 1 .. l + k /\ i # l + 1
        /\ i + 1 \in 1 .. l => i \in 1 .. l - 1
    BY <1>3, <1>6
  <2>2. q[i] = result[i] /\ i \in 1 .. l
    BY <1>7, <2>1
  <2>3. CASE i + 1 \in 1 .. l /\ q[i + 1] = result[i + 1]
    BY <2>1, <2>2, <2>3 DEF AppendsAscending, l
  <2>4. CASE i + 1 = l + 1 /\ q[i + 1] = <<c, v>>
    BY <1>2, <1>8, <2>2, <2>4
  <2>5. QED
    BY <1>7, <2>1, <2>3, <2>4
<1>11. result' = q /\ Len(result') = l + k
  BY <1>1, <1>6 DEF q
<1>12. QED
  BY <1>6, <1>9, <1>10, <1>11 DEF AppendsAscending, c

\* After an iteration the coordinates up to its own are visited.
LEMMA IterateVisited ==
    ASSUME Typed, AppendsAscending, NEW x \in 0 .. Dimension, Visited(x), Iterate,
           NEW y, y = coordinate + 1
    PROVE  y \in 0 .. Dimension /\ Typed' /\ AppendsAscending' /\ Visited(y)'
<1>1. Visited(x)
  OBVIOUS
<1>2. /\ Typed /\ AppendsAscending /\ Running
      /\ expr' = expr /\ lattice' = lattice /\ levels' = levels /\ loop' = loop
  BY DEF Iterate
<1>3. /\ point = lattice[loop] /\ point \subseteq IteratorsOf(expr)
      /\ loop \in 1 .. Len(lattice) /\ Len(lattice) \in Nat
  BY <1>1, <1>2, RunningInside, LatticeFacts
<1>4. /\ coordinate \in Coordinates /\ x <= coordinate
      /\ \A it \in point : IsFull(it) => Loaded(it) = coordinate /\ coordinate = x
  BY <1>1, <1>2, CoordinateFacts
<1>5. y \in 0 .. Dimension /\ y = coordinate + 1
  BY <1>4, LoopAssumption DEF Coordinates
<1>6. Typed'
  <2>1. \A t \in Operands : pos'[t] \in 1 .. Len(levels[t]) + 1
    <3> TAKE t \in Operands
    <3>1. /\ pos'[t] \in pos[t] .. Len(levels[t]) + 1
          /\ pos[t] \in 1 .. Len(levels[t]) + 1
      BY <1>1, <1>2, MovedFacts DEF Typed
    <3>2. QED
      BY <3>1
  <2>2. pos' \in [Operands -> Nat] /\ dim' \in Nat
    BY <1>1, <1>2, MovedFacts DEF Typed
  <2>3. \E R : result' \in Seq(R)
    BY <1>1, <1>2, AppendedFacts
  <2>4. QED
    BY <1>2, <2>1, <2>2, <2>3 DEF Typed
<1>7. AppendsAscending'
  BY <1>1, <1>2, AppendedFacts
<1>8. Visited(y)'
  <2>1. \A i \in 1 .. Len(result') : result'[i][1] \in Nat /\ result'[i][1] < y
    BY <1>1, <1>2, <1>5, AppendedFacts
  <2>2. ASSUME NEW it \in lattice'[1], IsFull(it)
        PROVE  IF it = Dim THEN dim' = y ELSE pos'[it.t] = y + 1
    <3>1. it \in point
      BY <1>2, <1>3, <2>2, LatticeFacts
    <3>2. /\ IF it = Dim THEN dim = x ELSE pos[it.t] = x + 1
          /\ y = x + 1
      BY <1>1, <1>2, <1>4, <1>5, <2>2, <3>1 DEF Visited
    <3>3. CASE it = Dim
      BY <1>1, <1>2, <3>1, <3>2, <3>3, MovedFacts
    <3>4. CASE it # Dim
      <4>1. pos'[it.t] = Advanced(it)
        BY <1>1, <1>2, <3>1, <3>4, MovedFacts
      <4>2. Advanced(it) = pos[it.t] + 1
        BY <1>1, <1>2, <2>2, <3>1, <3>4, AdvancedFacts
      <4>3. QED
        BY <3>2, <3>4, <4>1, <4>2
    <3>5. QED
      BY <3>3, <3>4
  <2>3. ASSUME NEW p \in loop' .. Len(lattice'),
               \A it \in Rangers(lattice'[p]) : Unexhausted(it)',
               NEW it \in lattice'[p], Unexhausted(it)'
        PROVE  y <= Loaded(it)'
    <3>1. p \in loop .. Len(lattice) /\ p \in 1 .. Len(lattice)
      BY <1>2, <1>3
    <3>2. \A z \in Rangers(lattice[p]) : z \in IteratorsOf(expr)
      BY <1>2, <3>1, LatticeFacts, RangersFacts
    <3>3. \A z \in Rangers(lattice[p]) : Unexhausted(z)
      BY <1>1, <1>2, <2>3, <3>2, StaysExhausted
    <3>4. it \in point
      BY <1>1, <1>2, <2>3, <3>1, <3>3, OtherPointsOver
    <3>5. CASE it = Dim
      <4>1. dim' = y
        BY <1>2, <1>3, <2>2, <3>4, <3>5, LatticeFacts DEF IsFull, Dim, Iterator
      <4>2. QED
        BY <1>5, <3>5, <4>1, LoopAssumption DEF Loaded, IsDimension
    <3>6. CASE it # Dim
      <4>1. pos'[it.t] = Advanced(it)
        BY <1>1, <1>2, <3>4, <3>6, MovedFacts
      <4>2. Advanced(it) <= Len(levels[it.t])
        BY <1>2, <2>3, <3>6, <4>1 DEF Unexhausted, IsDimension
      <4>3. coordinate < levels[it.t][Advanced(it)]
        BY <1>1, <1>2, <3>4, <3>6, <4>2, AdvancedFacts
      <4>4. levels[it.t][Advanced(it)] \in Nat
        <5>1. /\ Advanced(it) \in pos[it.t] .. Len(levels[it.t]) + 1
              /\ pos[it.t] \in 1 .. Len(levels[it.t]) + 1
              /\ \A i \in 1 .. Len(levels[it.t]) : levels[it.t][i] \in Coordinates
          BY <1>1, <1>2, <1>3, <3>4, <3>6, AdvancedFacts, LoadedFacts
        <5>2. Advanced(it) \in 1 .. Len(levels[it.t])
          BY <4>2, <5>1
        <5>3. QED
          BY <5>1, <5>2, LoopAssumption DEF Coordinates
      <4>5. y <= levels[it.t][Advanced(it)]
        BY <1>4, <1>5, <4>3, <4>4, LoopAssumption DEF Coordinates
      <4>6. QED
        BY <1>2, <3>6, <4>1, <4>5 DEF Loaded, IsDimension
    <3>7. QED
      BY <3>5, <3>6
  <2>4. ASSUME NEW p \in 1 .. (loop' - 1)
        PROVE  \E it \in Rangers(lattice'[p]) : ~Unexhausted(it)'
    <3>1. p \in 1 .. (loop - 1) /\ p \in 1 .. Len(lattice)
      BY <1>2, <1>3
    <3>2. PICK it \in Rangers(lattice[p]) : ~Unexhausted(it)
      BY <1>1, <3>1 DEF Visited
    <3>3. it \in IteratorsOf(expr)
      BY <1>2, <3>1, LatticeFacts, RangersFacts
    <3>4. ~Unexhausted(it)'
      BY <1>1, <1>2, <3>2, <3>3, StaysExhausted
    <3>5. QED
      BY <1>2, <3>2, <3>4
  <2>5. QED
    BY <2>1, <2>2, <2>3, <2>4 DEF Visited
<1>9. QED
  BY <1>5, <1>6, <1>7, <1>8

\* An iteration keeps the invariant.
LEMMA IterateInvariant ==
    ASSUME Invariant, Iterate
    PROVE  Invariant'
<1>1. PICK x \in 0 .. Dimension : Visited(x)
  BY DEF Invariant
<1>2. PICK y : y = coordinate + 1
  OBVIOUS
<1>3. y \in 0 .. Dimension /\ Typed' /\ AppendsAscending' /\ Visited(y)'
  BY <1>1, <1>2, IterateVisited DEF Invariant
<1>4. QED
  BY <1>3 DEF Invariant

\* So does a step that changes nothing.
LEMMA StutterVisited ==
    ASSUME Typed, AppendsAscending, NEW x \in 0 .. Dimension, Visited(x),
           expr' = expr, lattice' = lattice, levels' = levels, loop' = loop,
           pos' = pos, dim' = dim, result' = result
    PROVE  Typed' /\ AppendsAscending' /\ Visited(x)'
<1>1. \A it : Unexhausted(it)' = Unexhausted(it) /\ Loaded(it)' = Loaded(it)
  BY DEF Unexhausted, Loaded
<1>2. Typed' /\ AppendsAscending'
  BY DEF Typed, AppendsAscending
<1>3. Visited(x)'
  BY <1>1 DEF Visited
<1>4. QED
  BY <1>2, <1>3

\* The invariant is inductive.
LEMMA NextInvariant == Invariant /\ [Next]_vars => Invariant'
<1> SUFFICES ASSUME Invariant, [Next]_vars PROVE Invariant'
  OBVIOUS
<1>1. CASE Iterate
  BY <1>1, IterateInvariant
<1>2. CASE NextLoop
  BY <1>2, NextLoopInvariant
<1>3. CASE UNCHANGED vars
  <2>1. /\ expr' = expr /\ lattice' = lattice /\ levels' = levels /\ loop' = loop
        /\ pos' = pos /\ dim' = dim /\ result' = result
    BY <1>3 DEF vars
  <2>2. PICK x \in 0 .. Dimension : Visited(x)
    BY DEF Invariant
  <2>3. Typed' /\ AppendsAscending' /\ Visited(x)'
    BY <2>1, <2>2, StutterVisited DEF Invariant
  <2>4. QED
    BY <2>3 DEF Invariant
<1>4. QED
  BY <1>1, <1>2, <1>3 DEF Next, Finished

(***************************************************************************)
(* The sets of points that the operations on lattices make.                *)
(***************************************************************************)
Points(lat) == {lat[i] : i \in 1 .. Len(lat)}

\* The points that a lattice keeps.
LEMMA KeepPoints ==
    ASSUME NEW T, NEW lat \in Seq(T), NEW K
    PROVE  Points(Keep(lat, K)) = {lat[i] : i \in K \cap (1 .. Len(lat))}
<1> DEFINE r == Keep(lat, K)
<1>1. PICK at : KeptAt(lat, K, Len(lat), r, at)
  BY KeepProperty
<1> HIDE DEF r
<1>2. /\ \A n \in 1 .. Len(r) : at[n] \in K \cap (1 .. Len(lat)) /\ r[n] = lat[at[n]]
      /\ \A k \in K \cap (1 .. Len(lat)) : \E n \in 1 .. Len(r) : at[n] = k
  BY <1>1 DEF KeptAt
<1>3. Points(r) = {lat[i] : i \in K \cap (1 .. Len(lat))}
  BY <1>2 DEF Points
<1>4. QED
  BY <1>3 DEF r

\* The pairs of points of two lattices.
LEMMA CombinationsPoints ==
    ASSUME NEW T, NEW left \in Seq(T), NEW right \in Seq(T)
    PROVE  Points(Combinations(left, right)) = Points(left) \X Points(right)
<1> DEFINE r == Combinations(left, right)
<1>1. PICK at : CombinedAt(left, right, Len(left), r, at)
  BY CombinationsProperty
<1> HIDE DEF r
<1>2. \A i \in 1 .. Len(left) : \A j \in 1 .. Len(right) :
         r[at[<<i, j>>]] = <<left[i], right[j]>>
  BY <1>1 DEF CombinedAt
<1>3. \A m \in 1 .. Len(r) :
         \E i \in 1 .. Len(left) : \E j \in 1 .. Len(right) : m = at[<<i, j>>]
  BY <1>1 DEF CombinedAt
<1>4. \A i \in 1 .. Len(left) : \A j \in 1 .. Len(right) :
         at[<<i, j>>] \in 1 .. Len(r)
  BY <1>1 DEF CombinedAt
<1>5. ASSUME NEW m \in 1 .. Len(r) PROVE r[m] \in Points(left) \X Points(right)
  <2>1. \E i \in 1 .. Len(left) : \E j \in 1 .. Len(right) : m = at[<<i, j>>]
    BY <1>3
  <2>2. PICK i \in 1 .. Len(left), j \in 1 .. Len(right) : m = at[<<i, j>>]
    BY <2>1
  <2>3. r[m] = <<left[i], right[j]>>
    BY <1>2, <2>2
  <2>4. left[i] \in Points(left) /\ right[j] \in Points(right)
    BY DEF Points
  <2>5. QED
    BY <2>3, <2>4
<1>6. Points(r) \subseteq Points(left) \X Points(right)
  <2> SUFFICES ASSUME NEW x \in Points(r) PROVE x \in Points(left) \X Points(right)
    OBVIOUS
  <2>1. PICK m \in 1 .. Len(r) : x = r[m]
    BY DEF Points
  <2>2. QED
    BY <1>5, <2>1
<1>7. Points(left) \X Points(right) \subseteq Points(r)
  <2> SUFFICES ASSUME NEW p \in Points(left), NEW q \in Points(right)
               PROVE  <<p, q>> \in Points(r)
    OBVIOUS
  <2>1. PICK i \in 1 .. Len(left) : p = left[i]
    BY DEF Points
  <2>2. PICK j \in 1 .. Len(right) : q = right[j]
    BY DEF Points
  <2>3. at[<<i, j>>] \in 1 .. Len(r) /\ r[at[<<i, j>>]] = <<p, q>>
    BY <1>2, <1>4, <2>1, <2>2
  <2>4. QED
    BY <2>3 DEF Points
<1>8. QED
  BY <1>6, <1>7 DEF r

\* The points of two lattices, one behind the other.
LEMMA ConcatenatedPoints ==
    ASSUME NEW T, NEW u \in Seq(T), NEW v \in Seq(T)
    PROVE  u \o v \in Seq(T) /\ Points(u \o v) = Points(u) \cup Points(v)
<1> DEFINE q == u \o v
           m == Len(u)
           n == Len(v)
<1>1. /\ m \in Nat /\ n \in Nat /\ Len(q) = m + n /\ q \in Seq(T)
      /\ \A i \in 1 .. m + n : q[i] = IF i <= m THEN u[i] ELSE v[i - m]
  BY LenProperties, ConcatProperties
<1> HIDE DEF q, m, n
<1>2. \A i \in 1 .. m : i \in 1 .. Len(q) /\ q[i] = u[i]
  BY <1>1
<1>3. \A j \in 1 .. n : m + j \in 1 .. Len(q) /\ q[m + j] = v[j]
  <2> TAKE j \in 1 .. n
  <2>1. m + j \in 1 .. m + n /\ ~(m + j <= m) /\ (m + j) - m = j
    BY <1>1
  <2>2. QED
    BY <1>1, <2>1
<1>4. \A i \in 1 .. Len(q) : \/ i \in 1 .. m /\ q[i] = u[i]
                             \/ i - m \in 1 .. n /\ q[i] = v[i - m]
  BY <1>1
<1>5. Points(q) = Points(u) \cup Points(v)
  BY <1>2, <1>3, <1>4 DEF Points, m, n
<1>6. QED
  BY <1>1, <1>5 DEF q

\* Removing points with equal iterators loses no set of iterators.
LEMMA RemoveIdenticalPoints ==
    ASSUME NEW T, NEW lat \in Seq(T)
    PROVE  Points(RemovePointsWithIdenticalIterators(lat)) = Points(lat)
<1> DEFINE K == {i \in DOMAIN lat : \A j \in 1 .. (i - 1) : lat[i] # lat[j]}
<1>1. DOMAIN lat = 1 .. Len(lat) /\ Len(lat) \in Nat
  BY LenProperties
<1>2. \A k \in 1 .. Len(lat) : \E m \in K \cap (1 .. Len(lat)) : lat[m] = lat[k]
  BY <1>1, FirstOfEqual
<1> HIDE DEF K
<1>3. Points(Keep(lat, K)) = {lat[i] : i \in K \cap (1 .. Len(lat))}
  BY KeepPoints
<1>4. Points(Keep(lat, K)) = Points(lat)
  BY <1>2, <1>3 DEF Points
<1>5. QED
  BY <1>4 DEF RemovePointsWithIdenticalIterators, K

\* Points that lack a full iterator of the first point go.
LEMMA RemoveLackingPoints ==
    ASSUME NEW T, NEW lat \in Seq(T)
    PROVE  Points(RemovePointsThatLackFullIterators(lat))
              = {p \in Points(lat) : FullOf(lat[1]) \subseteq p}
<1> DEFINE K == {i \in DOMAIN lat : FullOf(lat[1]) \subseteq lat[i]}
<1>1. DOMAIN lat = 1 .. Len(lat)
  BY LenProperties
<1>2. Points(Keep(lat, K)) = {lat[i] : i \in K \cap (1 .. Len(lat))}
  <2> HIDE DEF K
  <2>1. QED
    BY KeepPoints
<1>3. Points(Keep(lat, K)) = {p \in Points(lat) : FullOf(lat[1]) \subseteq p}
  BY <1>1, <1>2 DEF Points
<1>4. RemovePointsThatLackFullIterators(lat) = Keep(lat, K)
  BY DEF RemovePointsThatLackFullIterators, FullOf
<1>5. QED
  BY <1>3, <1>4

\* The first point of a lattice has the iterators of all points.
LEMMA PointFacts ==
    ASSUME NEW I, NEW lat, WellFormed(lat, I)
    PROVE  /\ lat \in Seq(SUBSET I) /\ Len(lat) \in Nat \ {0}
           /\ lat[1] \in Points(lat) /\ lat[1] \subseteq I
           /\ \A p \in Points(lat) :
                 p \subseteq lat[1] /\ FullOf(lat[1]) \subseteq p /\ p # {}
<1>1. lat \in Seq(SUBSET I) /\ Len(lat) \in Nat \ {0}
  BY LenProperties DEF WellFormed
<1>2. 1 \in 1 .. Len(lat)
  BY <1>1
<1>3. lat[1] \in Points(lat) /\ lat[1] \in SUBSET I
  BY <1>1, <1>2, ElementOfSeq DEF Points
<1>4. ASSUME NEW p \in Points(lat)
      PROVE  p \subseteq lat[1] /\ FullOf(lat[1]) \subseteq p /\ p # {}
  <2>1. PICK i \in 1 .. Len(lat) : p = lat[i]
    BY DEF Points
  <2>2. PICK k \in 1 .. Len(lat) : k <= 1 /\ lat[k] = lat[1] \cup lat[i]
    BY <1>2 DEF WellFormed, Joined
  <2>3. k = 1
    BY <1>1, <2>2
  <2>4. \A it \in lat[1] : IsFull(it) => it \in lat[i]
    BY DEF WellFormed, FullEverywhere
  <2>5. lat[i] # {}
    BY DEF WellFormed
  <2>6. QED
    BY <2>1, <2>2, <2>3, <2>4, <2>5 DEF FullOf
<1>5. QED
  BY <1>1, <1>3, <1>4

\* Combinations of a point of either lattice.
UnitedPoints(left, right) ==
    {UnionPoints(x[1], x[2]) : x \in Points(left) \X Points(right)}

IntersectedPoints(left, right) ==
    {IntersectPoints(x[1], x[2], LocateFromLeft(left, right)) :
        x \in Points(left) \X Points(right)}

\* The points of which a union keeps those with all full iterators.
Unions(left, right) == UnitedPoints(left, right) \cup Points(left) \cup Points(right)

\* The first list of points that unionLattices() makes.
LEMMA UnionsOfPointsFacts ==
    ASSUME NEW I, NEW left, NEW right, WellFormed(left, I), WellFormed(right, I)
    PROVE  /\ UnionsOfPoints(left, right) \in Seq(SUBSET I)
           /\ Len(UnionsOfPoints(left, right)) > 0
           /\ UnionsOfPoints(left, right)[1] = left[1] \cup right[1]
           /\ Points(UnionsOfPoints(left, right)) = UnitedPoints(left, right)
<1> DEFINE pairs == Combinations(left, right)
           pts == UnionsOfPoints(left, right)
           T == SUBSET I
<1>1. /\ left \in Seq(T) /\ right \in Seq(T)
      /\ Len(left) \in Nat \ {0} /\ Len(right) \in Nat \ {0}
  BY PointFacts
<1> HIDE DEF T
<1>2. pairs \in Seq(T \X T) /\ Points(pairs) = Points(left) \X Points(right)
  BY <1>1, CombinationsProperty, CombinationsPoints
<1>3. PICK at : CombinedAt(left, right, Len(left), pairs, at)
  BY <1>1, CombinationsProperty
<1>4. /\ DOMAIN pts = 1 .. Len(pairs) /\ Len(pairs) \in Nat
      /\ \A x \in 1 .. Len(pairs) : pts[x] = pairs[x][1] \cup pairs[x][2]
      /\ pts = [x \in 1 .. Len(pairs) |-> pts[x]]
  BY <1>2, LenProperties DEF UnionsOfPoints, UnionPoints
<1> HIDE DEF pts, pairs
<1>5. Len(pairs) > 0 /\ at[<<1, 1>>] = 1
  <2>1. Len(left) > 0 /\ Len(right) > 0
    BY <1>1
  <2>2. QED
    BY <1>1, <1>2, <1>3, <2>1, FirstCombination
<1>6. pairs[1] = <<left[1], right[1]>>
  <2>1. 1 \in 1 .. Len(left) /\ 1 \in 1 .. Len(right)
    BY <1>1
  <2>2. QED
    BY <1>3, <1>5, <2>1 DEF CombinedAt
<1>7. pts[1] = left[1] \cup right[1]
  <2>1. 1 \in 1 .. Len(pairs)
    BY <1>4, <1>5
  <2>2. QED
    BY <1>4, <1>6, <2>1
<1>8. ASSUME NEW x \in 1 .. Len(pairs)
      PROVE  pairs[x][1] \in SUBSET I /\ pairs[x][2] \in SUBSET I
  <2>1. pairs[x] \in T \X T
    BY <1>2, ElementOfSeq
  <2>2. QED
    BY <2>1 DEF T
<1>9. pts \in Seq(T) /\ Len(pts) = Len(pairs)
  <2>1. \A x \in 1 .. Len(pairs) : pts[x] \in T
    BY <1>4, <1>8 DEF T
  <2>2. QED
    BY <1>4, <2>1
<1>10. Points(pts) = {UnionPoints(x[1], x[2]) : x \in Points(pairs)}
  <2>1. \A x \in 1 .. Len(pairs) : pts[x] = UnionPoints(pairs[x][1], pairs[x][2])
    BY <1>4 DEF UnionPoints
  <2>2. QED
    BY <1>9, <2>1 DEF Points
<1>11. QED
  BY <1>2, <1>5, <1>7, <1>9, <1>10 DEF pts, T, UnitedPoints

\* The points of the union of two lattices.
LEMMA UnionPointsFacts ==
    ASSUME NEW I, NEW left, NEW right, WellFormed(left, I), WellFormed(right, I)
    PROVE  Points(UnionLattices(left, right))
              = {p \in Unions(left, right) : FullOf(left[1] \cup right[1]) \subseteq p}
<1> DEFINE pts == UnionsOfPoints(left, right)
           both == pts \o left
           all == both \o right
           kept == RemovePointsThatLackFullIterators(all)
           T == SUBSET I
<1>1. /\ pts \in Seq(T) /\ left \in Seq(T) /\ right \in Seq(T)
      /\ Len(pts) \in Nat /\ Len(pts) > 0 /\ pts[1] = left[1] \cup right[1]
      /\ Points(pts) = UnitedPoints(left, right)
  <2>1. left \in Seq(T) /\ right \in Seq(T)
    BY PointFacts
  <2>2. /\ pts \in Seq(T) /\ Len(pts) > 0 /\ pts[1] = left[1] \cup right[1]
        /\ Points(pts) = UnitedPoints(left, right)
    <3>1. /\ UnionsOfPoints(left, right) \in Seq(SUBSET I)
          /\ Len(UnionsOfPoints(left, right)) > 0
          /\ UnionsOfPoints(left, right)[1] = left[1] \cup right[1]
          /\ Points(UnionsOfPoints(left, right)) = UnitedPoints(left, right)
      <4> HIDE DEF pts, both, all, kept, T
      <4>1. QED
        BY UnionsOfPointsFacts
    <3>2. QED
      BY <3>1
  <2> HIDE DEF T, pts
  <2>3. QED
    BY <2>1, <2>2, LenProperties
<1> HIDE DEF pts, T
<1>2. both \in Seq(T) /\ Points(both) = Points(pts) \cup Points(left)
  BY <1>1, ConcatenatedPoints
<1>3. both[1] = pts[1] /\ Len(both) \in Nat /\ Len(both) > 0
  BY <1>1, ConcatProperties, LenProperties
<1> HIDE DEF both
<1>4. all \in Seq(T) /\ Points(all) = Points(both) \cup Points(right)
  BY <1>1, <1>2, ConcatenatedPoints
<1>5. all[1] = both[1]
  BY <1>1, <1>2, <1>3, ConcatProperties, LenProperties
<1> HIDE DEF all
<1>6. Points(all) = Unions(left, right) /\ all[1] = left[1] \cup right[1]
  BY <1>1, <1>2, <1>3, <1>4, <1>5 DEF Unions
<1>7. Points(kept) = {p \in Unions(left, right) : FullOf(left[1] \cup right[1]) \subseteq p}
  <2>1. Points(kept) = {p \in Points(all) : FullOf(all[1]) \subseteq p}
    BY <1>4, RemoveLackingPoints
  <2>2. QED
    BY <1>6, <2>1
<1>8. kept \in Seq(T)
  BY <1>4, KeepProperty DEF RemovePointsThatLackFullIterators
<1> HIDE DEF kept
<1>9. Points(RemovePointsWithIdenticalIterators(kept)) = Points(kept)
  BY <1>8, RemoveIdenticalPoints
<1>10. UnionLattices(left, right) = RemovePointsWithIdenticalIterators(kept)
  BY DEF UnionLattices, kept, all, both, pts
<1>11. QED
  BY <1>7, <1>9, <1>10

\* The points of the intersection of two lattices.
LEMMA IntersectPointsFacts ==
    ASSUME NEW I, NEW left, NEW right, WellFormed(left, I), WellFormed(right, I)
    PROVE  Points(IntersectLattices(left, right)) = IntersectedPoints(left, right)
<1> DEFINE pairs == Combinations(left, right)
           pts == IntersectLattices(left, right)
           locate == LocateFromLeft(left, right)
           T == SUBSET I
<1>1. left \in Seq(T) /\ right \in Seq(T)
  BY PointFacts
<1> HIDE DEF T
<1>2. pairs \in Seq(T \X T) /\ Points(pairs) = Points(left) \X Points(right)
  BY <1>1, CombinationsProperty, CombinationsPoints
<1>3. /\ DOMAIN pts = 1 .. Len(pairs) /\ Len(pairs) \in Nat
      /\ \A x \in 1 .. Len(pairs) :
            pts[x] = IntersectPoints(pairs[x][1], pairs[x][2], locate)
  BY <1>2, LenProperties DEF IntersectLattices
<1>4. Len(pts) = Len(pairs)
  BY <1>3
<1> HIDE DEF pts, pairs, locate
<1>5. Points(pts) = {IntersectPoints(x[1], x[2], locate) : x \in Points(pairs)}
  BY <1>3, <1>4 DEF Points
<1>6. QED
  BY <1>2, <1>5 DEF pts, locate, IntersectedPoints

(***************************************************************************)
(* Which points a set of iterators contains.                               *)
(***************************************************************************)
\* If a lattice has full iterators, it has a point with no others.
AlwaysThere(lat) ==
    FullOf(lat[1]) # {} => \E q \in Points(lat) : \A it \in q : IsFull(it)

\* The points in A of the united lattices have those of either of them.
UnionCovers(left, right, united, A) ==
    /\ \A l \in Points(left) \cup Points(right) : l \subseteq A =>
          \E p \in Points(united) : l \subseteq p /\ p \subseteq A
    /\ \A p \in Points(united) : p \subseteq A =>
          \E l \in Points(left) \cup Points(right) : l \subseteq A

\* Where the points inside A of two operands meet, so do those of their sum.
LEMMA UnionContains ==
    ASSUME NEW I, NEW left, NEW right, WellFormed(left, I), WellFormed(right, I),
           AlwaysThere(left), AlwaysThere(right),
           NEW A, FullOf(I) \subseteq A
    PROVE  UnionCovers(left, right, UnionLattices(left, right), A)
<1> DEFINE F == FullOf(left[1] \cup right[1])
           united == UnionLattices(left, right)
<1>0. \A it \in I : IsFull(it) => it \in A
  BY DEF FullOf
<1>1. /\ \A l \in Points(left) :
             FullOf(left[1]) \subseteq l /\ l \subseteq I
      /\ \A r \in Points(right) :
             FullOf(right[1]) \subseteq r /\ r \subseteq I
  <2>1. /\ \A l \in Points(left) : FullOf(left[1]) \subseteq l /\ l \subseteq left[1]
        /\ left[1] \subseteq I
    BY PointFacts
  <2>2. /\ \A r \in Points(right) : FullOf(right[1]) \subseteq r /\ r \subseteq right[1]
        /\ right[1] \subseteq I
    BY PointFacts
  <2>3. QED
    BY <2>1, <2>2
<1>2. F = FullOf(left[1]) \cup FullOf(right[1])
  BY DEF FullOf
<1>3. Points(united) = {p \in Unions(left, right) : F \subseteq p}
  BY UnionPointsFacts
<1>4. /\ \A l \in Points(left) : \A r \in Points(right) : l \cup r \in Unions(left, right)
      /\ \A l \in Points(left) : l \in Unions(left, right)
      /\ \A r \in Points(right) : r \in Unions(left, right)
  <2>1. ASSUME NEW l \in Points(left), NEW r \in Points(right)
        PROVE  l \cup r \in UnitedPoints(left, right)
    <3>1. <<l, r>> \in Points(left) \X Points(right) /\ UnionPoints(l, r) = l \cup r
      BY DEF UnionPoints
    <3>2. QED
      BY <3>1 DEF UnitedPoints
  <2>2. QED
    BY <2>1 DEF Unions
<1> HIDE DEF F, united
<1>5. ASSUME NEW l \in Points(left), l \subseteq A
      PROVE  \E p \in Points(united) : l \subseteq p /\ p \subseteq A
  <2>1. CASE FullOf(right[1]) = {}
    BY <1>1, <1>2, <1>3, <1>4, <1>5, <2>1
  <2>2. CASE FullOf(right[1]) # {}
    <3>1. PICK r \in Points(right) : \A it \in r : IsFull(it)
      BY <2>2 DEF AlwaysThere
    <3>2. r \subseteq A
      BY <1>0, <1>1, <3>1
    <3>3. l \cup r \in Points(united)
      BY <1>1, <1>2, <1>3, <1>4
    <3>4. QED
      BY <1>5, <3>2, <3>3
  <2>3. QED
    BY <2>1, <2>2
<1>6. ASSUME NEW r \in Points(right), r \subseteq A
      PROVE  \E p \in Points(united) : r \subseteq p /\ p \subseteq A
  <2>1. CASE FullOf(left[1]) = {}
    BY <1>1, <1>2, <1>3, <1>4, <1>6, <2>1
  <2>2. CASE FullOf(left[1]) # {}
    <3>1. PICK l \in Points(left) : \A it \in l : IsFull(it)
      BY <2>2 DEF AlwaysThere
    <3>2. l \subseteq A
      BY <1>0, <1>1, <3>1
    <3>3. l \cup r \in Points(united)
      BY <1>1, <1>2, <1>3, <1>4
    <3>4. QED
      BY <1>6, <3>2, <3>3
  <2>3. QED
    BY <2>1, <2>2
<1>7. ASSUME NEW p \in Points(united), p \subseteq A
      PROVE  \E l \in Points(left) \cup Points(right) : l \subseteq A
  <2>1. p \in Unions(left, right)
    BY <1>3
  <2>2. CASE p \in UnitedPoints(left, right)
    <3>1. PICK x \in Points(left) \X Points(right) : p = x[1] \cup x[2]
      BY <2>2 DEF UnitedPoints, UnionPoints
    <3>2. x[1] \in Points(left) /\ x[1] \subseteq A
      BY <1>7, <3>1
    <3>3. QED
      BY <3>2
  <2>3. CASE p \in Points(left) \cup Points(right)
    BY <1>7, <2>3
  <2>4. QED
    BY <2>1, <2>2, <2>3 DEF Unions
<1>8. QED
  BY <1>5, <1>6, <1>7 DEF UnionCovers, united

\* The same for their product, but for the dimension's iterator.
LEMMA IntersectContains ==
    ASSUME NEW I, NEW left, NEW right, WellFormed(left, I), WellFormed(right, I),
           NEW A, Dim \in A
    PROVE  /\ \A l \in Points(left) : \A r \in Points(right) :
                 l \subseteq A /\ r \subseteq A =>
                    \E p \in Points(IntersectLattices(left, right)) :
                       (l \cup r) \ {Dim} \subseteq p /\ p \subseteq A
           /\ \A p \in Points(IntersectLattices(left, right)) : p \subseteq A =>
                 /\ \E l \in Points(left) : l \subseteq A
                 /\ \E r \in Points(right) : r \subseteq A
<1> DEFINE pts == IntersectLattices(left, right)
           locate == LocateFromLeft(left, right)
<1>1. Points(pts) = {IntersectPoints(x[1], x[2], locate) :
                        x \in Points(left) \X Points(right)}
  BY IntersectPointsFacts DEF IntersectedPoints
<1> HIDE DEF pts, locate
<1>2. ASSUME NEW l \in Points(left), NEW r \in Points(right),
             l \subseteq A, r \subseteq A
      PROVE  \E p \in Points(pts) :
                (l \cup r) \ {Dim} \subseteq p /\ p \subseteq A
  <2> DEFINE p == IntersectPoints(l, r, locate)
  <2>1. p \in Points(pts)
    <3>1. <<l, r>> \in Points(left) \X Points(right)
      OBVIOUS
    <3>2. QED
      BY <1>1, <3>1
  <2>2. (l \cup r) \ {Dim} \subseteq p /\ p \subseteq A
    BY <1>2 DEF IntersectPoints
  <2>3. QED
    BY <2>1, <2>2
<1>3. ASSUME NEW p \in Points(pts), p \subseteq A
      PROVE  /\ \E l \in Points(left) : l \subseteq A
             /\ \E r \in Points(right) : r \subseteq A
  <2>1. PICK x \in Points(left) \X Points(right) : p = IntersectPoints(x[1], x[2], locate)
    BY <1>1
  <2>2. x[1] \in Points(left) /\ x[2] \in Points(right)
    BY <2>1
  <2>3. x[1] \subseteq A /\ x[2] \subseteq A
    BY <1>3, <2>1 DEF IntersectPoints
  <2>4. QED
    BY <2>2, <2>3
<1>4. QED
  BY <1>2, <1>3 DEF pts

(***************************************************************************)
(* Recursion over the nodes of an expression.                              *)
(***************************************************************************)
\* H[n][f] is what n has if the numbers before n have f.
Recursion(N, S, H) ==
    /\ H \in [1 .. N -> [[1 .. N -> S] -> S]]
    /\ \A n \in 1 .. N : \A f, g \in [1 .. N -> S] :
          (\A m \in 1 .. (n - 1) : f[m] = g[m]) => H[n][f] = H[n][g]

Recursive(N, S, H, f) ==
    f \in [1 .. N -> S] /\ \A n \in 1 .. N : f[n] = H[n][f]

\* A function that is defined from its values at smaller arguments exists.
LEMMA RecursionExists ==
    ASSUME NEW N \in Nat, NEW S, S # {}, NEW H, Recursion(N, S, H)
    PROVE  \E f : Recursive(N, S, H, f)
<1>0. /\ H \in [1 .. N -> [[1 .. N -> S] -> S]]
      /\ \A n \in 1 .. N : \A f, g \in [1 .. N -> S] :
            (\A m \in 1 .. (n - 1) : f[m] = g[m]) => H[n][f] = H[n][g]
  BY DEF Recursion
<1> DEFINE F == [1 .. N -> S]
           T == {k \in Nat : k <= N =>
                    \E f \in F : \A n \in 1 .. k : f[n] = H[n][f]}
<1>1. 0 \in T
  <2>1. PICK x \in S : TRUE
    OBVIOUS
  <2>2. [n \in 1 .. N |-> x] \in F
    BY <2>1
  <2> HIDE DEF F
  <2>3. QED
    BY <2>2
<1>2. ASSUME NEW k \in Nat, k \in T PROVE k + 1 \in T
  <2> SUFFICES ASSUME k + 1 <= N
               PROVE  \E f \in F : \A n \in 1 .. k + 1 : f[n] = H[n][f]
    OBVIOUS
  <2>1. PICK f \in F : \A n \in 1 .. k : f[n] = H[n][f]
    BY <1>2
  <2> DEFINE g == [n \in 1 .. N |-> IF n = k + 1 THEN H[k + 1][f] ELSE f[n]]
  <2>2. k + 1 \in 1 .. N /\ H[k + 1][f] \in S
    BY <1>0
  <2>3. g \in F
    BY <2>2
  <2>4. g[k + 1] = H[k + 1][f] /\ \A n \in 1 .. k : g[n] = f[n]
    BY <2>2
  <2> HIDE DEF g
  <2>5. ASSUME NEW n \in 1 .. k + 1 PROVE g[n] = H[n][g]
    <3>1. n \in 1 .. N /\ \A m \in 1 .. (n - 1) : f[m] = g[m]
      BY <2>4
    <3>2. H[n][f] = H[n][g]
      BY <1>0, <2>3, <3>1
    <3>3. n = k + 1 \/ n \in 1 .. k
      OBVIOUS
    <3>4. QED
      BY <2>1, <2>4, <3>2, <3>3
  <2>6. QED
    BY <2>3, <2>5
<1>3. N \in T
  <2> HIDE DEF T
  <2>1. QED
    BY <1>1, <1>2, SetInduction
<1>4. QED
  BY <1>3 DEF Recursive

(***************************************************************************)
(* What components add up to.                                              *)
(***************************************************************************)
MemberOf(s) == CHOOSE x \in s : TRUE

\* g has the sums of v over the subsets of K.
Sums(K, v, g) ==
    g = [s \in SUBSET K |-> IF s = {} THEN 0 ELSE v[MemberOf(s)] + g[s \ {MemberOf(s)}]]

\* The recursion that adds up the components of a set has a solution.
LEMMA SumsExist ==
    ASSUME NEW K, IsFiniteSet(K), NEW v \in [K -> Int]
    PROVE  \E g : Sums(K, v, g)
<1> DEFINE Small(k) == {s \in SUBSET K : Cardinality(s) <= k}
           Rule(g, s) == IF s = {} THEN 0 ELSE v[MemberOf(s)] + g[s \ {MemberOf(s)}]
           S == {k \in Nat : \E g \in [SUBSET K -> Int] :
                                \A s \in Small(k) : g[s] = Rule(g, s)}
<1>1. \A s \in SUBSET K : IsFiniteSet(s) /\ Cardinality(s) \in Nat
  BY FS_Subset, FS_CardinalityType
<1>2. ASSUME NEW s \in SUBSET K, s # {}
      PROVE  /\ MemberOf(s) \in s /\ s \ {MemberOf(s)} \in SUBSET K
             /\ Cardinality(s \ {MemberOf(s)}) = Cardinality(s) - 1
             /\ v[MemberOf(s)] \in Int
  <2>1. MemberOf(s) \in s
    BY <1>2 DEF MemberOf
  <2>2. Cardinality(s \ {MemberOf(s)}) = Cardinality(s) - 1
    BY <1>1, <2>1, FS_RemoveElement
  <2>3. QED
    BY <2>1, <2>2
<1>3. 0 \in S
  <2> DEFINE g == [s \in SUBSET K |-> 0]
  <2>1. g \in [SUBSET K -> Int]
    OBVIOUS
  <2>2. \A s \in Small(0) : s = {}
    BY <1>1, FS_EmptySet
  <2>3. \A s \in Small(0) : g[s] = Rule(g, s)
    BY <2>2
  <2> HIDE DEF g
  <2>4. QED
    BY <2>1, <2>3
<1>4. ASSUME NEW k \in Nat, k \in S PROVE k + 1 \in S
  <2>1. PICK f \in [SUBSET K -> Int] : \A s \in Small(k) : f[s] = Rule(f, s)
    BY <1>4
  <2> DEFINE g == [s \in SUBSET K |-> Rule(f, s)]
  <2>2. \A s \in SUBSET K : s # {} => f[s \ {MemberOf(s)}] \in Int
    BY <1>2
  <2>3. g \in [SUBSET K -> Int]
    <3>1. ASSUME NEW s \in SUBSET K PROVE Rule(f, s) \in Int
      <4>1. CASE s = {}
        BY <4>1
      <4>2. CASE s # {}
        <5>1. f[s \ {MemberOf(s)}] \in Int /\ v[MemberOf(s)] \in Int
          BY <1>2, <2>2, <4>2
        <5>2. QED
          BY <4>2, <5>1
      <4>3. QED
        BY <4>1, <4>2
    <3> HIDE DEF Rule
    <3>2. QED
      BY <3>1
  <2>4. \A s \in SUBSET K : g[s] = Rule(f, s)
    OBVIOUS
  <2> HIDE DEF g
  <2>5. \A s \in Small(k) : g[s] = f[s]
    BY <2>1, <2>4
  <2>6. ASSUME NEW s \in Small(k + 1) PROVE g[s] = Rule(g, s)
    <3>1. CASE s = {}
      BY <2>4, <3>1
    <3>2. CASE s # {}
      <4>1. s \ {MemberOf(s)} \in Small(k)
        BY <1>1, <1>2, <3>2
      <4>2. g[s \ {MemberOf(s)}] = f[s \ {MemberOf(s)}]
        BY <2>5, <4>1
      <4>3. s \in SUBSET K
        OBVIOUS
      <4>4. g[s] = Rule(f, s)
        BY <2>4, <4>3
      <4>5. Rule(f, s) = v[MemberOf(s)] + f[s \ {MemberOf(s)}]
        BY <3>2
      <4>6. Rule(g, s) = v[MemberOf(s)] + g[s \ {MemberOf(s)}]
        BY <3>2
      <4> HIDE DEF Rule
      <4>7. QED
        BY <4>2, <4>4, <4>5, <4>6
    <3>3. QED
      BY <3>1, <3>2
  <2>7. k + 1 \in Nat
    OBVIOUS
  <2> HIDE DEF Rule, Small
  <2>8. \A s \in Small(k + 1) : g[s] = Rule(g, s)
    BY <2>6
  <2>9. \E h \in [SUBSET K -> Int] : \A s \in Small(k + 1) : h[s] = Rule(h, s)
    BY <2>3, <2>8
  <2>10. QED
    BY <2>7, <2>9
<1>5. Cardinality(K) \in S
  <2>1. Cardinality(K) \in Nat
    BY FS_CardinalityType
  <2> HIDE DEF S
  <2>2. QED
    BY <1>3, <1>4, <2>1, SetInduction
<1>6. PICK g \in [SUBSET K -> Int] : \A s \in Small(Cardinality(K)) : g[s] = Rule(g, s)
  BY <1>5
<1>7. \A s \in SUBSET K : s \in Small(Cardinality(K))
  BY FS_Subset
<1>8. \A s \in SUBSET K : g[s] = Rule(g, s)
  BY <1>6, <1>7
<1>9. Sums(K, v, g)
  BY <1>6, <1>8 DEF Sums
<1>10. QED
  BY <1>9

\* A sum is a number, zero over nothing and the component over one.
LEMMA SumsFacts ==
    ASSUME NEW K, IsFiniteSet(K), NEW v \in [K -> Int], NEW g, Sums(K, v, g)
    PROVE  /\ g[K] \in Int /\ g[{}] = 0
           /\ \A i : K = {i} => g[K] = v[i]
<1> DEFINE S == {k \in Nat : \A s \in SUBSET K : Cardinality(s) <= k => g[s] \in Int}
<1>1. \A s \in SUBSET K : IsFiniteSet(s) /\ Cardinality(s) \in Nat
  BY FS_Subset, FS_CardinalityType
<1>2. \A s \in SUBSET K :
         g[s] = IF s = {} THEN 0 ELSE v[MemberOf(s)] + g[s \ {MemberOf(s)}]
  BY DEF Sums
<1>3. g[{}] = 0
  BY <1>2
<1>4. 0 \in S
  BY <1>1, <1>3, FS_EmptySet
<1>5. ASSUME NEW k \in Nat, k \in S PROVE k + 1 \in S
  <2> SUFFICES ASSUME NEW s \in SUBSET K, Cardinality(s) <= k + 1 PROVE g[s] \in Int
    OBVIOUS
  <2>1. CASE s = {}
    BY <1>3, <2>1
  <2>2. CASE s # {}
    <3>1. MemberOf(s) \in s
      BY <2>2 DEF MemberOf
    <3>2. Cardinality(s \ {MemberOf(s)}) = Cardinality(s) - 1
      BY <1>1, <3>1, FS_RemoveElement
    <3>3. s \ {MemberOf(s)} \in SUBSET K /\ Cardinality(s \ {MemberOf(s)}) <= k
      BY <1>1, <3>2
    <3>4. g[s \ {MemberOf(s)}] \in Int
      BY <1>5, <3>3
    <3>5. v[MemberOf(s)] \in Int
      BY <3>1
    <3>6. g[s] = v[MemberOf(s)] + g[s \ {MemberOf(s)}]
      BY <1>2, <2>2
    <3>7. QED
      BY <3>4, <3>5, <3>6
  <2>3. QED
    BY <2>1, <2>2
<1>6. Cardinality(K) \in S
  <2>1. Cardinality(K) \in Nat
    BY FS_CardinalityType
  <2> HIDE DEF S
  <2>2. QED
    BY <1>4, <1>5, <2>1, SetInduction
<1>7. g[K] \in Int
  <2>1. Cardinality(K) \in Nat /\ Cardinality(K) <= Cardinality(K)
    BY FS_CardinalityType
  <2>2. QED
    BY <1>6, <2>1
<1>8. ASSUME NEW i, K = {i} PROVE g[K] = v[i]
  <2>1. MemberOf(K) = i /\ K \ {i} = {} /\ K # {}
    BY <1>8 DEF MemberOf
  <2>2. g[K] = v[i] + g[{}]
    BY <1>2, <2>1
  <2>3. v[i] \in Int
    BY <1>8
  <2>4. QED
    BY <1>3, <2>2, <2>3
<1>9. QED
  BY <1>3, <1>7, <1>8

\* The same for the components of an operand.
LEMMA TotalFacts ==
    ASSUME NEW t, NEW K, IsFiniteSet(K), \A i \in K : Value(t, levels[t][i]) \in Int
    PROVE  /\ Total(t, K) \in Int
           /\ K = {} => Total(t, K) = 0
           /\ \A i : K = {i} => Total(t, K) = Value(t, levels[t][i])
<1> DEFINE v == [i \in K |-> Value(t, levels[t][i])]
           g == CHOOSE g : Sums(K, v, g)
<1>1. v \in [K -> Int]
  OBVIOUS
<1>2. Total(t, K) = g[K]
  <2> DEFINE h == CHOOSE h : h = [s \in SUBSET K |->
                     IF s = {} THEN 0
                     ELSE Value(t, levels[t][MemberOf(s)]) + h[s \ {MemberOf(s)}]]
  <2>1. Total(t, K) = h[K]
    BY DEF Total, MapThenSumSet, MapThenFoldSet, MemberOf
  <2>2. \A f : Sums(K, v, f) <=>
           f = [s \in SUBSET K |->
                     IF s = {} THEN 0
                     ELSE Value(t, levels[t][MemberOf(s)]) + f[s \ {MemberOf(s)}]]
    <3> TAKE f
    <3>1. \A s \in SUBSET K : s # {} => v[MemberOf(s)] = Value(t, levels[t][MemberOf(s)])
      <4>1. \A s \in SUBSET K : s # {} => MemberOf(s) \in K
        BY DEF MemberOf
      <4>2. QED
        BY <4>1
    <3> HIDE DEF v
    <3>2. QED
      BY <3>1 DEF Sums
  <2>3. QED
    BY <2>1, <2>2
<1> HIDE DEF v
<1>3. Sums(K, v, g)
  BY <1>1, SumsExist
<1> HIDE DEF g
<1>4. g[K] \in Int /\ g[{}] = 0 /\ \A i : K = {i} => g[K] = v[i]
  BY <1>1, <1>3, SumsFacts
<1>5. \A i : K = {i} => v[i] = Value(t, levels[t][i])
  BY DEF v
<1>6. QED
  BY <1>2, <1>4, <1>5

(***************************************************************************)
(* The values of the nodes of an expression.                               *)
(***************************************************************************)
AccessNodes == [op : {"access"}, t : Operands, kind : Kinds]

\* A node whose operands are before n.
IsNode(node, n) ==
    \/ node \in AccessNodes
    \/ node.op \in {"literal", "undefined"}
    \/ node.op = "neg" /\ node.a \in 1 .. (n - 1)
    \/ /\ node.op \in {"add", "sub", "mul"}
       /\ node.a \in 1 .. (n - 1) /\ node.b \in 1 .. (n - 1)

\* s has N nodes, also undefined ones.
HasNodes(s, N) ==
    /\ Len(s) = N /\ DOMAIN s = 1 .. N
    /\ \A n \in 1 .. N : IsNode(s[n], n)

\* The values of the nodes are val if those of the accesses are V.
Valued(s, N, V, val) ==
    /\ val \in [1 .. N -> Int]
    /\ \A n \in 1 .. N : val[n] = NodeValue(s[n], V[s[n]], val)

\* An expression has the nodes that its evaluation goes through.
LEMMA ExpressionHasNodes ==
    ASSUME NEW e, e \in Seq(Range(e)), IsExpression(e)
    PROVE  Len(e) \in Nat \ {0} /\ HasNodes(e, Len(e))
<1>1. Len(e) \in Nat /\ DOMAIN e = 1 .. Len(e)
  BY LenProperties
<1>2. Len(e) # 0
  BY EmptySeq DEF IsExpression
<1>3. ASSUME NEW n \in 1 .. Len(e) PROVE IsNode(e[n], n)
  <2>1. \/ e[n] \in [op : {"access"}, t : Operands, kind : Kinds]
        \/ e[n] = Literal
        \/ e[n] \in [op : {"neg"}, a : 1..(n - 1)]
        \/ e[n] \in [op : {"add", "sub", "mul"}, a : 1..(n - 1), b : 1..(n - 1)]
    BY <1>1 DEF IsExpression
  <2> HIDE DEF Kinds
  <2>2. QED
    BY <2>1 DEF IsNode, AccessNodes, Literal
<1>4. QED
  BY <1>1, <1>2, <1>3 DEF HasNodes

\* The value of a node depends on the values of its operands only.
LEMMA NodeValueAgrees ==
    ASSUME NEW n \in Nat, NEW node, IsNode(node, n), NEW x, NEW y, NEW f, NEW g,
           node \in AccessNodes => x = y /\ x \in Int,
           \A m \in 1 .. (n - 1) : f[m] = g[m] /\ f[m] \in Int
    PROVE  /\ NodeValue(node, x, f) = NodeValue(node, y, g)
           /\ NodeValue(node, x, f) \in Int
<1>1. CASE node \in AccessNodes
  <2>1. node.op = "access"
    BY <1>1 DEF AccessNodes
  <2>2. QED
    BY <1>1, <2>1 DEF NodeValue
<1>2. CASE node.op \in {"literal", "undefined"}
  BY <1>2 DEF NodeValue
<1>3. CASE node.op = "neg" /\ node.a \in 1 .. (n - 1)
  BY <1>3 DEF NodeValue
<1>4. CASE /\ node.op \in {"add", "sub", "mul"}
           /\ node.a \in 1 .. (n - 1) /\ node.b \in 1 .. (n - 1)
  <2>1. /\ f[node.a] = g[node.a] /\ f[node.a] \in Int
        /\ f[node.b] = g[node.b] /\ f[node.b] \in Int
    BY <1>4
  <2>2. CASE node.op = "add"
    BY <2>1, <2>2 DEF NodeValue
  <2>3. CASE node.op = "sub"
    BY <2>1, <2>3 DEF NodeValue
  <2>4. CASE node.op = "mul"
    BY <2>1, <2>4 DEF NodeValue
  <2>5. QED
    BY <1>4, <2>2, <2>3, <2>4
<1>5. QED
  BY <1>1, <1>2, <1>3, <1>4 DEF IsNode

\* The recursive function of the values.
Chosen(s, N, w) ==
    CHOOSE val : val = [n \in 1 .. N |-> NodeValue(s[n], w[n], val)]

\* The evaluation in the loop's body is the evaluation of the tree.
LEMMA ChosenValued ==
    ASSUME NEW N \in Nat, NEW s, HasNodes(s, N), NEW V \in [AccessNodes -> Int],
           NEW w, \A n \in 1 .. N : s[n] \in AccessNodes => w[n] = V[s[n]]
    PROVE  Valued(s, N, V, Chosen(s, N, w))
<1> DEFINE F == [1 .. N -> Int]
           H == [n \in 1 .. N |-> [f \in F |->
                   IF \A m \in 1 .. (n - 1) : f[m] \in Int
                   THEN NodeValue(s[n], w[n], f) ELSE 0]]
           Rule(val) == val = [n \in 1 .. N |-> NodeValue(s[n], w[n], val)]
           chosen == CHOOSE val : Rule(val)
<1>1. \A n \in 1 .. N : IsNode(s[n], n) /\ (s[n] \in AccessNodes => V[s[n]] \in Int)
  BY DEF HasNodes
<1>2. ASSUME NEW n \in 1 .. N, NEW f \in F
      PROVE  NodeValue(s[n], w[n], f) \in Int /\ H[n][f] = NodeValue(s[n], w[n], f)
  <2>1. \A m \in 1 .. (n - 1) : f[m] \in Int
    OBVIOUS
  <2>2. NodeValue(s[n], w[n], f) \in Int
    BY <1>1, <2>1, NodeValueAgrees
  <2>3. QED
    BY <2>1, <2>2
<1>3. H \in [1 .. N -> [F -> Int]]
  <2> DEFINE h(n, f) == IF \A m \in 1 .. (n - 1) : f[m] \in Int
                        THEN NodeValue(s[n], w[n], f) ELSE 0
  <2>1. ASSUME NEW n \in 1 .. N, NEW f \in F PROVE h(n, f) \in Int
    <3>1. NodeValue(s[n], w[n], f) \in Int
      BY <1>2
    <3>2. QED
      BY <3>1
  <2> HIDE DEF h, F
  <2>2. \A n \in 1 .. N : [f \in F |-> h(n, f)] \in [F -> Int]
    BY <2>1
  <2>3. [n \in 1 .. N |-> [f \in F |-> h(n, f)]] \in [1 .. N -> [F -> Int]]
    BY <2>2
  <2>4. QED
    BY <2>3 DEF h
<1>4. ASSUME NEW n \in 1 .. N, NEW f \in F, NEW g \in F,
             \A m \in 1 .. (n - 1) : f[m] = g[m]
      PROVE  H[n][f] = H[n][g]
  <2>1. \A m \in 1 .. (n - 1) : f[m] = g[m] /\ f[m] \in Int
    BY <1>4
  <2>2. NodeValue(s[n], w[n], f) = NodeValue(s[n], w[n], g)
    <3>1. /\ n \in Nat /\ IsNode(s[n], n)
          /\ s[n] \in AccessNodes => w[n] = w[n] /\ w[n] \in Int
      BY <1>1
    <3> HIDE DEF F, H
    <3>2. QED
      BY <2>1, <3>1, NodeValueAgrees
  <2> HIDE DEF F, H
  <2>3. QED
    BY <1>2, <2>2
<1> HIDE DEF H
<1>5. \E val : Rule(val)
  <2>1. Recursion(N, Int, H)
    <3>1. \A n \in 1 .. N : \A f, g \in F :
             (\A m \in 1 .. (n - 1) : f[m] = g[m]) => H[n][f] = H[n][g]
      BY <1>4
    <3>2. QED
      BY <1>3, <3>1 DEF Recursion
  <2>2. Int # {}
    OBVIOUS
  <2>3. PICK f : Recursive(N, Int, H, f)
    BY <2>1, <2>2, RecursionExists
  <2>4. f \in F /\ \A n \in 1 .. N : f[n] = H[n][f]
    BY <2>3 DEF Recursive
  <2>5. Rule(f)
    BY <1>2, <2>4
  <2>6. QED
    BY <2>5
<1>6. Rule(chosen)
  BY <1>5
<1> HIDE DEF chosen
<1>7. \A n \in 1 .. N : chosen[n] = NodeValue(s[n], w[n], chosen)
  BY <1>6
<1> DEFINE S == {n \in 1 .. N : chosen[n] \in Int}
<1>8. \A n \in 1 .. N : n \in S
  <2>1. ASSUME NEW n \in 1 .. N, \A m \in 1 .. (n - 1) : m \in S
        PROVE  n \in S
    <3>1. \A m \in 1 .. (n - 1) : chosen[m] \in Int
      BY <2>1
    <3>2. NodeValue(s[n], w[n], chosen) \in Int
      BY <1>1, <3>1, NodeValueAgrees
    <3>3. QED
      BY <1>7, <3>2
  <2> HIDE DEF S
  <2>2. QED
    BY <2>1, NodeInduction
<1>9. chosen \in [1 .. N -> Int]
  BY <1>6, <1>8
<1>10. ASSUME NEW n \in 1 .. N
       PROVE  chosen[n] = NodeValue(s[n], V[s[n]], chosen)
  <2>1. \A m \in 1 .. (n - 1) : chosen[m] \in Int
    BY <1>9
  <2>2. NodeValue(s[n], w[n], chosen) = NodeValue(s[n], V[s[n]], chosen)
    BY <1>1, <2>1, NodeValueAgrees
  <2>3. QED
    BY <1>7, <2>2
<1>11. QED
  BY <1>9, <1>10 DEF Valued, Chosen, chosen

\* What Evaluate() and the reference compute.
LEMMA EvaluateFacts ==
    ASSUME NEW N \in Nat, NEW s, HasNodes(s, N), NEW V \in [AccessNodes -> Int],
           \A n \in 1 .. N : s[n] \in AccessNodes => OperandValue(s[n]) = V[s[n]]
    PROVE  \E val : Valued(s, N, V, val) /\ Evaluate(s) = val[N]
<1> DEFINE w == [n \in 1 .. N |-> OperandValue(s[n])]
           val == Chosen(s, N, w)
<1>1. \A n \in 1 .. N : w[n] = OperandValue(s[n])
  OBVIOUS
<1>2. DOMAIN s = 1 .. N /\ Len(s) = N
  BY DEF HasNodes
<1> HIDE DEF w
<1>3. Valued(s, N, V, val)
  BY <1>1, ChosenValued
<1>4. \A f : f = [n \in 1 .. N |-> NodeValue(s[n], w[n], f)]
         <=> f = [n \in DOMAIN s |-> NodeValue(s[n], OperandValue(s[n]), f)]
  BY <1>1, <1>2
<1>5. val = CHOOSE f : f = [n \in DOMAIN s |-> NodeValue(s[n], OperandValue(s[n]), f)]
  BY <1>4 DEF Chosen
<1>6. Evaluate(s) = val[N]
  BY <1>2, <1>5 DEF Evaluate
<1>7. QED
  BY <1>3, <1>6

\* So is the evaluation of the reference, at every coordinate.
LEMMA ValueAtFacts ==
    ASSUME NEW N \in Nat, NEW s, HasNodes(s, N), NEW V \in [AccessNodes -> Int],
           NEW c,
           \A n \in 1 .. N : s[n] \in AccessNodes =>
              Total(s[n].t, ComponentsAt(s[n], c)) = V[s[n]]
    PROVE  \E val : Valued(s, N, V, val) /\ ValueAt(s, c) = val[N]
<1> DEFINE T(n) == Total(s[n].t, ComponentsAt(s[n], c))
           w == [n \in 1 .. N |-> T(n)]
           val == Chosen(s, N, w)
<1> HIDE DEF T
<1>1. \A n \in 1 .. N : w[n] = T(n)
  OBVIOUS
<1>2. DOMAIN s = 1 .. N /\ Len(s) = N
  BY DEF HasNodes
<1> HIDE DEF w
<1>3. Valued(s, N, V, val)
  <2>1. \A n \in 1 .. N : s[n] \in AccessNodes => w[n] = V[s[n]]
    BY <1>1 DEF T
  <2>2. QED
    BY <2>1, ChosenValued
<1>4. \A f : f = [n \in 1 .. N |-> NodeValue(s[n], w[n], f)]
         <=> f = [n \in DOMAIN s |-> NodeValue(s[n], T(n), f)]
  BY <1>1, <1>2
<1>5. val = CHOOSE f : f = [n \in DOMAIN s |-> NodeValue(s[n], T(n), f)]
  BY <1>4 DEF Chosen
<1>6. ValueAt(s, c) = val[N]
  BY <1>2, <1>5 DEF ValueAt, T
<1>7. QED
  BY <1>3, <1>6

(***************************************************************************)
(* Expressions without some accesses.                                      *)
(***************************************************************************)
\* f[n] is what Zero() makes of the first n nodes.
Zeros(s, Z, m, f) ==
    f = [n \in 0 .. m |->
            IF n = 0 THEN <<>>
            ELSE Append(f[n - 1], ZeroNode(s[n], f[n - 1], Z))]

\* z has the nodes of s, or what becomes of them.
Zeroed(s, N, Z, z) ==
    /\ Len(z) = N /\ DOMAIN z = 1 .. N
    /\ \A n \in 1 .. N : z[n] = ZeroNode(s[n], z, Z)

\* What zero() leaves of a node depends on what it leaves of its operands only.
LEMMA ZeroNodeAgrees ==
    ASSUME NEW n \in Nat, NEW node, IsNode(node, n), NEW f, NEW g, NEW Z,
           \A m \in 1 .. (n - 1) : f[m] = g[m]
    PROVE  ZeroNode(node, f, Z) = ZeroNode(node, g, Z)
<1>1. CASE node \in AccessNodes
  <2>1. node.op = "access"
    BY <1>1 DEF AccessNodes
  <2>2. QED
    BY <2>1 DEF ZeroNode
<1>2. CASE node.op \in {"literal", "undefined"}
  BY <1>2 DEF ZeroNode
<1>3. CASE node.op = "neg" /\ node.a \in 1 .. (n - 1)
  <2>1. f[node.a] = g[node.a]
    BY <1>3
  <2>2. QED
    BY <1>3, <2>1 DEF ZeroNode
<1>4. CASE /\ node.op \in {"add", "sub", "mul"}
           /\ node.a \in 1 .. (n - 1) /\ node.b \in 1 .. (n - 1)
  <2>1. f[node.a] = g[node.a] /\ f[node.b] = g[node.b]
    BY <1>4
  <2>2. QED
    BY <1>4, <2>1 DEF ZeroNode
<1>5. QED
  BY <1>1, <1>2, <1>3, <1>4 DEF IsNode

\* The recursion of zero() has a solution.
LEMMA ZerosExist ==
    ASSUME NEW s, NEW Z, NEW m \in Nat
    PROVE  \E f : Zeros(s, Z, m, f)
<1> DEFINE Added(n, f) == Append(f[n - 1], ZeroNode(s[n], f[n - 1], Z))
           S == {k \in Nat : \E f : Zeros(s, Z, k, f)}
<1>1. 0 \in S
  <2>1. Zeros(s, Z, 0, [n \in 0 .. 0 |-> <<>>])
    BY DEF Zeros
  <2>2. QED
    BY <2>1
<1>2. ASSUME NEW k \in Nat, k \in S PROVE k + 1 \in S
  <2>1. PICK f : Zeros(s, Z, k, f)
    BY <1>2
  <2> DEFINE g == [n \in 0 .. k + 1 |-> IF n = k + 1 THEN Added(k + 1, f) ELSE f[n]]
  <2>2. \A n \in 0 .. k : f[n] = IF n = 0 THEN <<>> ELSE Added(n, f)
    BY <2>1 DEF Zeros
  <2>3. /\ DOMAIN g = 0 .. k + 1 /\ g = [n \in 0 .. k + 1 |-> g[n]]
        /\ g[k + 1] = Added(k + 1, f) /\ \A n \in 0 .. k : g[n] = f[n]
    OBVIOUS
  <2> HIDE DEF g
  <2>4. ASSUME NEW n \in 0 .. k + 1 PROVE g[n] = IF n = 0 THEN <<>> ELSE Added(n, g)
    <3>0. n # 0 => n - 1 \in 0 .. k
      OBVIOUS
    <3>1. n # 0 => g[n - 1] = f[n - 1]
      BY <2>3, <3>0
    <3>2. n # 0 => Added(n, f) = Added(n, g)
      BY <3>1
    <3> HIDE DEF Added
    <3>3. CASE n = k + 1
      BY <2>3, <3>2, <3>3
    <3>4. CASE n \in 0 .. k
      BY <2>2, <2>3, <3>2, <3>4
    <3>5. QED
      BY <3>3, <3>4
  <2>5. Zeros(s, Z, k + 1, g)
    BY <2>3, <2>4 DEF Zeros
  <2>6. QED
    BY <2>5
<1>3. m \in S
  <2> HIDE DEF S
  <2>1. QED
    BY <1>1, <1>2, SetInduction
<1>4. QED
  BY <1>3

\* zero() leaves of every node what ZeroNode says.
LEMMA ZeroFacts ==
    ASSUME NEW N \in Nat, NEW s, HasNodes(s, N), NEW Z
    PROVE  Zeroed(s, N, Z, Zero(s, Z))
<1>1. PICK f : Zeros(s, Z, N, f) /\ Zero(s, Z) = f[N]
  <2>1. \E f : Zeros(s, Z, N, f)
    BY ZerosExist
  <2>2. Zero(s, Z) = (CHOOSE f : Zeros(s, Z, N, f))[N]
    BY DEF Zero, Zeros, HasNodes
  <2>3. QED
    BY <2>1, <2>2
<1>2. /\ f[0] = <<>>
      /\ \A n \in 0 .. N : n # 0 =>
            f[n] = Append(f[n - 1], ZeroNode(s[n], f[n - 1], Z))
  <2> DEFINE After(n) == Append(f[n - 1], ZeroNode(s[n], f[n - 1], Z))
  <2>1. f = [n \in 0 .. N |-> IF n = 0 THEN <<>> ELSE After(n)]
    BY <1>1 DEF Zeros
  <2> HIDE DEF After
  <2>2. \A n \in 0 .. N : f[n] = IF n = 0 THEN <<>> ELSE After(n)
    BY <2>1
  <2>3. f[0] = <<>> /\ \A n \in 0 .. N : n # 0 => f[n] = After(n)
    BY <2>2
  <2>4. QED
    BY <2>3 DEF After
<1> DEFINE Good(n) ==
              /\ \E R : f[n] \in Seq(R)
              /\ Len(f[n]) = n
              /\ \A i \in 1 .. n : f[n][i] = ZeroNode(s[i], f[n], Z)
           S == {n \in Nat : n <= N => Good(n)}
<1>3. 0 \in S
  <2>1. f[0] \in Seq({}) /\ Len(f[0]) = 0
    BY <1>2, EmptySeq
  <2>2. QED
    BY <2>1
<1>4. ASSUME NEW n \in Nat, n \in S PROVE n + 1 \in S
  <2> SUFFICES ASSUME n + 1 <= N PROVE Good(n + 1)
    OBVIOUS
  <2>1. Good(n)
    BY <1>4
  <2> DEFINE u == f[n]
             x == ZeroNode(s[n + 1], u, Z)
             v == f[n + 1]
  <2>2. v = Append(u, x)
    BY <1>2
  <2>3. PICK R : u \in Seq(R)
    BY <2>1
  <2>4. Len(u) = n /\ \A i \in 1 .. n : u[i] = ZeroNode(s[i], u, Z)
    BY <2>1
  <2> HIDE DEF u, v, x
  <2>5. /\ v \in Seq(R \cup {x}) /\ Len(v) = n + 1
        /\ v[n + 1] = x /\ \A i \in 1 .. n : v[i] = u[i]
    <3>1. u \in Seq(R \cup {x}) /\ x \in R \cup {x}
      BY <2>3, SeqDef
    <3>2. QED
      BY <2>2, <2>4, <3>1, AppendProperties
  <2>6. ASSUME NEW i \in 1 .. n + 1 PROVE v[i] = ZeroNode(s[i], v, Z)
    <3>1. IsNode(s[i], i) /\ \A m \in 1 .. (i - 1) : u[m] = v[m]
      BY <2>5 DEF HasNodes
    <3>2. ZeroNode(s[i], u, Z) = ZeroNode(s[i], v, Z)
      BY <3>1, ZeroNodeAgrees
    <3>3. CASE i = n + 1
      BY <2>5, <3>2, <3>3 DEF x
    <3>4. CASE i \in 1 .. n
      BY <2>4, <2>5, <3>2, <3>4
    <3>5. QED
      BY <3>3, <3>4
  <2>7. QED
    BY <2>5, <2>6 DEF v
<1>5. N \in S
  <2> HIDE DEF S
  <2>1. QED
    BY <1>3, <1>4, SetInduction
<1>6. Good(N)
  BY <1>5
<1>7. DOMAIN f[N] = 1 .. N
  BY <1>6, LenProperties
<1>8. QED
  BY <1>1, <1>6, <1>7 DEF Zeroed

\* What a node becomes.
LEMMA ZeroNodeCases ==
    ASSUME NEW n \in Nat, NEW node, IsNode(node, n), NEW z, NEW Z
    PROVE  \/ /\ node \in AccessNodes
              /\ ZeroNode(node, z, Z)
                    = IF Iterator(node.t, node.kind) \in Z THEN Undefined ELSE node
           \/ node.op \in {"literal", "undefined"} /\ ZeroNode(node, z, Z) = node
           \/ /\ node.op = "neg" /\ node.a \in 1 .. (n - 1)
              /\ ZeroNode(node, z, Z)
                    = IF z[node.a] = Undefined THEN Undefined ELSE node
           \/ /\ node.op \in {"add", "sub", "mul"}
              /\ node.a \in 1 .. (n - 1) /\ node.b \in 1 .. (n - 1)
              /\ \/ /\ z[node.a] = Undefined /\ z[node.b] = Undefined
                    /\ ZeroNode(node, z, Z) = Undefined
                 \/ /\ z[node.a] = Undefined /\ z[node.b] # Undefined
                    /\ ZeroNode(node, z, Z) =
                          IF node.op = "mul" THEN Undefined
                          ELSE IF node.op = "sub" THEN Neg(node.b) ELSE z[node.b]
                 \/ /\ z[node.a] # Undefined /\ z[node.b] = Undefined
                    /\ ZeroNode(node, z, Z) =
                          IF node.op = "mul" THEN Undefined ELSE z[node.a]
                 \/ /\ z[node.a] # Undefined /\ z[node.b] # Undefined
                    /\ ZeroNode(node, z, Z) = node
<1>1. CASE node \in AccessNodes
  <2>1. node.op = "access"
    BY <1>1 DEF AccessNodes
  <2>2. QED
    BY <1>1, <2>1 DEF ZeroNode
<1>2. CASE node.op \in {"literal", "undefined"}
  BY <1>2 DEF ZeroNode
<1>3. CASE node.op = "neg" /\ node.a \in 1 .. (n - 1)
  BY <1>3 DEF ZeroNode
<1>4. CASE /\ node.op \in {"add", "sub", "mul"}
           /\ node.a \in 1 .. (n - 1) /\ node.b \in 1 .. (n - 1)
  <2>1. ZeroNode(node, z, Z) =
            CASE z[node.a] = Undefined /\ z[node.b] = Undefined -> Undefined
              [] z[node.a] = Undefined /\ z[node.b] # Undefined ->
                    IF node.op = "mul" THEN Undefined
                    ELSE IF node.op = "sub" THEN Neg(node.b) ELSE z[node.b]
              [] z[node.a] # Undefined /\ z[node.b] = Undefined ->
                    IF node.op = "mul" THEN Undefined ELSE z[node.a]
              [] OTHER -> node
    BY <1>4 DEF ZeroNode
  <2>2. CASE z[node.a] = Undefined /\ z[node.b] = Undefined
    BY <1>4, <2>1, <2>2
  <2>3. CASE z[node.a] = Undefined /\ z[node.b] # Undefined
    BY <1>4, <2>1, <2>3
  <2>4. CASE z[node.a] # Undefined /\ z[node.b] = Undefined
    BY <1>4, <2>1, <2>4
  <2>5. CASE z[node.a] # Undefined /\ z[node.b] # Undefined
    BY <1>4, <2>1, <2>5
  <2>6. QED
    BY <2>2, <2>3, <2>4, <2>5
<1>5. QED
  BY <1>1, <1>2, <1>3, <1>4 DEF IsNode

\* The accesses that are left are accesses of s and not those of Z.
LEMMA ZeroHasNodes ==
    ASSUME NEW N \in Nat, NEW s, HasNodes(s, N), NEW Z, NEW z, Zeroed(s, N, Z, z)
    PROVE  /\ HasNodes(z, N)
           /\ \A n \in 1 .. N : z[n] \in AccessNodes =>
                 /\ \E m \in 1 .. N : s[m] = z[n]
                 /\ Iterator(z[n].t, z[n].kind) \notin Z
<1> DEFINE Left(n) == z[n] \in AccessNodes =>
                         /\ \E m \in 1 .. N : s[m] = z[n]
                         /\ Iterator(z[n].t, z[n].kind) \notin Z
           S == {n \in 1 .. N : IsNode(z[n], n) /\ Left(n)}
<1>1. \A n \in 1 .. N : IsNode(s[n], n) /\ z[n] = ZeroNode(s[n], z, Z)
  BY DEF HasNodes, Zeroed
<1>2. ASSUME NEW n \in 1 .. N, \A m \in 1 .. (n - 1) : m \in S
      PROVE  n \in S
  <2> DEFINE node == s[n]
  <2>1. \A m \in 1 .. (n - 1) : IsNode(z[m], n) /\ Left(m)
    <3> TAKE m \in 1 .. (n - 1)
    <3>1. IsNode(z[m], m) /\ Left(m)
      BY <1>2
    <3>2. QED
      BY <3>1 DEF IsNode
  <2>2. IsNode(Undefined, n) /\ Undefined \notin AccessNodes
    BY DEF IsNode, Undefined, AccessNodes
  <2>3. CASE z[n] = Undefined
    BY <2>2, <2>3
  <2>4. ASSUME NEW m \in 1 .. (n - 1), z[n] = z[m] PROVE n \in S
    BY <2>1, <2>4
  <2>5. CASE z[n] = node /\ node \in AccessNodes /\ Iterator(node.t, node.kind) \notin Z
    BY <1>1, <2>5
  <2>6. CASE z[n] = node /\ node.op # "access"
    <3>1. node \notin AccessNodes
      BY <2>6 DEF AccessNodes
    <3>2. QED
      BY <1>1, <2>6, <3>1
  <2>7. ASSUME NEW m \in 1 .. (n - 1), z[n] = Neg(m) PROVE n \in S
    <3>1. Neg(m).op = "neg" /\ Neg(m).a = m
      BY DEF Neg
    <3>2. IsNode(Neg(m), n) /\ Neg(m) \notin AccessNodes
      BY <3>1 DEF IsNode, AccessNodes
    <3>3. QED
      BY <2>7, <3>2
  <2>8. IsNode(node, n) /\ z[n] = ZeroNode(node, z, Z)
    BY <1>1
  <2> HIDE DEF S
  <2>9. QED
    BY <2>3, <2>4, <2>5, <2>6, <2>7, <2>8, ZeroNodeCases
<1>3. \A n \in 1 .. N : n \in S
  <2> HIDE DEF S
  <2>1. QED
    BY <1>2, NodeInduction
<1>4. QED
  BY <1>3 DEF HasNodes, Zeroed

\* The value of a node of each kind.
LEMMA ValuedCases ==
    ASSUME NEW N \in Nat, NEW s, HasNodes(s, N), NEW V \in [AccessNodes -> Int],
           NEW val, Valued(s, N, V, val), NEW n \in 1 .. N, NEW node, node = s[n]
    PROVE  /\ val[n] \in Int /\ IsNode(node, n)
           /\ node \in AccessNodes => val[n] = V[node]
           /\ node.op = "literal" => val[n] = 2
           /\ node.op = "undefined" => val[n] = 0
           /\ node.op = "neg" => val[n] = 0 - val[node.a] /\ val[node.a] \in Int
           /\ node.op \in {"add", "sub", "mul"} =>
                 val[node.a] \in Int /\ val[node.b] \in Int
           /\ node.op = "add" => val[n] = val[node.a] + val[node.b]
           /\ node.op = "sub" => val[n] = val[node.a] - val[node.b]
           /\ node.op = "mul" => val[n] = val[node.a] * val[node.b]
<1>1. val[n] = NodeValue(node, V[node], val) /\ IsNode(node, n) /\ val[n] \in Int
  BY DEF Valued, HasNodes
<1>2. \A m \in 1 .. (n - 1) : val[m] \in Int
  BY DEF Valued
<1>3. CASE node \in AccessNodes
  <2>1. node.op = "access"
    BY <1>3 DEF AccessNodes
  <2>2. QED
    BY <1>1, <2>1 DEF NodeValue
<1>4. CASE node.op \in {"literal", "undefined"}
  <2>1. node \notin AccessNodes
    BY <1>4 DEF AccessNodes
  <2>2. QED
    BY <1>1, <1>4, <2>1 DEF NodeValue
<1>5. CASE node.op = "neg" /\ node.a \in 1 .. (n - 1)
  <2>1. node \notin AccessNodes
    BY <1>5 DEF AccessNodes
  <2>2. val[n] = 0 - val[node.a]
    BY <1>1, <1>5 DEF NodeValue
  <2>3. QED
    BY <1>1, <1>2, <1>5, <2>1, <2>2
<1>6. CASE /\ node.op \in {"add", "sub", "mul"}
           /\ node.a \in 1 .. (n - 1) /\ node.b \in 1 .. (n - 1)
  <2>1. node \notin AccessNodes
    BY <1>6 DEF AccessNodes
  <2>2. val[node.a] \in Int /\ val[node.b] \in Int
    BY <1>2, <1>6
  <2>3. /\ node.op = "add" => val[n] = val[node.a] + val[node.b]
        /\ node.op = "sub" => val[n] = val[node.a] - val[node.b]
        /\ node.op = "mul" => val[n] = val[node.a] * val[node.b]
    BY <1>1 DEF NodeValue
  <2>4. QED
    BY <1>1, <1>6, <2>1, <2>2, <2>3
<1>7. QED
  BY <1>1, <1>3, <1>4, <1>5, <1>6 DEF IsNode

\* An expression without the accesses of Z has the value it has if they are 0.
LEMMA ZeroValues ==
    ASSUME NEW N \in Nat, NEW s, HasNodes(s, N), NEW Z, NEW z, Zeroed(s, N, Z, z),
           NEW V \in [AccessNodes -> Int],
           \A a \in AccessNodes : Iterator(a.t, a.kind) \in Z => V[a] = 0,
           NEW u, Valued(s, N, V, u), NEW v, Valued(z, N, V, v)
    PROVE  \A n \in 1 .. N : u[n] = v[n]
<1> DEFINE S == {n \in 1 .. N : u[n] = v[n] /\ (z[n] = Undefined => u[n] = 0)}
<1>1. HasNodes(z, N)
  BY ZeroHasNodes
<1>2. ASSUME NEW n \in 1 .. N, \A m \in 1 .. (n - 1) : m \in S
      PROVE  n \in S
  <2> DEFINE node == s[n]
             same == z[n]
  <2>1. \A m \in 1 .. (n - 1) :
           m \in 1 .. N /\ u[m] = v[m] /\ (z[m] = Undefined => u[m] = 0)
    BY <1>2
  <2>2. IsNode(node, n) /\ z[n] = ZeroNode(node, z, Z)
    BY DEF HasNodes, Zeroed
  <2>3. /\ u[n] \in Int
        /\ node \in AccessNodes => u[n] = V[node]
        /\ node.op = "literal" => u[n] = 2
        /\ node.op = "undefined" => u[n] = 0
        /\ node.op = "neg" => u[n] = 0 - u[node.a] /\ u[node.a] \in Int
        /\ node.op \in {"add", "sub", "mul"} => u[node.a] \in Int /\ u[node.b] \in Int
        /\ node.op = "add" => u[n] = u[node.a] + u[node.b]
        /\ node.op = "sub" => u[n] = u[node.a] - u[node.b]
        /\ node.op = "mul" => u[n] = u[node.a] * u[node.b]
    BY ValuedCases
  <2>4. /\ same \in AccessNodes => v[n] = V[same]
        /\ same.op = "literal" => v[n] = 2
        /\ same.op = "undefined" => v[n] = 0
        /\ same.op = "neg" => v[n] = 0 - v[same.a]
        /\ same.op = "add" => v[n] = v[same.a] + v[same.b]
        /\ same.op = "sub" => v[n] = v[same.a] - v[same.b]
        /\ same.op = "mul" => v[n] = v[same.a] * v[same.b]
    BY <1>1, ValuedCases
  <2>5. z[n] = Undefined => v[n] = 0
    BY <2>4 DEF Undefined
  <2>6. ASSUME NEW m \in 1 .. (n - 1), z[n] = z[m] PROVE v[n] = u[m]
    <3>1. v[n] = NodeValue(z[n], V[z[n]], v) /\ v[m] = NodeValue(z[m], V[z[m]], v)
      BY DEF Valued
    <3>2. QED
      BY <2>1, <2>6, <3>1
  <2>7. CASE node \in AccessNodes /\ z[n]
                = IF Iterator(node.t, node.kind) \in Z THEN Undefined ELSE node
    <3>1. CASE Iterator(node.t, node.kind) \in Z
      BY <2>3, <2>5, <2>7, <3>1
    <3>2. CASE Iterator(node.t, node.kind) \notin Z
      <4>1. node # Undefined
        BY <2>7 DEF AccessNodes, Undefined
      <4>2. QED
        BY <2>3, <2>4, <2>7, <3>2, <4>1
    <3>3. QED
      BY <3>1, <3>2
  <2>8. CASE node.op \in {"literal", "undefined"} /\ z[n] = node
    <3>1. node = Undefined => node.op = "undefined"
      BY DEF Undefined
    <3>2. QED
      BY <2>3, <2>4, <2>8, <3>1
  <2>9. CASE /\ node.op = "neg" /\ node.a \in 1 .. (n - 1)
             /\ z[n] = IF z[node.a] = Undefined THEN Undefined ELSE node
    <3>1. u[node.a] = v[node.a] /\ (z[node.a] = Undefined => u[node.a] = 0)
      BY <2>1, <2>9
    <3>2. CASE z[node.a] = Undefined
      BY <2>3, <2>5, <2>9, <3>1, <3>2
    <3>3. CASE z[node.a] # Undefined
      <4>1. node # Undefined
        BY <2>9 DEF Undefined
      <4>2. QED
        BY <2>3, <2>4, <2>9, <3>1, <3>3, <4>1
    <3>4. QED
      BY <3>2, <3>3
  <2>10. CASE /\ node.op \in {"add", "sub", "mul"}
              /\ node.a \in 1 .. (n - 1) /\ node.b \in 1 .. (n - 1)
    <3>1. /\ u[node.a] = v[node.a] /\ (z[node.a] = Undefined => u[node.a] = 0)
          /\ u[node.b] = v[node.b] /\ (z[node.b] = Undefined => u[node.b] = 0)
      BY <2>1, <2>10
    <3>2. /\ u[node.a] = 0 /\ node.op = "mul" => u[n] = 0
          /\ u[node.b] = 0 /\ node.op = "mul" => u[n] = 0
          /\ u[node.a] = 0 /\ node.op = "add" => u[n] = u[node.b]
          /\ u[node.b] = 0 /\ node.op = "add" => u[n] = u[node.a]
          /\ u[node.a] = 0 /\ node.op = "sub" => u[n] = 0 - u[node.b]
          /\ u[node.b] = 0 /\ node.op = "sub" => u[n] = u[node.a]
      <4>1. \A i \in Int : /\ 0 * i = 0 /\ i * 0 = 0 /\ 0 + i = i /\ i + 0 = i
                           /\ i - 0 = i
        OBVIOUS
      <4>2. u[node.a] \in Int /\ u[node.b] \in Int
        BY <2>3, <2>10
      <4>3. CASE node.op = "mul"
        BY <2>3, <4>1, <4>2, <4>3
      <4>4. CASE node.op = "add"
        BY <2>3, <4>1, <4>2, <4>4
      <4>5. CASE node.op = "sub"
        BY <2>3, <4>1, <4>2, <4>5
      <4>6. QED
        BY <2>10, <4>3, <4>4, <4>5
    <3>3. CASE z[node.a] = Undefined /\ z[node.b] = Undefined /\ z[n] = Undefined
      <4>1. u[n] = 0
        BY <2>10, <3>1, <3>2, <3>3
      <4>2. QED
        BY <2>5, <3>3, <4>1
    <3>4. CASE /\ z[node.a] = Undefined /\ z[node.b] # Undefined
               /\ z[n] = IF node.op = "mul" THEN Undefined
                         ELSE IF node.op = "sub" THEN Neg(node.b) ELSE z[node.b]
      <4>1. CASE node.op = "mul"
        BY <2>5, <3>1, <3>2, <3>4, <4>1
      <4>2. CASE node.op = "add"
        BY <2>6, <2>10, <3>1, <3>2, <3>4, <4>2
      <4>3. CASE node.op = "sub"
        <5>1. z[n] # Undefined /\ v[n] = 0 - v[node.b]
          BY <2>4, <3>4, <4>3 DEF Neg, Undefined
        <5>2. QED
          BY <3>1, <3>2, <3>4, <4>3, <5>1
      <4>4. QED
        BY <2>10, <4>1, <4>2, <4>3
    <3>5. CASE /\ z[node.a] # Undefined /\ z[node.b] = Undefined
               /\ z[n] = IF node.op = "mul" THEN Undefined ELSE z[node.a]
      <4>1. CASE node.op = "mul"
        BY <2>5, <3>1, <3>2, <3>5, <4>1
      <4>2. CASE node.op # "mul"
        BY <2>6, <2>10, <3>1, <3>2, <3>5, <4>2
      <4>3. QED
        BY <4>1, <4>2
    <3>6. CASE z[node.a] # Undefined /\ z[node.b] # Undefined /\ z[n] = node
      <4>1. node # Undefined
        BY <2>10 DEF Undefined
      <4>2. QED
        BY <2>3, <2>4, <2>10, <3>1, <3>6, <4>1
    <3>7. \/ z[node.a] = Undefined /\ z[node.b] = Undefined /\ z[n] = Undefined
          \/ /\ z[node.a] = Undefined /\ z[node.b] # Undefined
             /\ z[n] = IF node.op = "mul" THEN Undefined
                       ELSE IF node.op = "sub" THEN Neg(node.b) ELSE z[node.b]
          \/ /\ z[node.a] # Undefined /\ z[node.b] = Undefined
             /\ z[n] = IF node.op = "mul" THEN Undefined ELSE z[node.a]
          \/ z[node.a] # Undefined /\ z[node.b] # Undefined /\ z[n] = node
      <4>1. node \notin AccessNodes
        BY <2>10 DEF AccessNodes
      <4>2. QED
        BY <2>2, <2>10, <4>1, ZeroNodeCases
    <3>8. QED
      BY <3>3, <3>4, <3>5, <3>6, <3>7
  <2> HIDE DEF S
  <2>11. QED
    BY <2>2, <2>7, <2>8, <2>9, <2>10, ZeroNodeCases
<1>3. \A n \in 1 .. N : n \in S
  <2> HIDE DEF S
  <2>1. QED
    BY <1>2, NodeInduction
<1>4. QED
  BY <1>3

(***************************************************************************)
(* The iterators of the lattices of nodes.                                 *)
(***************************************************************************)
\* The first point of a sum has the iterators of both operands.
LEMMA UnionFirst ==
    ASSUME NEW I, NEW left, NEW right, WellFormed(left, I), WellFormed(right, I)
    PROVE  UnionLattices(left, right)[1] = left[1] \cup right[1]
<1> DEFINE united == UnionLattices(left, right)
           all == left[1] \cup right[1]
<1>1. Points(united) = {p \in Unions(left, right) : FullOf(all) \subseteq p}
  BY UnionPointsFacts
<1>2. /\ \A p \in Points(united) : p \subseteq united[1]
      /\ united[1] \in Points(united)
  BY UnionWellFormed, PointFacts
<1> HIDE DEF united
<1>3. /\ left[1] \in Points(left) /\ right[1] \in Points(right)
      /\ \A p \in Points(left) : p \subseteq left[1]
      /\ \A p \in Points(right) : p \subseteq right[1]
  BY PointFacts
<1>4. all \in Unions(left, right)
  <2>1. /\ <<left[1], right[1]>> \in Points(left) \X Points(right)
        /\ UnionPoints(left[1], right[1]) = all
    BY <1>3 DEF UnionPoints
  <2>2. QED
    BY <2>1 DEF Unions, UnitedPoints
<1>5. all \in Points(united)
  BY <1>1, <1>4 DEF FullOf
<1>6. ASSUME NEW p \in Unions(left, right) PROVE p \subseteq all
  <2>1. CASE p \in Points(left) \cup Points(right)
    BY <1>3, <2>1
  <2>2. CASE p \in UnitedPoints(left, right)
    <3>1. PICK x \in Points(left) \X Points(right) : p = x[1] \cup x[2]
      BY <2>2 DEF UnitedPoints, UnionPoints
    <3>2. x[1] \subseteq left[1] /\ x[2] \subseteq right[1]
      BY <1>3
    <3>3. QED
      BY <3>1, <3>2
  <2>3. QED
    BY <2>1, <2>2 DEF Unions
<1>7. united[1] \subseteq all /\ all \subseteq united[1]
  BY <1>1, <1>2, <1>5, <1>6
<1>8. QED
  BY <1>7 DEF united

\* The first point of a product has those that are not located.
LEMMA IntersectFirst ==
    ASSUME NEW I, NEW left, NEW right, WellFormed(left, I), WellFormed(right, I)
    PROVE  IntersectLattices(left, right)[1]
              = IntersectPoints(left[1], right[1], LocateFromLeft(left, right))
<1> DEFINE lat == IntersectLattices(left, right)
           locate == LocateFromLeft(left, right)
           all == IntersectPoints(left[1], right[1], locate)
<1>1. Points(lat) = {IntersectPoints(x[1], x[2], locate) :
                        x \in Points(left) \X Points(right)}
  BY IntersectPointsFacts DEF IntersectedPoints
<1>2. /\ \A p \in Points(lat) : p \subseteq lat[1]
      /\ lat[1] \in Points(lat)
  BY IntersectWellFormed, PointFacts
<1> HIDE DEF lat, locate
<1>3. /\ left[1] \in Points(left) /\ right[1] \in Points(right)
      /\ \A p \in Points(left) : p \subseteq left[1]
      /\ \A p \in Points(right) : p \subseteq right[1]
  BY PointFacts
<1>4. all \in Points(lat)
  <2>1. <<left[1], right[1]>> \in Points(left) \X Points(right)
    BY <1>3
  <2>2. QED
    BY <1>1, <2>1
<1>5. ASSUME NEW p \in Points(lat) PROVE p \subseteq all
  <2>1. PICK x \in Points(left) \X Points(right) : p = IntersectPoints(x[1], x[2], locate)
    BY <1>1
  <2>2. x[1] \subseteq left[1] /\ x[2] \subseteq right[1]
    BY <1>3
  <2>3. QED
    BY <2>1, <2>2 DEF IntersectPoints
<1>6. lat[1] \subseteq all /\ all \subseteq lat[1]
  BY <1>2, <1>4, <1>5
<1>7. QED
  BY <1>6 DEF lat, locate

\* What a node has in the lattices f.
LatticeCase(e, f, n) ==
    \/ /\ e[n] \in AccessNodes /\ e[n].op = "access" /\ e[n].kind # "dense"
       /\ f[n] = <<{Iterator(e[n].t, e[n].kind)}>>
    \/ /\ e[n] \in AccessNodes /\ e[n].op = "access" /\ e[n].kind = "dense"
       /\ f[n] = <<{Dim}>>
    \/ e[n].op = "literal" /\ f[n] = <<{Dim}>>
    \/ e[n].op = "neg" /\ e[n].a \in 1 .. (n - 1) /\ f[n] = f[e[n].a]
    \/ /\ e[n].op \in {"add", "sub"}
       /\ e[n].a \in 1 .. (n - 1) /\ e[n].b \in 1 .. (n - 1)
       /\ f[n] = UnionLattices(f[e[n].a], f[e[n].b])
    \/ /\ e[n].op = "mul"
       /\ e[n].a \in 1 .. (n - 1) /\ e[n].b \in 1 .. (n - 1)
       /\ f[n] = IntersectLattices(f[e[n].a], f[e[n].b])

\* The lattice of a node, by the node's kind.
LEMMA LatticeCases ==
    ASSUME NEW e, e \in Seq(Range(e)), IsExpression(e), NEW f, Lattices(e, f),
           NEW n \in 1 .. Len(e)
    PROVE  LatticeCase(e, f, n)
<1> DEFINE node == e[n]
<1>1. IsNode(node, n) /\ n \in DOMAIN e
  BY ExpressionHasNodes DEF HasNodes
<1>2. f[n] = NodeLattice(node, f)
  BY DEF Lattices
<1>3. \/ node.op = "access" \/ node.op = "literal" \/ node.op = "neg"
      \/ node.op \in {"add", "sub", "mul"}
  BY <1>1, NodeCases
<1> HIDE DEF node
<1>4. CASE node \in AccessNodes
  <2>1. node.op = "access" /\ node.kind \in Kinds
    BY <1>4 DEF AccessNodes
  <2>2. f[n] = AccessLattice(node)
    BY <1>2, <2>1 DEF NodeLattice
  <2>3. HasPosIter(Iterator(node.t, node.kind)) <=> node.kind # "dense"
    BY <2>1 DEF HasPosIter, Iterator, Kinds
  <2>4. QED
    BY <1>4, <2>1, <2>2, <2>3 DEF AccessLattice, LatticeCase, node
<1>5. CASE node.op \in {"literal", "undefined"}
  <2>1. node.op = "literal"
    BY <1>3, <1>5
  <2>2. f[n] = <<{Dim}>>
    BY <1>2, <2>1 DEF NodeLattice, ModeIterationLattice
  <2>3. QED
    BY <2>1, <2>2 DEF LatticeCase, node
<1>6. CASE node.op = "neg" /\ node.a \in 1 .. (n - 1)
  <2>1. f[n] = f[node.a]
    BY <1>2, <1>6 DEF NodeLattice
  <2>2. QED
    BY <1>6, <2>1 DEF LatticeCase, node
<1>7. CASE /\ node.op \in {"add", "sub", "mul"}
           /\ node.a \in 1 .. (n - 1) /\ node.b \in 1 .. (n - 1)
  <2>1. CASE node.op \in {"add", "sub"}
    <3>1. f[n] = UnionLattices(f[node.a], f[node.b])
      BY <1>2, <2>1 DEF NodeLattice
    <3>2. QED
      BY <1>7, <2>1, <3>1 DEF LatticeCase, node
  <2>2. CASE node.op = "mul"
    <3>1. f[n] = IntersectLattices(f[node.a], f[node.b])
      BY <1>2, <2>2 DEF NodeLattice
    <3>2. QED
      BY <1>7, <2>2, <3>1 DEF LatticeCase, node
  <2>3. QED
    BY <1>7, <2>1, <2>2
<1>8. QED
  <2>1. \/ node \in AccessNodes \/ node.op \in {"literal", "undefined"}
        \/ node.op = "neg" /\ node.a \in 1 .. (n - 1)
        \/ /\ node.op \in {"add", "sub", "mul"}
           /\ node.a \in 1 .. (n - 1) /\ node.b \in 1 .. (n - 1)
    BY <1>1 DEF IsNode
  <2>2. QED
    BY <2>1, <1>4, <1>5, <1>6, <1>7

\* The nodes a node is made of have no other iterators.
LEMMA PartFirst ==
    ASSUME NEW e, e \in Seq(Range(e)), IsExpression(e), NEW f, Lattices(e, f),
           NEW n \in 1 .. Len(e), NEW m \in Parts(e[n])
    PROVE  m \in 1 .. (n - 1) /\ f[m][1] \ {Dim} \subseteq f[n][1]
<1> DEFINE I == IteratorsOf(e)
<1>0. \A k \in 1 .. Len(e) : WellFormed(f[k], I)
  BY DEF Lattices
<1>1. \/ e[n].op \in {"access", "literal"}
      \/ e[n].op = "neg" /\ e[n].a \in 1 .. (n - 1) /\ f[n] = f[e[n].a]
      \/ /\ e[n].op \in {"add", "sub"}
         /\ e[n].a \in 1 .. (n - 1) /\ e[n].b \in 1 .. (n - 1)
         /\ f[n] = UnionLattices(f[e[n].a], f[e[n].b])
      \/ /\ e[n].op = "mul"
         /\ e[n].a \in 1 .. (n - 1) /\ e[n].b \in 1 .. (n - 1)
         /\ f[n] = IntersectLattices(f[e[n].a], f[e[n].b])
  <2>1. LatticeCase(e, f, n)
    BY LatticeCases
  <2>2. QED
    BY <2>1 DEF LatticeCase
<1>2. CASE e[n].op \in {"access", "literal"}
  BY <1>2 DEF Parts
<1>3. CASE e[n].op = "neg" /\ e[n].a \in 1 .. (n - 1) /\ f[n] = f[e[n].a]
  <2>1. m = e[n].a
    BY <1>3 DEF Parts
  <2>2. QED
    BY <1>3, <2>1
<1>4. CASE /\ e[n].op \in {"add", "sub"}
           /\ e[n].a \in 1 .. (n - 1) /\ e[n].b \in 1 .. (n - 1)
           /\ f[n] = UnionLattices(f[e[n].a], f[e[n].b])
  <2>1. m = e[n].a \/ m = e[n].b
    BY <1>4 DEF Parts
  <2>2. WellFormed(f[e[n].a], I) /\ WellFormed(f[e[n].b], I)
    BY <1>0, <1>4
  <2> HIDE DEF I
  <2>3. f[n][1] = f[e[n].a][1] \cup f[e[n].b][1]
    BY <1>4, <2>2, UnionFirst
  <2>4. QED
    BY <1>4, <2>1, <2>3
<1>5. CASE /\ e[n].op = "mul"
           /\ e[n].a \in 1 .. (n - 1) /\ e[n].b \in 1 .. (n - 1)
           /\ f[n] = IntersectLattices(f[e[n].a], f[e[n].b])
  <2>1. m = e[n].a \/ m = e[n].b
    BY <1>5 DEF Parts
  <2>2. WellFormed(f[e[n].a], I) /\ WellFormed(f[e[n].b], I)
    BY <1>0, <1>5
  <2> HIDE DEF I
  <2>3. f[n][1] = IntersectPoints(f[e[n].a][1], f[e[n].b][1],
                                  LocateFromLeft(f[e[n].a], f[e[n].b]))
    BY <1>5, <2>2, IntersectFirst
  <2>4. QED
    BY <1>5, <2>1, <2>3 DEF IntersectPoints
<1>6. QED
  BY <1>1, <1>2, <1>3, <1>4, <1>5

\* The lattice of an expression has the iterators of all its accesses.
LEMMA AccessesInFirst ==
    ASSUME NEW e, e \in Seq(Range(e)), IsExpression(e), NEW f, Lattices(e, f)
    PROVE  \A n \in 1 .. Len(e) : e[n] \in AccessNodes /\ e[n].kind # "dense" =>
              Iterator(e[n].t, e[n].kind) \in f[Len(e)][1]
<1> DEFINE N == Len(e)
           S == {k \in 1 .. N : f[N + 1 - k][1] \ {Dim} \subseteq f[N][1]}
<1>1. N \in Nat \ {0} /\ DOMAIN e = 1 .. N
  BY ExpressionHasNodes DEF HasNodes
<1>2. ASSUME NEW k \in 1 .. N, \A j \in 1 .. (k - 1) : j \in S
      PROVE  k \in S
  <2>1. CASE k = 1
    BY <1>1, <2>1
  <2>2. CASE k # 1
    <3> DEFINE n == N + 1 - k
    <3>1. n \in 1 .. (N - 1)
      BY <1>1, <2>2
    <3>2. PICK m \in 1 .. N : n \in Parts(e[m])
      BY <1>1, <3>1 DEF IsExpression
    <3> HIDE DEF N
    <3>3. n \in 1 .. (m - 1) /\ f[n][1] \ {Dim} \subseteq f[m][1]
      BY <3>2, PartFirst DEF N
    <3>4. N + 1 - m \in 1 .. (k - 1) /\ N + 1 - (N + 1 - m) = m
      BY <1>1, <3>3
    <3>5. f[m][1] \ {Dim} \subseteq f[N][1]
      BY <1>2, <3>4
    <3>6. QED
      BY <3>3, <3>5
  <2>3. QED
    BY <2>1, <2>2
<1>3. \A k \in 1 .. N : k \in S
  <2> HIDE DEF S, N
  <2>1. QED
    BY <1>1, <1>2, NodeInduction
<1>4. ASSUME NEW n \in 1 .. N, e[n] \in AccessNodes, e[n].kind # "dense"
      PROVE  Iterator(e[n].t, e[n].kind) \in f[N][1]
  <2>1. e[n].op = "access" /\ e[n].kind \in Kinds
    BY <1>4 DEF AccessNodes
  <2>2. f[n] = <<{Iterator(e[n].t, e[n].kind)}>>
    <3>1. LatticeCase(e, f, n)
      BY LatticeCases
    <3>2. QED
      BY <1>4, <2>1, <3>1 DEF LatticeCase, AccessNodes
  <2>3. Iterator(e[n].t, e[n].kind) # Dim
    BY <2>1 DEF Iterator, Dim, Kinds
  <2>4. N + 1 - n \in 1 .. N /\ N + 1 - (N + 1 - n) = n
    BY <1>1
  <2>5. f[n][1] \ {Dim} \subseteq f[N][1]
    BY <1>3, <2>4
  <2>6. QED
    BY <2>2, <2>3, <2>5
<1>5. QED
  BY <1>4

(***************************************************************************)
(* The nodes below a node, and the full iterators of its lattice.          *)
(***************************************************************************)
\* The operands of a node come before it.
LEMMA PartsFacts ==
    ASSUME NEW e, e \in Seq(Range(e)), IsExpression(e), NEW n \in 1 .. Len(e)
    PROVE  /\ \A m \in Parts(e[n]) : m \in 1 .. (n - 1)
           /\ e[n].op = "neg" => e[n].a \in Parts(e[n])
           /\ e[n].op \in {"add", "sub", "mul"} =>
                 e[n].a \in Parts(e[n]) /\ e[n].b \in Parts(e[n])
<1>1. IsNode(e[n], n)
  BY ExpressionHasNodes DEF HasNodes
<1>2. CASE e[n] \in AccessNodes
  <2>1. e[n].op = "access"
    BY <1>2 DEF AccessNodes
  <2>2. QED
    BY <2>1 DEF Parts
<1>3. CASE e[n].op \in {"literal", "undefined"}
  BY <1>3 DEF Parts
<1>4. CASE e[n].op = "neg" /\ e[n].a \in 1 .. (n - 1)
  BY <1>4 DEF Parts
<1>5. CASE /\ e[n].op \in {"add", "sub", "mul"}
           /\ e[n].a \in 1 .. (n - 1) /\ e[n].b \in 1 .. (n - 1)
  BY <1>5 DEF Parts
<1>6. QED
  BY <1>1, <1>2, <1>3, <1>4, <1>5 DEF IsNode

\* The nodes below a node are it and those below its operands.
LEMMA BelowFacts ==
    ASSUME NEW e, e \in Seq(Range(e)), IsExpression(e), NEW n \in 1 .. Len(e)
    PROVE  Below(e)[n] = {n} \cup UNION {Below(e)[m] : m \in Parts(e[n])}
<1> DEFINE N == Len(e)
           T == SUBSET (1 .. N)
           F == [1 .. N -> T]
           h(k, f) == {k} \cup UNION {f[m] : m \in Parts(e[k])}
           H == [k \in 1 .. N |-> [f \in F |-> h(k, f)]]
           Rule(b) == b = [k \in DOMAIN e |-> h(k, b)]
<1>1. N \in Nat /\ DOMAIN e = 1 .. N
  BY LenProperties
<1>2. \A k \in 1 .. N : \A m \in Parts(e[k]) : m \in 1 .. (k - 1) /\ m \in 1 .. N
  <2> TAKE k \in 1 .. N
  <2>1. \A m \in Parts(e[k]) : m \in 1 .. (k - 1)
    BY PartsFacts
  <2>2. QED
    BY <1>1, <2>1
<1>3. ASSUME NEW k \in 1 .. N, NEW f \in F PROVE h(k, f) \in T
  <2>1. \A m \in Parts(e[k]) : f[m] \in T
    BY <1>2
  <2>2. QED
    BY <2>1
<1>4. H \in [1 .. N -> [F -> T]]
  <2> HIDE DEF h, F, T
  <2>1. \A k \in 1 .. N : [f \in F |-> h(k, f)] \in [F -> T]
    BY <1>3
  <2>2. QED
    BY <2>1
<1>5. \A k \in 1 .. N : \A f \in F : H[k][f] = h(k, f)
  OBVIOUS
<1>6. \A k \in 1 .. N : \A f, g \in F :
         (\A m \in 1 .. (k - 1) : f[m] = g[m]) => H[k][f] = H[k][g]
  <2> SUFFICES ASSUME NEW k \in 1 .. N, NEW f \in F, NEW g \in F,
                      \A m \in 1 .. (k - 1) : f[m] = g[m]
               PROVE  H[k][f] = H[k][g]
    OBVIOUS
  <2>1. \A m \in Parts(e[k]) : f[m] = g[m]
    BY <1>2
  <2>2. {f[m] : m \in Parts(e[k])} = {g[m] : m \in Parts(e[k])}
    BY <2>1
  <2>3. h(k, f) = h(k, g)
    BY <2>2
  <2> HIDE DEF H, h
  <2>4. QED
    BY <1>5, <2>3
<1> HIDE DEF H
<1>7. PICK f : Recursive(N, T, H, f)
  <2>1. Recursion(N, T, H)
    BY <1>4, <1>6 DEF Recursion
  <2>2. {} \in T
    OBVIOUS
  <2> HIDE DEF T, N
  <2>3. QED
    BY <1>1, <2>1, <2>2, RecursionExists
<1>8. f \in F /\ \A k \in 1 .. N : f[k] = h(k, f)
  BY <1>5, <1>7 DEF Recursive
<1>9. Rule(f)
  <2> HIDE DEF h
  <2>1. QED
    BY <1>1, <1>8
<1>10. Rule(Below(e))
  <2>1. Below(e) = CHOOSE b : Rule(b)
    BY DEF Below
  <2> HIDE DEF Rule
  <2>2. QED
    BY <1>9, <2>1
<1>11. Below(e)[n] = h(n, Below(e))
  <2> HIDE DEF h
  <2>1. QED
    BY <1>1, <1>10
<1>12. QED
  BY <1>11

\* A node and what is below its parts are below it.
LEMMA BelowParts ==
    ASSUME NEW e, e \in Seq(Range(e)), IsExpression(e), NEW n \in 1 .. Len(e)
    PROVE  /\ n \in Below(e)[n]
           /\ \A m \in Parts(e[n]) : Below(e)[m] \subseteq Below(e)[n]
<1>1. Below(e)[n] = {n} \cup UNION {Below(e)[m] : m \in Parts(e[n])}
  BY BelowFacts
<1>2. QED
  BY <1>1

\* A full iterator comes from an access below the node.
LEMMA FullBelow ==
    ASSUME NEW e, e \in Seq(Range(e)), IsExpression(e), NEW f, Lattices(e, f)
    PROVE  \A n \in 1 .. Len(e) :
              (\A k \in Below(e)[n] : ~(e[k].op = "access" /\ e[k].kind = "full"))
              => FullOf(f[n][1]) \subseteq {Dim}
<1> DEFINE N == Len(e)
           I == IteratorsOf(e)
           S == {n \in 1 .. N :
                   (\A k \in Below(e)[n] : ~(e[k].op = "access" /\ e[k].kind = "full"))
                   => FullOf(f[n][1]) \subseteq {Dim}}
<1>1. N \in Nat \ {0} /\ DOMAIN e = 1 .. N
  BY ExpressionHasNodes DEF HasNodes
<1>2. \A k \in 1 .. Len(e) : WellFormed(f[k], I)
  BY DEF Lattices
<1>3. ASSUME NEW n \in 1 .. N, \A m \in 1 .. (n - 1) : m \in S
      PROVE  n \in S
  <2> SUFFICES ASSUME \A k \in Below(e)[n] : ~(e[k].op = "access" /\ e[k].kind = "full")
               PROVE  FullOf(f[n][1]) \subseteq {Dim}
    OBVIOUS
  <2>1. n \in Below(e)[n] /\ \A m \in Parts(e[n]) : Below(e)[m] \subseteq Below(e)[n]
    BY BelowParts
  <2>2. \A m \in Parts(e[n]) : m \in 1 .. (n - 1)
    BY PartsFacts
  <2>3. \A m \in Parts(e[n]) : FullOf(f[m][1]) \subseteq {Dim}
    <3> TAKE m \in Parts(e[n])
    <3>1. m \in S
      BY <1>3, <2>2
    <3>2. \A k \in Below(e)[m] : ~(e[k].op = "access" /\ e[k].kind = "full")
      BY <2>1
    <3>3. QED
      BY <3>1, <3>2
  <2>4. CASE f[n] = <<{Dim}>>
    BY <2>4 DEF FullOf
  <2>5. CASE /\ e[n] \in AccessNodes /\ e[n].op = "access" /\ e[n].kind # "dense"
             /\ f[n] = <<{Iterator(e[n].t, e[n].kind)}>>
    <3>1. e[n].kind # "full" /\ e[n].kind \in Kinds
      BY <2>1, <2>5 DEF AccessNodes
    <3>2. ~IsFull(Iterator(e[n].t, e[n].kind))
      BY <3>1 DEF IsFull, Iterator, Kinds
    <3>3. QED
      BY <2>5, <3>2 DEF FullOf
  <2>6. CASE e[n].op = "neg" /\ f[n] = f[e[n].a]
    BY <2>3, <2>6, PartsFacts
  <2>7. CASE /\ e[n].op \in {"add", "sub"}
             /\ e[n].a \in 1 .. (n - 1) /\ e[n].b \in 1 .. (n - 1)
             /\ f[n] = UnionLattices(f[e[n].a], f[e[n].b])
    <3>1. WellFormed(f[e[n].a], I) /\ WellFormed(f[e[n].b], I)
      BY <1>2, <2>7
    <3> HIDE DEF I
    <3>2. f[n][1] = f[e[n].a][1] \cup f[e[n].b][1]
      BY <2>7, <3>1, UnionFirst
    <3>3. FullOf(f[e[n].a][1]) \subseteq {Dim} /\ FullOf(f[e[n].b][1]) \subseteq {Dim}
      BY <2>3, <2>7, PartsFacts
    <3>4. QED
      BY <3>2, <3>3 DEF FullOf
  <2>8. CASE /\ e[n].op = "mul"
             /\ e[n].a \in 1 .. (n - 1) /\ e[n].b \in 1 .. (n - 1)
             /\ f[n] = IntersectLattices(f[e[n].a], f[e[n].b])
    <3>1. WellFormed(f[e[n].a], I) /\ WellFormed(f[e[n].b], I)
      BY <1>2, <2>8
    <3> HIDE DEF I
    <3>2. f[n][1] = IntersectPoints(f[e[n].a][1], f[e[n].b][1],
                                    LocateFromLeft(f[e[n].a], f[e[n].b]))
      BY <2>8, <3>1, IntersectFirst
    <3>3. FullOf(f[e[n].a][1]) \subseteq {Dim} /\ FullOf(f[e[n].b][1]) \subseteq {Dim}
      BY <2>3, <2>8, PartsFacts
    <3>4. QED
      BY <3>2, <3>3 DEF FullOf, IntersectPoints
  <2>9. LatticeCase(e, f, n)
    BY LatticeCases
  <2>10. QED
    BY <2>4, <2>5, <2>6, <2>7, <2>8, <2>9 DEF LatticeCase
<1>4. \A n \in 1 .. N : n \in S
  <2> HIDE DEF S, N
  <2>1. QED
    BY <1>1, <1>3, NodeInduction
<1>5. QED
  BY <1>4

\* No product below the node has a full level below it.
PlainBelow(e, n) ==
    \A product \in Below(e)[n] : \A k \in Below(e)[product] :
        ~(e[product].op = "mul" /\ e[k].op = "access" /\ e[k].kind = "full")

\* A lattice of one point.
LEMMA SinglePoint ==
    ASSUME NEW p
    PROVE  Points(<<p>>) = {p}
<1> DEFINE lat == <<p>>
<1>1. Len(lat) = 1 /\ lat[1] = p
  OBVIOUS
<1> HIDE DEF lat
<1>2. \A i \in 1 .. Len(lat) : i = 1
  BY <1>1
<1>3. Points(lat) = {p}
  BY <1>1, <1>2 DEF Points
<1>4. QED
  BY <1>3 DEF lat

\* The full iterators of a plain node are in all the points of its lattice.
LEMMA FullPoint ==
    ASSUME NEW e, e \in Seq(Range(e)), IsExpression(e), NEW f, Lattices(e, f)
    PROVE  \A n \in 1 .. Len(e) : PlainBelow(e, n) => AlwaysThere(f[n])
<1> DEFINE N == Len(e)
           I == IteratorsOf(e)
           S == {n \in 1 .. N : PlainBelow(e, n) => AlwaysThere(f[n])}
<1>1. N \in Nat \ {0} /\ DOMAIN e = 1 .. N
  BY ExpressionHasNodes DEF HasNodes
<1>2. \A k \in 1 .. Len(e) : WellFormed(f[k], I)
  BY DEF Lattices
<1>3. ASSUME NEW n \in 1 .. N, \A m \in 1 .. (n - 1) : m \in S
      PROVE  n \in S
  <2> SUFFICES ASSUME PlainBelow(e, n) PROVE AlwaysThere(f[n])
    OBVIOUS
  <2>1. n \in Below(e)[n] /\ \A m \in Parts(e[n]) : Below(e)[m] \subseteq Below(e)[n]
    BY BelowParts
  <2>2. \A m \in Parts(e[n]) : m \in 1 .. (n - 1)
    BY PartsFacts
  <2>3. \A m \in Parts(e[n]) : AlwaysThere(f[m])
    <3> TAKE m \in Parts(e[n])
    <3>1. m \in S
      BY <1>3, <2>2
    <3>2. PlainBelow(e, m)
      BY <2>1 DEF PlainBelow
    <3>3. QED
      BY <3>1, <3>2
  <2>4. ASSUME NEW it, f[n] = <<{it}>> PROVE AlwaysThere(f[n])
    <3> DEFINE p == {it}
    <3>0. Points(<<p>>) = {p} /\ <<p>>[1] = p
      BY SinglePoint
    <3>1. Points(f[n]) = {p} /\ f[n][1] = p
      BY <2>4, <3>0
    <3>2. QED
      BY <3>1 DEF AlwaysThere, FullOf
  <2>5. CASE e[n].op = "neg" /\ f[n] = f[e[n].a]
    BY <2>3, <2>5, PartsFacts
  <2>6. CASE /\ e[n].op \in {"add", "sub"}
             /\ e[n].a \in 1 .. (n - 1) /\ e[n].b \in 1 .. (n - 1)
             /\ f[n] = UnionLattices(f[e[n].a], f[e[n].b])
    <3> DEFINE left == f[e[n].a]
               right == f[e[n].b]
               F == FullOf(left[1] \cup right[1])
    <3>1. WellFormed(left, I) /\ WellFormed(right, I)
      BY <1>2, <2>6
    <3>2. AlwaysThere(left) /\ AlwaysThere(right)
      BY <2>3, <2>6, PartsFacts
    <3> HIDE DEF left, right, I
    <3>3. /\ f[n][1] = left[1] \cup right[1]
          /\ Points(f[n]) = {p \in Unions(left, right) : F \subseteq p}
      <4>1. f[n] = UnionLattices(left, right)
        BY <2>6 DEF left, right
      <4>2. UnionLattices(left, right)[1] = left[1] \cup right[1]
        BY <3>1, UnionFirst
      <4>3. QED
        BY <3>1, <4>1, <4>2, UnionPointsFacts
    <3>4. /\ \A p \in Points(left) : FullOf(left[1]) \subseteq p
          /\ \A p \in Points(right) : FullOf(right[1]) \subseteq p
      BY <3>1, PointFacts
    <3>5. F = FullOf(left[1]) \cup FullOf(right[1])
      BY DEF FullOf
    <3> HIDE DEF F
    <3>6. CASE FullOf(left[1]) # {} /\ FullOf(right[1]) # {}
      <4>1. PICK l \in Points(left) : \A it \in l : IsFull(it)
        BY <3>2, <3>6 DEF AlwaysThere
      <4>2. PICK r \in Points(right) : \A it \in r : IsFull(it)
        BY <3>2, <3>6 DEF AlwaysThere
      <4>3. <<l, r>> \in Points(left) \X Points(right) /\ UnionPoints(l, r) = l \cup r
        BY DEF UnionPoints
      <4>4. l \cup r \in Unions(left, right)
        BY <4>3 DEF Unions, UnitedPoints
      <4>5. l \cup r \in Points(f[n])
        BY <3>3, <3>4, <3>5, <4>4
      <4>6. QED
        BY <4>1, <4>2, <4>5 DEF AlwaysThere
    <3>7. CASE FullOf(left[1]) # {} /\ FullOf(right[1]) = {}
      <4>1. PICK l \in Points(left) : \A it \in l : IsFull(it)
        BY <3>2, <3>7 DEF AlwaysThere
      <4>2. l \in Points(f[n])
        BY <3>3, <3>4, <3>5, <3>7 DEF Unions
      <4>3. QED
        BY <4>1, <4>2 DEF AlwaysThere
    <3>8. CASE FullOf(left[1]) = {} /\ FullOf(right[1]) # {}
      <4>1. PICK r \in Points(right) : \A it \in r : IsFull(it)
        BY <3>2, <3>8 DEF AlwaysThere
      <4>2. r \in Points(f[n])
        BY <3>3, <3>4, <3>5, <3>8 DEF Unions
      <4>3. QED
        BY <4>1, <4>2 DEF AlwaysThere
    <3>9. CASE FullOf(left[1]) = {} /\ FullOf(right[1]) = {}
      BY <3>3, <3>5, <3>9 DEF AlwaysThere, F
    <3>10. QED
      BY <3>6, <3>7, <3>8, <3>9
  <2>7. CASE /\ e[n].op = "mul"
             /\ e[n].a \in 1 .. (n - 1) /\ e[n].b \in 1 .. (n - 1)
             /\ f[n] = IntersectLattices(f[e[n].a], f[e[n].b])
    <3> DEFINE left == f[e[n].a]
               right == f[e[n].b]
               locate == LocateFromLeft(left, right)
    <3>1. WellFormed(left, I) /\ WellFormed(right, I)
      BY <1>2, <2>7
    <3>2. AlwaysThere(left) /\ AlwaysThere(right)
      BY <2>3, <2>7, PartsFacts
    <3>3. FullOf(f[n][1]) \subseteq {Dim}
      <4>1. \A k \in Below(e)[n] : ~(e[k].op = "access" /\ e[k].kind = "full")
        BY <2>1, <2>7 DEF PlainBelow
      <4>2. QED
        BY <4>1, FullBelow
    <3> SUFFICES ASSUME FullOf(f[n][1]) # {}
                 PROVE  \E q \in Points(f[n]) : \A it \in q : IsFull(it)
      BY DEF AlwaysThere
    <3> HIDE DEF left, right, I
    <3>4. /\ f[n][1] = IntersectPoints(left[1], right[1], locate)
          /\ Points(f[n]) = {IntersectPoints(x[1], x[2], locate) :
                                x \in Points(left) \X Points(right)}
      BY <2>7, <3>1, IntersectFirst, IntersectPointsFacts
        DEF left, right, IntersectedPoints
    <3>5. Dim \in IntersectPoints(left[1], right[1], locate)
      BY <3>3, <3>4 DEF FullOf
    <3>6. ~locate /\ Dim \in left[1] /\ Dim \in right[1]
      BY <3>5 DEF IntersectPoints, LocateFromLeft, Iterators
    <3>7. FullOf(left[1]) # {} /\ FullOf(right[1]) # {}
      BY <3>6 DEF FullOf, IsFull, Dim, Iterator
    <3>8. PICK l \in Points(left) : \A it \in l : IsFull(it)
      BY <3>2, <3>7 DEF AlwaysThere
    <3>9. PICK r \in Points(right) : \A it \in r : IsFull(it)
      BY <3>2, <3>7 DEF AlwaysThere
    <3> HIDE DEF locate
    <3>10. IntersectPoints(l, r, locate) \in Points(f[n])
      <4>1. <<l, r>> \in Points(left) \X Points(right)
        OBVIOUS
      <4>2. QED
        BY <3>4, <4>1
    <3>11. \A it \in IntersectPoints(l, r, locate) : IsFull(it)
      BY <3>8, <3>9 DEF IntersectPoints
    <3>12. QED
      BY <3>10, <3>11
  <2>8. LatticeCase(e, f, n)
    BY LatticeCases
  <2>9. QED
    BY <2>4, <2>5, <2>6, <2>7, <2>8 DEF LatticeCase
<1>4. \A n \in 1 .. N : n \in S
  <2> HIDE DEF S, N
  <2>1. QED
    BY <1>1, <1>3, NodeInduction
<1>5. QED
  BY <1>4

\* Without full levels in products of sums, both sides of a sum have a point
\* that is always there if they have full iterators.
LEMMA SumsAlwaysThere ==
    ASSUME NEW e, e \in Seq(Range(e)), IsExpression(e), NEW f, Lattices(e, f),
           ~FullFactor(e), NEW n \in 1 .. Len(e), e[n].op \in {"add", "sub"}
    PROVE  AlwaysThere(f[e[n].a]) /\ AlwaysThere(f[e[n].b])
<1>1. n \in DOMAIN e
  BY ExpressionHasNodes DEF HasNodes
<1>2. PlainBelow(e, n)
  BY <1>1 DEF FullFactor, PlainBelow
<1>3. \A m \in Parts(e[n]) : PlainBelow(e, m) /\ m \in 1 .. Len(e)
  <2>1. \A m \in Parts(e[n]) : Below(e)[m] \subseteq Below(e)[n]
    BY BelowParts
  <2>2. \A m \in Parts(e[n]) : m \in 1 .. (n - 1)
    BY PartsFacts
  <2>3. \A m \in 1 .. (n - 1) : m \in 1 .. Len(e)
    BY <1>1
  <2>4. QED
    BY <1>2, <2>1, <2>2, <2>3 DEF PlainBelow
<1>4. e[n].a \in Parts(e[n]) /\ e[n].b \in Parts(e[n])
  BY PartsFacts
<1>5. QED
  BY <1>3, <1>4, FullPoint

(***************************************************************************)
(* Which nodes have a component, and what their values depend on, if the   *)
(* iterators A have a component.                                           *)
(***************************************************************************)
Some(lat, A) == \E q \in Points(lat) : q \subseteq A

\* The iterators of the points whose iterators all have a component.
Inside(lat, A) == (UNION {q \in Points(lat) : q \subseteq A}) \ {Dim}

\* The iterators of the points of a lattice that lie inside A.
LEMMA InsideElement ==
    ASSUME NEW lat, NEW A, NEW it
    PROVE  it \in Inside(lat, A)
              <=> it # Dim /\ \E q \in Points(lat) : q \subseteq A /\ it \in q
<1> DEFINE Q == {q \in Points(lat) : q \subseteq A}
<1>1. it \in UNION Q <=> \E q \in Q : it \in q
  OBVIOUS
<1>2. it \in Inside(lat, A) <=> it # Dim /\ it \in UNION Q
  BY DEF Inside
<1>3. QED
  BY <1>1, <1>2

\* A lattice whose points cover those of another has their iterators inside A.
LEMMA InsideSubset ==
    ASSUME NEW lat, NEW all, NEW A,
           \A q \in Points(lat) : q \subseteq A =>
              \E p \in Points(all) : q \ {Dim} \subseteq p /\ p \subseteq A
    PROVE  Inside(lat, A) \subseteq Inside(all, A)
<1> SUFFICES ASSUME NEW it \in Inside(lat, A) PROVE it \in Inside(all, A)
  OBVIOUS
<1>1. it # Dim /\ \E q \in Points(lat) : q \subseteq A /\ it \in q
  BY InsideElement
<1>2. PICK q \in Points(lat) : q \subseteq A /\ it \in q
  BY <1>1
<1>3. PICK p \in Points(all) : q \ {Dim} \subseteq p /\ p \subseteq A
  BY <1>2
<1>4. it \in p
  BY <1>1, <1>2, <1>3
<1>5. QED
  BY <1>1, <1>3, <1>4, InsideElement

\* The iterators that always have a component are in A.
HasFull(e, A) == Dim \in A /\ \A it \in IteratorsOf(e) : IsFull(it) => it \in A

\* How this follows from the parts of a node.
SomeCase(e, f, n, A) ==
    LET node == e[n] IN
    \/ /\ node \in AccessNodes /\ node.op = "access" /\ node.kind # "dense"
       /\ Some(f[n], A) <=> Iterator(node.t, node.kind) \in A
       /\ Some(f[n], A) => Iterator(node.t, node.kind) \in Inside(f[n], A)
    \/ /\ node \in AccessNodes /\ node.op = "access" /\ node.kind = "dense"
       /\ Some(f[n], A)
    \/ node.op = "literal" /\ Some(f[n], A)
    \/ /\ node.op = "neg" /\ node.a \in 1 .. (n - 1)
       /\ Some(f[n], A) <=> Some(f[node.a], A)
       /\ Inside(f[node.a], A) \subseteq Inside(f[n], A)
    \/ /\ node.op \in {"add", "sub"}
       /\ node.a \in 1 .. (n - 1) /\ node.b \in 1 .. (n - 1)
       /\ Some(f[n], A) <=> Some(f[node.a], A) \/ Some(f[node.b], A)
       /\ Inside(f[node.a], A) \subseteq Inside(f[n], A)
       /\ Inside(f[node.b], A) \subseteq Inside(f[n], A)
    \/ /\ node.op = "mul"
       /\ node.a \in 1 .. (n - 1) /\ node.b \in 1 .. (n - 1)
       /\ Some(f[n], A) <=> Some(f[node.a], A) /\ Some(f[node.b], A)
       /\ Some(f[n], A) => /\ Inside(f[node.a], A) \subseteq Inside(f[n], A)
                           /\ Inside(f[node.b], A) \subseteq Inside(f[n], A)

\* What the points inside A say of a node, by the node's kind.
LEMMA SomeCases ==
    ASSUME NEW e, e \in Seq(Range(e)), IsExpression(e), NEW f, Lattices(e, f),
           ~FullFactor(e), NEW A, HasFull(e, A), NEW n \in 1 .. Len(e)
    PROVE  SomeCase(e, f, n, A)
<1> DEFINE node == e[n]
           I == IteratorsOf(e)
<1>0. Len(e) \in Nat /\ \A k \in 1 .. Len(e) : WellFormed(f[k], I)
  BY LenProperties DEF Lattices
<1>1. LatticeCase(e, f, n)
  BY LatticeCases
<1>2. CASE /\ node \in AccessNodes /\ node.op = "access" /\ node.kind # "dense"
           /\ f[n] = <<{Iterator(node.t, node.kind)}>>
  <2> DEFINE it == Iterator(node.t, node.kind)
             p == {it}
  <2>1. it # Dim
    BY <1>2 DEF AccessNodes, Kinds, Iterator, Dim
  <2> HIDE DEF it
  <2>2. Points(f[n]) = {p}
    <3> HIDE DEF p
    <3>1. QED
      BY <1>2, SinglePoint DEF it, p
  <2>3. Some(f[n], A) <=> it \in A
    BY <2>2 DEF Some
  <2>4. it \in A => it \in Inside(f[n], A)
    <3>1. it \in A => \E q \in Points(f[n]) : q \subseteq A /\ it \in q
      BY <2>2
    <3>2. QED
      BY <2>1, <3>1, InsideElement
  <2>5. QED
    BY <1>2, <2>3, <2>4 DEF SomeCase, it
<1>3. ASSUME f[n] = <<{Dim}>> PROVE Some(f[n], A)
  <2> DEFINE p == {Dim}
  <2> HIDE DEF p
  <2>1. Points(f[n]) = {p}
    BY <1>3, SinglePoint DEF p
  <2>2. QED
    BY <2>1 DEF Some, HasFull, p
<1>4. CASE node.op = "neg" /\ node.a \in 1 .. (n - 1) /\ f[n] = f[node.a]
  BY <1>4 DEF SomeCase
<1>5. CASE /\ node.op \in {"add", "sub"}
           /\ node.a \in 1 .. (n - 1) /\ node.b \in 1 .. (n - 1)
           /\ f[n] = UnionLattices(f[node.a], f[node.b])
  <2> DEFINE left == f[node.a]
             right == f[node.b]
             united == UnionLattices(left, right)
  <2>1. WellFormed(left, I) /\ WellFormed(right, I)
    BY <1>0, <1>5
  <2>2. AlwaysThere(left) /\ AlwaysThere(right)
    BY <1>5, SumsAlwaysThere
  <2> HIDE DEF left, right
  <2>3. \A it \in I : IsFull(it) => it \in A
    BY DEF HasFull
  <2> HIDE DEF I
  <2>4. /\ \A l \in Points(left) \cup Points(right) : l \subseteq A =>
              \E p \in Points(united) : l \subseteq p /\ p \subseteq A
        /\ \A p \in Points(united) : p \subseteq A =>
              \E l \in Points(left) \cup Points(right) : l \subseteq A
    <3>1. FullOf(I) \subseteq A
      BY <2>3 DEF FullOf
    <3>2. QED
      <4>1. UnionCovers(left, right, united, A)
        BY <2>1, <2>2, <3>1, UnionContains
      <4>2. QED
        BY <4>1 DEF UnionCovers
  <2> HIDE DEF united
  <2>5. Some(united, A) <=> Some(left, A) \/ Some(right, A)
    BY <2>4 DEF Some
  <2>6. Inside(left, A) \subseteq Inside(united, A)
    <3>1. \A q \in Points(left) : q \subseteq A =>
             \E p \in Points(united) : q \ {Dim} \subseteq p /\ p \subseteq A
      BY <2>4
    <3>2. QED
      BY <3>1, InsideSubset
  <2>7. Inside(right, A) \subseteq Inside(united, A)
    <3>1. \A q \in Points(right) : q \subseteq A =>
             \E p \in Points(united) : q \ {Dim} \subseteq p /\ p \subseteq A
      BY <2>4
    <3>2. QED
      BY <3>1, InsideSubset
  <2>8. QED
    BY <1>5, <2>5, <2>6, <2>7 DEF SomeCase, united, left, right
<1>6. CASE /\ node.op = "mul"
           /\ node.a \in 1 .. (n - 1) /\ node.b \in 1 .. (n - 1)
           /\ f[n] = IntersectLattices(f[node.a], f[node.b])
  <2> DEFINE left == f[node.a]
             right == f[node.b]
             both == IntersectLattices(left, right)
  <2>1. WellFormed(left, I) /\ WellFormed(right, I)
    BY <1>0, <1>6
  <2> HIDE DEF left, right
  <2>2. Dim \in A
    BY DEF HasFull
  <2> HIDE DEF I
  <2>3. /\ \A l \in Points(left) : \A r \in Points(right) :
              l \subseteq A /\ r \subseteq A =>
                 \E p \in Points(both) : (l \cup r) \ {Dim} \subseteq p /\ p \subseteq A
        /\ \A p \in Points(both) : p \subseteq A =>
              /\ \E l \in Points(left) : l \subseteq A
              /\ \E r \in Points(right) : r \subseteq A
    BY <2>1, <2>2, IntersectContains
  <2> HIDE DEF both
  <2>4. Some(both, A) <=> Some(left, A) /\ Some(right, A)
    BY <2>3 DEF Some
  <2>5. ASSUME Some(both, A)
        PROVE  /\ Inside(left, A) \subseteq Inside(both, A)
               /\ Inside(right, A) \subseteq Inside(both, A)
    <3>1. PICK l \in Points(left) : l \subseteq A
      BY <2>4, <2>5 DEF Some
    <3>2. PICK r \in Points(right) : r \subseteq A
      BY <2>4, <2>5 DEF Some
    <3>3. \A k \in Points(left) : k \subseteq A =>
             \E p \in Points(both) : k \ {Dim} \subseteq p /\ p \subseteq A
      BY <2>3, <3>2
    <3>4. \A k \in Points(right) : k \subseteq A =>
             \E p \in Points(both) : k \ {Dim} \subseteq p /\ p \subseteq A
      BY <2>3, <3>1
    <3>5. Inside(left, A) \subseteq Inside(both, A)
      BY <3>3, InsideSubset
    <3>6. Inside(right, A) \subseteq Inside(both, A)
      BY <3>4, InsideSubset
    <3>7. QED
      BY <3>5, <3>6
  <2>6. QED
    BY <1>6, <2>4, <2>5 DEF SomeCase, both, left, right
<1>7. CASE node.op = "literal" /\ f[n] = <<{Dim}>>
  BY <1>3, <1>7 DEF SomeCase
<1>8. CASE node \in AccessNodes /\ node.op = "access" /\ node.kind = "dense" /\ f[n] = <<{Dim}>>
  BY <1>3, <1>8 DEF SomeCase
<1>9. QED
  BY <1>1, <1>2, <1>4, <1>5, <1>6, <1>7, <1>8 DEF LatticeCase

\* The nodes that have a component are those with a point in A.
LEMMA PresentNodes ==
    ASSUME NEW e, e \in Seq(Range(e)), IsExpression(e), NEW f, Lattices(e, f),
           ~FullFactor(e), NEW A, HasFull(e, A),
           NEW w, \A n \in 1 .. Len(e) : e[n] \in AccessNodes =>
              (w[n] <=> e[n].kind = "dense" \/ Iterator(e[n].t, e[n].kind) \in A),
           NEW pres \in [1 .. Len(e) -> BOOLEAN],
           \A n \in 1 .. Len(e) : pres[n] = NodePresent(e[n], w[n], pres)
    PROVE  \A n \in 1 .. Len(e) : pres[n] <=> Some(f[n], A)
<1> DEFINE N == Len(e)
           S == {n \in 1 .. N : pres[n] <=> Some(f[n], A)}
<1>1. N \in Nat
  BY LenProperties
<1>2. ASSUME NEW n \in 1 .. N, \A m \in 1 .. (n - 1) : m \in S
      PROVE  n \in S
  <2> DEFINE node == e[n]
  <2>1. pres[n] = NodePresent(node, w[n], pres)
    OBVIOUS
  <2>2. \A m \in 1 .. (n - 1) : pres[m] <=> Some(f[m], A)
    BY <1>2
  <2>3. SomeCase(e, f, n, A)
    BY SomeCases
  <2>4. CASE node.op = "access"
    <3>1. node \in AccessNodes
      BY <2>3, <2>4 DEF SomeCase
    <3>2. Some(f[n], A) <=> w[n]
      BY <2>3, <2>4, <3>1 DEF SomeCase
    <3>3. pres[n] = w[n]
      BY <2>1, <2>4 DEF NodePresent
    <3>4. QED
      BY <3>2, <3>3
  <2>5. CASE node.op = "literal"
    <3>1. pres[n]
      BY <2>1, <2>5 DEF NodePresent
    <3>2. Some(f[n], A)
      BY <2>3, <2>5 DEF SomeCase
    <3>3. QED
      BY <3>1, <3>2
  <2>6. CASE node.op = "neg"
    <3>1. pres[n] = pres[node.a]
      BY <2>1, <2>6 DEF NodePresent
    <3>2. node.a \in 1 .. (n - 1) /\ (Some(f[n], A) <=> Some(f[node.a], A))
      BY <2>3, <2>6 DEF SomeCase
    <3>3. QED
      BY <2>2, <3>1, <3>2
  <2>7. CASE node.op \in {"add", "sub"}
    <3>1. pres[n] = (pres[node.a] \/ pres[node.b])
      BY <2>1, <2>7 DEF NodePresent
    <3>2. /\ node.a \in 1 .. (n - 1) /\ node.b \in 1 .. (n - 1)
          /\ Some(f[n], A) <=> Some(f[node.a], A) \/ Some(f[node.b], A)
      BY <2>3, <2>7 DEF SomeCase
    <3>3. QED
      BY <2>2, <3>1, <3>2
  <2>8. CASE node.op = "mul"
    <3>1. pres[n] = (pres[node.a] /\ pres[node.b])
      BY <2>1, <2>8 DEF NodePresent
    <3>2. /\ node.a \in 1 .. (n - 1) /\ node.b \in 1 .. (n - 1)
          /\ Some(f[n], A) <=> Some(f[node.a], A) /\ Some(f[node.b], A)
      BY <2>3, <2>8 DEF SomeCase
    <3>3. QED
      BY <2>2, <3>1, <3>2
  <2> HIDE DEF S
  <2>9. QED
    BY <2>3, <2>4, <2>5, <2>6, <2>7, <2>8 DEF SomeCase
<1>3. \A n \in 1 .. N : n \in S
  <2> HIDE DEF S, N
  <2>1. QED
    BY <1>1, <1>2, NodeInduction
<1>4. QED
  BY <1>3

\* V leaves out operands of X that are not in a point of lat inside A; those
\* outside A are zero.
OperandsAgree(e, lat, A, V, X) ==
    \A n \in 1 .. Len(e) : e[n] \in AccessNodes =>
        /\ V[e[n]] = X[e[n]] \/ V[e[n]] = 0
        /\ e[n].kind = "dense" => V[e[n]] = X[e[n]]
        /\ e[n].kind # "dense" =>
              LET it == Iterator(e[n].t, e[n].kind)
              IN  /\ it \notin A => X[e[n]] = 0
                  /\ it \in Inside(lat, A) => V[e[n]] = X[e[n]]

\* Without a component the value is 0; otherwise it depends on the iterators of
\* the points in A only.
LEMMA ValuesInside ==
    ASSUME NEW e, e \in Seq(Range(e)), IsExpression(e), NEW f, Lattices(e, f),
           ~FullFactor(e), NEW A, HasFull(e, A),
           NEW V \in [AccessNodes -> Int], NEW X \in [AccessNodes -> Int],
           OperandsAgree(e, f[Len(e)], A, V, X),
           NEW v, Valued(e, Len(e), V, v), NEW x, Valued(e, Len(e), X, x)
    PROVE  v[Len(e)] = x[Len(e)]
<1> DEFINE N == Len(e)
           Top == Inside(f[N], A)
           S == {n \in 1 .. N :
                   /\ ~Some(f[n], A) => v[n] = 0 /\ x[n] = 0
                   /\ Inside(f[n], A) \subseteq Top => v[n] = x[n]}
<1>1. N \in Nat \ {0} /\ HasNodes(e, N)
  BY ExpressionHasNodes
<1>2. ASSUME NEW n \in 1 .. N, \A m \in 1 .. (n - 1) : m \in S
      PROVE  n \in S
  <2> DEFINE node == e[n]
  <2> HIDE DEF Top
  <2>1. \A m \in 1 .. (n - 1) :
           /\ ~Some(f[m], A) => v[m] = 0 /\ x[m] = 0
           /\ Inside(f[m], A) \subseteq Top => v[m] = x[m]
    BY <1>2
  <2>2. SomeCase(e, f, n, A)
    BY SomeCases
  <2>3. /\ v[n] \in Int
        /\ node \in AccessNodes => v[n] = V[node]
        /\ node.op = "neg" => v[n] = 0 - v[node.a] /\ v[node.a] \in Int
        /\ node.op = "literal" => v[n] = 2
        /\ node.op \in {"add", "sub", "mul"} => v[node.a] \in Int /\ v[node.b] \in Int
        /\ node.op = "add" => v[n] = v[node.a] + v[node.b]
        /\ node.op = "sub" => v[n] = v[node.a] - v[node.b]
        /\ node.op = "mul" => v[n] = v[node.a] * v[node.b]
    <3>1. N \in Nat /\ n \in 1 .. N /\ node = e[n] /\ Valued(e, N, V, v)
      BY <1>1
    <3> HIDE DEF N, node
    <3>2. QED
      BY <1>1, <3>1, ValuedCases
  <2>4. /\ x[n] \in Int
        /\ node \in AccessNodes => x[n] = X[node]
        /\ node.op = "neg" => x[n] = 0 - x[node.a] /\ x[node.a] \in Int
        /\ node.op = "literal" => x[n] = 2
        /\ node.op \in {"add", "sub", "mul"} => x[node.a] \in Int /\ x[node.b] \in Int
        /\ node.op = "add" => x[n] = x[node.a] + x[node.b]
        /\ node.op = "sub" => x[n] = x[node.a] - x[node.b]
        /\ node.op = "mul" => x[n] = x[node.a] * x[node.b]
    <3>1. N \in Nat /\ n \in 1 .. N /\ node = e[n] /\ Valued(e, N, X, x)
      BY <1>1
    <3> HIDE DEF N, node
    <3>2. QED
      BY <1>1, <3>1, ValuedCases
  <2>5. CASE node \in AccessNodes /\ node.kind # "dense"
    <3> DEFINE it == Iterator(node.t, node.kind)
    <3>1. /\ V[node] = X[node] \/ V[node] = 0
          /\ it \notin A => X[node] = 0
          /\ it \in Top => V[node] = X[node]
      BY <2>5 DEF Top, OperandsAgree
    <3>2. /\ Some(f[n], A) <=> it \in A
          /\ Some(f[n], A) => it \in Inside(f[n], A)
      <4>1. node.op = "access"
        BY <2>5 DEF AccessNodes
      <4>2. QED
        BY <2>2, <2>5, <4>1 DEF SomeCase
    <3> HIDE DEF it
    <3>3. QED
      BY <2>3, <2>4, <2>5, <3>1, <3>2
  <2>6. CASE node \in AccessNodes /\ node.kind = "dense"
    <3>1. Some(f[n], A)
      <4>1. node.op = "access"
        BY <2>6 DEF AccessNodes
      <4>2. QED
        BY <2>2, <2>6, <4>1 DEF SomeCase
    <3>2. V[node] = X[node]
      BY <2>6 DEF OperandsAgree
    <3>3. QED
      BY <2>3, <2>4, <2>6, <3>1, <3>2
  <2>7. CASE node.op = "literal"
    <3>1. Some(f[n], A)
      BY <2>2, <2>7 DEF SomeCase
    <3>2. QED
      BY <2>3, <2>4, <2>7, <3>1
  <2>8. CASE node.op = "neg"
    <3>1. /\ node.a \in 1 .. (n - 1)
          /\ Some(f[n], A) <=> Some(f[node.a], A)
          /\ Inside(f[node.a], A) \subseteq Inside(f[n], A)
      BY <2>2, <2>8 DEF SomeCase
    <3>2. v[n] = 0 - v[node.a] /\ x[n] = 0 - x[node.a]
      BY <2>3, <2>4, <2>8
    <3>3. /\ ~Some(f[node.a], A) => v[node.a] = 0 /\ x[node.a] = 0
          /\ Inside(f[node.a], A) \subseteq Top => v[node.a] = x[node.a]
      BY <2>1, <3>1
    <3>4. QED
      BY <3>1, <3>2, <3>3
  <2>9. CASE node.op \in {"add", "sub"}
    <3>1. /\ node.a \in 1 .. (n - 1) /\ node.b \in 1 .. (n - 1)
          /\ Some(f[n], A) <=> Some(f[node.a], A) \/ Some(f[node.b], A)
          /\ Inside(f[node.a], A) \subseteq Inside(f[n], A)
          /\ Inside(f[node.b], A) \subseteq Inside(f[n], A)
      BY <2>2, <2>9 DEF SomeCase
    <3>2. /\ ~Some(f[node.a], A) => v[node.a] = 0 /\ x[node.a] = 0
          /\ Inside(f[node.a], A) \subseteq Top => v[node.a] = x[node.a]
          /\ ~Some(f[node.b], A) => v[node.b] = 0 /\ x[node.b] = 0
          /\ Inside(f[node.b], A) \subseteq Top => v[node.b] = x[node.b]
      BY <2>1, <3>1
    <3>3. /\ v[node.a] = 0 /\ v[node.b] = 0 => v[n] = 0
          /\ x[node.a] = 0 /\ x[node.b] = 0 => x[n] = 0
          /\ v[node.a] = x[node.a] /\ v[node.b] = x[node.b] => v[n] = x[n]
      <4>1. CASE node.op = "add"
        <5>1. v[n] = v[node.a] + v[node.b] /\ x[n] = x[node.a] + x[node.b]
          BY <2>3, <2>4, <4>1
        <5>2. QED
          BY <5>1
      <4>2. CASE node.op = "sub"
        <5>1. v[n] = v[node.a] - v[node.b] /\ x[n] = x[node.a] - x[node.b]
          BY <2>3, <2>4, <4>2
        <5>2. QED
          BY <5>1
      <4>3. QED
        BY <2>9, <4>1, <4>2
    <3>4. QED
      BY <3>1, <3>2, <3>3
  <2>10. CASE node.op = "mul"
    <3>1. /\ node.a \in 1 .. (n - 1) /\ node.b \in 1 .. (n - 1)
          /\ Some(f[n], A) <=> Some(f[node.a], A) /\ Some(f[node.b], A)
          /\ Some(f[n], A) => /\ Inside(f[node.a], A) \subseteq Inside(f[n], A)
                              /\ Inside(f[node.b], A) \subseteq Inside(f[n], A)
      BY <2>2, <2>10 DEF SomeCase
    <3>2. /\ ~Some(f[node.a], A) => v[node.a] = 0 /\ x[node.a] = 0
          /\ Inside(f[node.a], A) \subseteq Top => v[node.a] = x[node.a]
          /\ ~Some(f[node.b], A) => v[node.b] = 0 /\ x[node.b] = 0
          /\ Inside(f[node.b], A) \subseteq Top => v[node.b] = x[node.b]
      BY <2>1, <3>1
    <3>3. /\ v[node.a] = 0 \/ v[node.b] = 0 => v[n] = 0
          /\ x[node.a] = 0 \/ x[node.b] = 0 => x[n] = 0
          /\ v[node.a] = x[node.a] /\ v[node.b] = x[node.b] => v[n] = x[n]
      <4>1. \A i \in Int : 0 * i = 0 /\ i * 0 = 0
        OBVIOUS
      <4>2. /\ v[n] = v[node.a] * v[node.b] /\ v[node.a] \in Int /\ v[node.b] \in Int
            /\ x[n] = x[node.a] * x[node.b] /\ x[node.a] \in Int /\ x[node.b] \in Int
        BY <2>3, <2>4, <2>10
      <4>3. QED
        BY <4>1, <4>2
    <3>4. QED
      BY <3>1, <3>2, <3>3
  <2> HIDE DEF S
  <2>11. QED
    BY <2>2, <2>5, <2>6, <2>7, <2>8, <2>9, <2>10 DEF SomeCase
<1>3. \A n \in 1 .. N : n \in S
  <2> HIDE DEF S, N
  <2>1. QED
    BY <1>1, <1>2, NodeInduction
<1>4. N \in S
  BY <1>1, <1>3
<1>5. QED
  BY <1>4

(***************************************************************************)
(* Where the reference has a component, and its value.                     *)
(***************************************************************************)
\* The iterators that have a component at c.
Having(c) ==
    {it \in IteratorsOf(expr) :
        it = Dim \/ \E i \in 1 .. Len(levels[it.t]) : levels[it.t][i] = c}

\* Iterators that are full have one everywhere.
LEMMA HavingFull ==
    ASSUME Typed, NEW c \in Coordinates
    PROVE  HasFull(expr, Having(c))
<1>1. Dim \in Having(c)
  BY DEF Having, IteratorsOf
<1>2. ASSUME NEW it \in IteratorsOf(expr), IsFull(it) PROVE it \in Having(c)
  <2>1. CASE it = Dim
    BY <1>1, <2>1
  <2>2. CASE it # Dim
    <3>1. /\ Len(levels[it.t]) = Dimension
          /\ \A i \in 1 .. Len(levels[it.t]) : levels[it.t][i] = i - 1
      BY <1>2, <2>2, LoadedFacts
    <3>2. c + 1 \in 1 .. Len(levels[it.t]) /\ (c + 1) - 1 = c
      BY <3>1, LoopAssumption DEF Coordinates
    <3>3. levels[it.t][c + 1] = c
      BY <3>1, <3>2
    <3>4. QED
      BY <3>2, <3>3 DEF Having
  <2>3. QED
    BY <2>1, <2>2
<1>3. QED
  BY <1>1, <1>2 DEF HasFull

\* The facts about the operand of an access of the expression.
LEMMA AccessFacts ==
    ASSUME Typed, NEW n \in 1 .. Len(expr), expr[n] \in AccessNodes
    PROVE  /\ expr[n].t \in Operands /\ expr[n].kind = KindOf(expr, expr[n].t)
           /\ expr[n].op = "access" /\ expr[n].kind \in Kinds
           /\ levels[expr[n].t] \in Patterns[expr[n].kind]
           /\ DOMAIN levels[expr[n].t] = 1 .. Len(levels[expr[n].t])
           /\ Len(levels[expr[n].t]) \in Nat
           /\ expr[n].kind # "dense" =>
                 Iterator(expr[n].t, expr[n].kind) \in IteratorsOf(expr)
<1>1. IsExpression(expr) /\ expr \in Seq(Range(expr)) /\ DOMAIN expr = 1 .. Len(expr)
  BY LatticeFacts
<1> DEFINE t == expr[n].t
           Q(m) == expr[m].op = "access" /\ expr[m].t = t
<1>2. t \in Operands /\ expr[n].kind \in Kinds /\ expr[n].op = "access"
  BY DEF AccessNodes
<1>3. PICK k \in DOMAIN expr : Q(k) /\ KindOf(expr, t) = expr[k].kind
  <2>1. n \in DOMAIN expr /\ Q(n)
    BY <1>1, <1>2
  <2>2. KindOf(expr, t) = expr[CHOOSE m \in DOMAIN expr : Q(m)].kind
    BY <2>1 DEF KindOf
  <2>3. QED
    BY <2>1, <2>2
<1>4. k = n
  BY <1>1, <1>2, <1>3 DEF IsExpression
<1>5. levels[t] \in Patterns[expr[n].kind]
  BY <1>2, <1>3, <1>4 DEF Typed
<1>6. Len(levels[t]) \in Nat
  BY <1>2, <1>5, LevelFacts
<1>7. DOMAIN levels[t] = 1 .. Len(levels[t])
  <2>1. \A k2 \in Kinds : \A s \in Patterns[k2] : s = All \/ \E max \in Nat : s \in Lists(max)
    BY LoopAssumption DEF Patterns, Kinds
  <2>2. levels[t] = All \/ \E max \in Nat : levels[t] \in Lists(max)
    BY <1>2, <1>5, <2>1
  <2>3. \E m \in Nat : DOMAIN levels[t] = 1 .. m
    <3>1. CASE levels[t] = All
      BY <3>1, LoopAssumption DEF All
    <3>2. CASE \E max \in Nat : levels[t] \in Lists(max)
      BY <3>2 DEF Lists
    <3>3. QED
      BY <2>2, <3>1, <3>2
  <2>4. QED
    BY <1>6, <2>3
<1>8. expr[n].kind # "dense" => Iterator(t, expr[n].kind) \in IteratorsOf(expr)
  BY <1>1, <1>2 DEF IteratorsOf
<1>9. QED
  BY <1>2, <1>3, <1>4, <1>5, <1>6, <1>7, <1>8

\* Whether a node has a component depends on its operands only.
LEMMA NodePresentAgrees ==
    ASSUME NEW e, IsExpression(e), NEW n \in DOMAIN e, NEW x \in BOOLEAN,
           NEW f, NEW g,
           \A m \in 1 .. (n - 1) : f[m] = g[m] /\ f[m] \in BOOLEAN
    PROVE  /\ NodePresent(e[n], x, f) = NodePresent(e[n], x, g)
           /\ NodePresent(e[n], x, f) \in BOOLEAN
<1>1. CASE e[n].op = "access"
  BY <1>1 DEF NodePresent
<1>2. CASE e[n].op = "literal"
  BY <1>2 DEF NodePresent
<1>3. CASE e[n].op = "neg" /\ e[n].a \in 1 .. (n - 1)
  BY <1>3 DEF NodePresent
<1>4. CASE /\ e[n].op \in {"add", "sub", "mul"}
           /\ e[n].a \in 1 .. (n - 1) /\ e[n].b \in 1 .. (n - 1)
  <2>1. /\ f[e[n].a] = g[e[n].a] /\ f[e[n].a] \in BOOLEAN
        /\ f[e[n].b] = g[e[n].b] /\ f[e[n].b] \in BOOLEAN
    BY <1>4
  <2>2. CASE e[n].op \in {"add", "sub"}
    BY <2>1, <2>2 DEF NodePresent
  <2>3. CASE e[n].op = "mul"
    BY <2>1, <2>3 DEF NodePresent
  <2>4. QED
    BY <1>4, <2>2, <2>3
<1>5. QED
  BY <1>1, <1>2, <1>3, <1>4, NodeCases

\* What the reference computes.
LEMMA PresentFacts ==
    ASSUME NEW e, e \in Seq(Range(e)), IsExpression(e), NEW c
    PROVE  \E w : \E present \in [1 .. Len(e) -> BOOLEAN] :
              /\ \A n \in 1 .. Len(e) : w[n] <=> c \in Range(levels[e[n].t])
              /\ \A n \in 1 .. Len(e) : present[n] = NodePresent(e[n], w[n], present)
              /\ Present(e, c) = present[Len(e)]
<1> DEFINE N == Len(e)
           x(n) == c \in Range(levels[e[n].t])
           w == [n \in 1 .. N |-> x(n)]
           F == [1 .. N -> BOOLEAN]
           H == [n \in 1 .. N |-> [f \in F |-> NodePresent(e[n], w[n], f)]]
           Rule(f) == f = [n \in 1 .. N |-> NodePresent(e[n], w[n], f)]
           chosen == CHOOSE f : Rule(f)
<1>1. N \in Nat \ {0} /\ DOMAIN e = 1 .. N
  BY BuildLattices
<1>2. /\ \A n \in 1 .. N : x(n) \in BOOLEAN
      /\ \A n \in 1 .. N : w[n] = x(n)
  OBVIOUS
<1> HIDE DEF x
<1>3. \A n \in 1 .. N : w[n] \in BOOLEAN
  BY <1>2
<1> HIDE DEF w
<1>4. ASSUME NEW n \in 1 .. N, NEW f \in F, NEW g \in F,
             \A m \in 1 .. (n - 1) : f[m] = g[m]
      PROVE  /\ NodePresent(e[n], w[n], f) = NodePresent(e[n], w[n], g)
             /\ NodePresent(e[n], w[n], f) \in BOOLEAN
  <2>1. \A m \in 1 .. (n - 1) : f[m] = g[m] /\ f[m] \in BOOLEAN
    BY <1>1, <1>4
  <2>2. n \in DOMAIN e /\ w[n] \in BOOLEAN
    BY <1>1, <1>3
  <2> HIDE DEF N, F
  <2>3. QED
    BY <2>1, <2>2, NodePresentAgrees
<1>5. \E f : Rule(f)
  <2>1. Recursion(N, BOOLEAN, H)
    <3>1. \A n \in 1 .. N : \A f \in F : NodePresent(e[n], w[n], f) \in BOOLEAN
      BY <1>4
    <3> DEFINE h(n, f) == NodePresent(e[n], w[n], f)
    <3>2. \A n \in 1 .. N : \A f \in F : h(n, f) \in BOOLEAN
      BY <3>1
    <3>3. \A n \in 1 .. N : \A f, g \in F :
             (\A m \in 1 .. (n - 1) : f[m] = g[m]) => h(n, f) = h(n, g)
      BY <1>4
    <3> HIDE DEF h, F
    <3>4. \A n \in 1 .. N : [f \in F |-> h(n, f)] \in [F -> BOOLEAN]
      BY <3>2
    <3>5. [n \in 1 .. N |-> [f \in F |-> h(n, f)]] \in [1 .. N -> [F -> BOOLEAN]]
      BY <3>4
    <3>6. H = [n \in 1 .. N |-> [f \in F |-> h(n, f)]]
      BY DEF h
    <3> HIDE DEF H
    <3>7. \A n \in 1 .. N : \A f \in F : H[n][f] = h(n, f)
      BY <3>6
    <3>8. H \in [1 .. N -> [F -> BOOLEAN]]
      BY <3>5, <3>6
    <3>9. \A n \in 1 .. N : \A f, g \in F :
             (\A m \in 1 .. (n - 1) : f[m] = g[m]) => H[n][f] = H[n][g]
      BY <3>3, <3>7
    <3> HIDE DEF N
    <3>10. QED
      BY <3>8, <3>9 DEF Recursion, F
  <2>2. BOOLEAN # {} /\ N \in Nat
    BY <1>1
  <2> HIDE DEF H, N
  <2>3. PICK f : Recursive(N, BOOLEAN, H, f)
    BY <2>1, <2>2, RecursionExists
  <2>4. f \in F /\ \A n \in 1 .. N : f[n] = H[n][f]
    BY <2>3 DEF Recursive
  <2>5. \A n \in 1 .. N : H[n][f] = NodePresent(e[n], w[n], f)
    BY <2>4 DEF H
  <2>6. Rule(f)
    BY <2>4, <2>5
  <2>7. QED
    BY <2>6
<1>6. Rule(chosen)
  BY <1>5
<1>7. Present(e, c) = chosen[N]
  <2>1. \A f : Rule(f)
           <=> f = [n \in DOMAIN e |-> NodePresent(e[n], x(n), f)]
    BY <1>1, <1>2
  <2>2. chosen = CHOOSE f : f = [n \in DOMAIN e |-> NodePresent(e[n], x(n), f)]
    <3> HIDE DEF Rule
    <3>1. QED
      BY <2>1
  <2>3. QED
    BY <2>2 DEF Present, x
<1> HIDE DEF chosen
<1>8. \A n \in 1 .. N : chosen[n] = NodePresent(e[n], w[n], chosen)
  BY <1>6
<1> DEFINE S == {n \in 1 .. N : chosen[n] \in BOOLEAN}
<1>9. \A n \in 1 .. N : n \in S
  <2>1. ASSUME NEW n \in 1 .. N, \A m \in 1 .. (n - 1) : m \in S
        PROVE  n \in S
    <3>1. \A m \in 1 .. (n - 1) : chosen[m] = chosen[m] /\ chosen[m] \in BOOLEAN
      BY <2>1
    <3>2. n \in DOMAIN e /\ w[n] \in BOOLEAN
      BY <1>1, <1>3
    <3>3. NodePresent(e[n], w[n], chosen) \in BOOLEAN
      BY <3>1, <3>2, NodePresentAgrees
    <3>4. QED
      BY <1>8, <3>3
  <2> HIDE DEF S, N
  <2>2. N \in Nat
    BY <1>1
  <2>3. QED
    BY <2>1, <2>2, NodeInduction
<1>10. chosen \in [1 .. N -> BOOLEAN]
  BY <1>6, <1>9
<1>11. \A n \in 1 .. N : w[n] <=> c \in Range(levels[e[n].t])
  BY <1>2 DEF x
<1>12. QED
  BY <1>7, <1>8, <1>10, <1>11

\* The expression is present where some point of its lattice has components.
LEMMA PresentSome ==
    ASSUME Typed, ~FullFactor(expr), NEW c \in Coordinates
    PROVE  Present(expr, c) <=> Some(lattice, Having(c))
<1> DEFINE A == Having(c)
           N == Len(expr)
<1>1. expr \in Seq(Range(expr)) /\ IsExpression(expr)
  BY LatticeFacts
<1>2. PICK f : Lattices(expr, f) /\ Build(expr) = f[N]
  BY <1>1, BuildLattices
<1>3. PICK w : \E present \in [1 .. N -> BOOLEAN] :
              /\ \A n \in 1 .. N : w[n] <=> c \in Range(levels[expr[n].t])
              /\ \A n \in 1 .. N : present[n] = NodePresent(expr[n], w[n], present)
              /\ Present(expr, c) = present[N]
  BY <1>1, PresentFacts
<1>4. PICK present \in [1 .. N -> BOOLEAN] :
              /\ \A n \in 1 .. N : w[n] <=> c \in Range(levels[expr[n].t])
              /\ \A n \in 1 .. N : present[n] = NodePresent(expr[n], w[n], present)
              /\ Present(expr, c) = present[N]
  BY <1>3
<1>5. HasFull(expr, A)
  BY HavingFull
<1>6. ASSUME NEW n \in 1 .. N, expr[n] \in AccessNodes
      PROVE  w[n] <=> expr[n].kind = "dense"
                       \/ Iterator(expr[n].t, expr[n].kind) \in A
  <2> DEFINE t == expr[n].t
  <2>1. /\ DOMAIN levels[t] = 1 .. Len(levels[t]) /\ t \in Operands
        /\ levels[t] \in Patterns[expr[n].kind]
    BY <1>6, AccessFacts
  <2>2. w[n] <=> \E i \in 1 .. Len(levels[t]) : levels[t][i] = c
    BY <1>4, <2>1 DEF Range
  <2>3. CASE expr[n].kind = "dense"
    <3>1. levels[t] = [i \in 1 .. Dimension |-> i - 1]
      BY <2>1, <2>3 DEF Patterns, Kinds, All
    <3>2. Len(levels[t]) = Dimension /\ c + 1 \in 1 .. Dimension /\ (c + 1) - 1 = c
      BY <3>1, LoopAssumption DEF Coordinates
    <3>3. QED
      BY <2>2, <2>3, <3>1, <3>2
  <2>4. CASE expr[n].kind # "dense"
    <3>1. Iterator(t, expr[n].kind) \in IteratorsOf(expr)
      BY <1>6, <2>4, AccessFacts
    <3>2. Iterator(t, expr[n].kind) # Dim /\ Iterator(t, expr[n].kind).t = t
      BY <1>1, <2>1, IteratorFacts DEF Iterator, Dim
    <3>3. QED
      BY <2>2, <2>4, <3>1, <3>2 DEF Having
  <2>5. QED
    BY <2>3, <2>4
<1> HIDE DEF A
<1>7. \A n \in 1 .. N : present[n] <=> Some(f[n], A)
  <2> HIDE DEF N
  <2>1. \A n \in 1 .. N : present[n] = NodePresent(expr[n], w[n], present)
    BY <1>4
  <2>2. \A n \in 1 .. N : expr[n] \in AccessNodes =>
           (w[n] <=> expr[n].kind = "dense"
                       \/ Iterator(expr[n].t, expr[n].kind) \in A)
    BY <1>6
  <2>3. QED
    BY <1>1, <1>2, <1>5, <2>1, <2>2, PresentNodes DEF N
<1>8. N \in 1 .. N
  <2>1. N \in Nat \ {0}
    BY <1>1, BuildLattices
  <2>2. QED
    BY <2>1
<1>9. Present(expr, c) <=> Some(f[N], A)
  BY <1>4, <1>7, <1>8
<1>10. lattice = f[N]
  BY <1>2 DEF Typed
<1>11. QED
  BY <1>9, <1>10 DEF A

\* A list whose neighbours are in order is in order.
LEMMA Ascending ==
    ASSUME NEW s, Len(s) \in Nat, \A i \in 1 .. Len(s) : s[i] \in Nat
    PROVE  /\ (\A i \in 1 .. Len(s) - 1 : s[i] <= s[i + 1]) =>
                 \A i, j \in 1 .. Len(s) : i <= j => s[i] <= s[j]
           /\ (\A i \in 1 .. Len(s) - 1 : s[i] < s[i + 1]) =>
                 \A i, j \in 1 .. Len(s) : i < j => s[i] < s[j]
<1>1. ASSUME \A i \in 1 .. Len(s) - 1 : s[i] <= s[i + 1]
      PROVE  \A i, j \in 1 .. Len(s) : i <= j => s[i] <= s[j]
  <2> DEFINE S == {n \in Nat : \A i \in 1 .. Len(s) :
                      i + n \in 1 .. Len(s) => s[i] <= s[i + n]}
  <2>1. 0 \in S
    OBVIOUS
  <2>2. ASSUME NEW n \in Nat, n \in S PROVE n + 1 \in S
    <3>1. ASSUME NEW i \in 1 .. Len(s), i + (n + 1) \in 1 .. Len(s)
          PROVE  s[i] <= s[i + (n + 1)]
      <4>1. i + n \in 1 .. Len(s) - 1 /\ (i + n) + 1 = i + (n + 1)
            /\ i + n \in 1 .. Len(s)
        BY <3>1
      <4>2. s[i] <= s[i + n]
        BY <2>2, <4>1
      <4>3. s[i + n] <= s[(i + n) + 1]
        BY <1>1, <4>1
      <4>4. s[i] \in Nat /\ s[i + n] \in Nat /\ s[i + (n + 1)] \in Nat
        BY <3>1, <4>1
      <4>5. QED
        BY <4>1, <4>2, <4>3, <4>4
    <3>2. QED
      BY <3>1
  <2>3. Nat \subseteq S
    <3> HIDE DEF S
    <3>1. QED
      BY <2>1, <2>2, SetInduction
  <2>4. ASSUME NEW i \in 1 .. Len(s), NEW j \in 1 .. Len(s), i <= j
        PROVE  s[i] <= s[j]
    <3>1. j - i \in Nat /\ i + (j - i) = j
      BY <2>4
    <3>2. QED
      BY <2>3, <3>1
  <2>5. QED
    BY <2>4
<1>2. ASSUME \A i \in 1 .. Len(s) - 1 : s[i] < s[i + 1]
      PROVE  \A i, j \in 1 .. Len(s) : i < j => s[i] < s[j]
  <2>1. \A i \in 1 .. Len(s) - 1 : s[i] <= s[i + 1]
    <3> TAKE i \in 1 .. Len(s) - 1
    <3>1. i \in 1 .. Len(s) /\ i + 1 \in 1 .. Len(s)
      OBVIOUS
    <3>2. QED
      BY <1>2, <3>1
  <2>2. ASSUME NEW i \in 1 .. Len(s), NEW j \in 1 .. Len(s), i < j
        PROVE  s[i] < s[j]
    <3>1. /\ i \in 1 .. Len(s) - 1 /\ i + 1 \in 1 .. Len(s) /\ i + 1 <= j
          /\ s[i] \in Nat /\ s[i + 1] \in Nat /\ s[j] \in Nat
      BY <2>2
    <3>2. s[i] < s[i + 1] /\ s[i + 1] <= s[j]
      BY <1>1, <1>2, <2>1, <3>1
    <3>3. QED
      BY <3>1, <3>2
  <2>3. QED
    BY <2>2
<1>3. QED
  BY <1>1, <1>2

\* The components of an operand at a coordinate.
LEMMA ComponentFacts ==
    ASSUME Typed, NEW c \in Coordinates,
           NEW n \in 1 .. Len(expr), expr[n] \in AccessNodes
    PROVE  /\ Total(expr[n].t, ComponentsAt(expr[n], c)) \in Int
           /\ expr[n].kind = "dense" =>
                 Total(expr[n].t, ComponentsAt(expr[n], c)) = Value(expr[n].t, c)
           /\ expr[n].kind # "dense"
              /\ Iterator(expr[n].t, expr[n].kind) \notin Having(c) =>
                 Total(expr[n].t, ComponentsAt(expr[n], c)) = 0
<1> DEFINE t == expr[n].t
           K == ComponentsAt(expr[n], c)
<1>1. /\ DOMAIN levels[t] = 1 .. Len(levels[t]) /\ t \in Operands
      /\ levels[t] \in Patterns[expr[n].kind] /\ Len(levels[t]) \in Nat
      /\ expr[n].kind \in Kinds
  BY AccessFacts
<1>2. K = {i \in 1 .. Len(levels[t]) : levels[t][i] = c}
  BY <1>1 DEF ComponentsAt
<1>3. IsFiniteSet(K)
  <2>1. Len(levels[t]) \in Int /\ 1 \in Int
    BY <1>1
  <2>2. IsFiniteSet(1 .. Len(levels[t]))
    BY <2>1, FS_Interval
  <2>3. QED
    BY <1>2, <2>2, FS_Subset
<1>4. t \in Nat /\ c \in Nat
  <2>1. t \in Operands
    BY <1>1
  <2> HIDE DEF t
  <2>2. t \in Nat
    BY <2>1, LoopAssumption
  <2>3. c \in Nat
    BY LoopAssumption DEF Coordinates
  <2>4. QED
    BY <2>2, <2>3
<1>5. \A i \in K : Value(t, levels[t][i]) \in Int
  BY <1>2, <1>4 DEF Value
<1> HIDE DEF K
<1>6. /\ Total(t, K) \in Int
      /\ K = {} => Total(t, K) = 0
      /\ \A i : K = {i} => Total(t, K) = Value(t, levels[t][i])
  BY <1>3, <1>5, TotalFacts
<1>7. expr[n].kind = "dense" => Total(t, K) = Value(t, c)
  <2>1. HAVE expr[n].kind = "dense"
  <2>2. levels[t] = [i \in 1 .. Dimension |-> i - 1]
    BY <1>1, <2>1 DEF Patterns, Kinds, All
  <2>3. Len(levels[t]) = Dimension /\ c + 1 \in 1 .. Dimension
    BY <2>2, LoopAssumption DEF Coordinates
  <2>4. \A i \in 1 .. Dimension : levels[t][i] = c <=> i = c + 1
    <3>1. \A i \in 1 .. Dimension : i - 1 = c <=> i = c + 1
      BY <1>4
    <3>2. QED
      BY <2>2, <3>1
  <2>5. K = {c + 1} /\ levels[t][c + 1] = c
    BY <1>2, <2>3, <2>4
  <2>6. QED
    BY <1>6, <2>5
<1>8. expr[n].kind # "dense" /\ Iterator(t, expr[n].kind) \notin Having(c)
      => Total(t, K) = 0
  <2>1. HAVE expr[n].kind # "dense" /\ Iterator(t, expr[n].kind) \notin Having(c)
  <2>2. Iterator(t, expr[n].kind) \in IteratorsOf(expr)
    BY <2>1, AccessFacts
  <2>3. \A i \in 1 .. Len(levels[t]) : levels[t][i] # c
    BY <2>1, <2>2 DEF Having, Iterator
  <2>4. K = {}
    BY <1>2, <2>3
  <2>5. QED
    BY <1>6, <2>4
<1>9. QED
  BY <1>6, <1>7, <1>8 DEF K

(***************************************************************************)
(* Loops and the coordinates they have not come to.                        *)
(***************************************************************************)
\* No level is past a component at x or above.
Passed(x) ==
    \A it \in lattice[1] : it # Dim =>
        \A i \in 1 .. (pos[it.t] - 1) : levels[it.t][i] < x

\* An iterator with a component at c, which is not below x, is not past it.
LEMMA IteratorAhead ==
    ASSUME Typed, NEW x \in 0 .. Dimension, Visited(x), Passed(x),
           NEW c \in Coordinates, x <= c,
           NEW it \in lattice[1], it \in Having(c)
    PROVE  Unexhausted(it) /\ Loaded(it) <= c
<1>1. x \in Nat /\ c \in Nat /\ c < Dimension
  BY LoopAssumption DEF Coordinates
<1>2. CASE it = Dim
  <2>1. IsFull(it)
    BY <1>2 DEF IsFull, Dim, Iterator
  <2>2. dim = x
    BY <1>2, <2>1 DEF Visited
  <2>3. dim <= c /\ dim < Dimension
    BY <1>1, <2>2, LoopAssumption
  <2>4. QED
    BY <1>2, <2>3 DEF Unexhausted, Loaded, IsDimension
<1>3. CASE it # Dim
  <2> DEFINE s == levels[it.t]
             p == pos[it.t]
  <2>1. it \in IteratorsOf(expr)
    BY DEF Having
  <2>2. /\ p \in 1 .. Len(s) + 1 /\ Len(s) \in Nat
        /\ \A i \in 1 .. Len(s) : s[i] \in Coordinates
        /\ \A i \in 1 .. Len(s) - 1 : s[i] <= s[i + 1]
    BY <1>3, <2>1, LoadedFacts
  <2>3. PICK i \in 1 .. Len(s) : s[i] = c
    BY <1>3 DEF Having
  <2>4. \A j \in 1 .. (p - 1) : s[j] < x
    BY <1>3 DEF Passed
  <2> HIDE DEF s, p
  <2>5. p <= i
    <3>1. CASE i \in 1 .. (p - 1)
      BY <1>1, <2>3, <2>4, <3>1
    <3>2. QED
      BY <2>2, <3>1
  <2>6. p \in 1 .. Len(s)
    BY <2>2, <2>5
  <2>7. s[p] <= s[i]
    <3>1. \A k \in 1 .. Len(s) : s[k] \in Nat
      BY <2>2, LoopAssumption DEF Coordinates
    <3>2. \A j, k \in 1 .. Len(s) : j <= k => s[j] <= s[k]
      BY <2>2, <3>1, Ascending
    <3>3. QED
      BY <2>5, <2>6, <3>2
  <2>8. Unexhausted(it)
    BY <1>3, <2>6 DEF Unexhausted, IsDimension, s, p
  <2>9. QED
    BY <1>3, <2>3, <2>7, <2>8 DEF Loaded, IsDimension, s, p
<1>4. QED
  BY <1>2, <1>3

\* A point all of whose iterators have a component at c, which is not below x,
\* is one of the running loop or of a later one; its loop gets there.
LEMMA PointAhead ==
    ASSUME Typed, NEW x \in 0 .. Dimension, Visited(x), Passed(x),
           NEW c \in Coordinates, x <= c,
           NEW k \in 1 .. Len(lattice), lattice[k] \subseteq Having(c)
    PROVE  /\ loop <= k
           /\ Running => lattice[k] \subseteq point /\ coordinate <= c
<1>1. /\ lattice[k] \subseteq lattice[1] /\ Len(lattice) \in Nat \ {0}
      /\ lattice[k] # {} /\ lattice[k] \subseteq IteratorsOf(expr)
  BY LatticeFacts DEF WellFormed
<1>2. \A it \in lattice[k] : Unexhausted(it) /\ Loaded(it) <= c
  BY <1>1, IteratorAhead
<1>3. loop \in 1 .. Len(lattice) + 1
  BY DEF Typed
<1>4. loop <= k
  <2>1. CASE k \in 1 .. (loop - 1)
    <3>1. PICK it \in Rangers(lattice[k]) : ~Unexhausted(it)
      BY <2>1 DEF Visited
    <3>2. it \in lattice[k]
      BY <3>1, RangersFacts
    <3>3. QED
      BY <1>2, <3>1, <3>2
  <2>2. QED
    BY <1>3, <2>1
<1>5. ASSUME Running PROVE lattice[k] \subseteq point /\ coordinate <= c
  <2>1. k \in loop .. Len(lattice)
    BY <1>1, <1>4
  <2>2. \A it \in Rangers(lattice[k]) : Unexhausted(it)
    BY <1>2, RangersFacts
  <2>3. lattice[k] \subseteq point
    BY <1>5, <2>1, <2>2, OtherPointsOver
  <2>4. PICK it \in lattice[k] : it \in point /\ Unexhausted(it) /\ Loaded(it) <= c
    BY <1>1, <1>2, <2>3
  <2>5. coordinate <= Loaded(it) /\ coordinate \in Coordinates
    BY <1>5, <2>4, CoordinateFacts
  <2>6. Loaded(it) \in Coordinates
    BY <1>1, <2>4, LoadedFacts
  <2>7. coordinate \in Nat /\ Loaded(it) \in Nat /\ c \in Nat
    BY <2>5, <2>6, LoopAssumption DEF Coordinates
  <2>8. QED
    BY <2>3, <2>4, <2>5, <2>7
<1>6. QED
  BY <1>4, <1>5

\* An iterator of the running loop is at the coordinate if and only if it has
\* a component there.
LEMMA AtCoordinate ==
    ASSUME Typed, NEW x \in 0 .. Dimension, Visited(x), Passed(x), Running,
           NEW it \in point
    PROVE  Loaded(it) = coordinate <=> it \in Having(coordinate)
<1>1. /\ point \subseteq IteratorsOf(expr) /\ point \subseteq lattice[1]
      /\ Unexhausted(it) /\ Loaded(it) \in Coordinates
  BY RunningInside
<1>2. /\ coordinate \in Coordinates /\ x <= coordinate
      /\ coordinate <= Loaded(it)
  BY CoordinateFacts
<1>3. ASSUME it \in Having(coordinate) PROVE Loaded(it) = coordinate
  <2>1. Loaded(it) <= coordinate
    BY <1>1, <1>2, <1>3, IteratorAhead
  <2>2. Loaded(it) \in Nat /\ coordinate \in Nat
    BY <1>1, <1>2, LoopAssumption DEF Coordinates
  <2>3. QED
    BY <1>2, <2>1, <2>2
<1>4. ASSUME Loaded(it) = coordinate PROVE it \in Having(coordinate)
  <2>1. CASE it = Dim
    BY <1>1, <2>1 DEF Having
  <2>2. CASE it # Dim
    <3>1. pos[it.t] \in 1 .. Len(levels[it.t]) + 1 /\ Len(levels[it.t]) \in Nat
      BY <1>1, <2>2, LoadedFacts
    <3>2. pos[it.t] \in 1 .. Len(levels[it.t])
      BY <1>1, <2>2, <3>1 DEF Unexhausted, IsDimension
    <3>3. levels[it.t][pos[it.t]] = coordinate
      BY <1>4, <2>2 DEF Loaded, IsDimension
    <3>4. QED
      BY <1>1, <3>2, <3>3 DEF Having
  <2>3. QED
    BY <2>1, <2>2
<1>5. QED
  BY <1>3, <1>4

\* A case is taken iff its operands have components at the coordinate.
LEMMA MatchesHaving ==
    ASSUME Typed, NEW x \in 0 .. Dimension, Visited(x), Passed(x), Running,
           NEW p, p \subseteq point
    PROVE  Matches(p) <=> p \subseteq Having(coordinate)
<1>1. \A it \in point : Loaded(it) = coordinate <=> it \in Having(coordinate)
  BY AtCoordinate
<1>2. \A it \in point : IsFull(it) => Loaded(it) = coordinate
  BY CoordinateFacts
<1>3. Rangers(p) \subseteq p /\ \A it \in p : ~IsFull(it) => it \in Rangers(p)
  BY RangersFacts
<1>4. Matches(p) <=> \A it \in p : Loaded(it) = coordinate
  BY <1>2, <1>3 DEF Matches
<1>5. QED
  BY <1>1, <1>4

\* The sublattice of the running loop is ordered as the lattice is.
LEMMA SublatticeOrder ==
    ASSUME Typed, loop <= Len(lattice)
    PROVE  /\ Joined(sublattice)
           /\ Points(sublattice) = {lattice[i] : i \in
                 {j \in 1 .. Len(lattice) : lattice[j] \subseteq point}}
<1> DEFINE K == {i \in DOMAIN lattice : lattice[i] \subseteq lattice[loop]}
           T == SUBSET IteratorsOf(expr)
<1>1. /\ lattice \in Seq(T) /\ Joined(lattice) /\ DOMAIN lattice = 1 .. Len(lattice)
      /\ point = lattice[loop]
  BY LatticeFacts, LenProperties, SublatticeFacts DEF WellFormed
<1>2. sublattice = Keep(lattice, K)
  BY DEF sublattice, SubLattice
<1>3. KeepsJoins(lattice, K)
  BY <1>1 DEF KeepsJoins
<1>4. K \cap (1 .. Len(lattice)) = {j \in 1 .. Len(lattice) : lattice[j] \subseteq point}
  BY <1>1
<1> HIDE DEF K, T
<1>5. Joined(sublattice)
  BY <1>1, <1>2, <1>3, KeptJoined
<1>6. Points(sublattice) = {lattice[i] : i \in K \cap (1 .. Len(lattice))}
  BY <1>1, <1>2, KeepPoints
<1>7. QED
  BY <1>4, <1>5, <1>6

\* If no case is taken, no point has components at the coordinate.
LEMMA NoneTaken ==
    ASSUME Typed, NEW x \in 0 .. Dimension, Visited(x), Passed(x), Running,
           Taken = {}
    PROVE  ~Some(lattice, Having(coordinate))
<1> SUFFICES ASSUME Some(lattice, Having(coordinate)) PROVE FALSE
  OBVIOUS
<1>1. /\ coordinate \in Coordinates /\ x <= coordinate /\ loop <= Len(lattice)
  BY CoordinateFacts DEF Running
<1>2. PICK k \in 1 .. Len(lattice) : lattice[k] \subseteq Having(coordinate)
  BY DEF Some, Points
<1>3. lattice[k] \subseteq point
  BY <1>1, <1>2, PointAhead
<1>4. lattice[k] \in Points(sublattice)
  BY <1>1, <1>2, <1>3, SublatticeOrder
<1>5. /\ Len(sublattice) \in Nat /\ DOMAIN sublattice = 1 .. Len(sublattice)
      /\ \A n \in 1 .. Len(sublattice) : sublattice[n] \subseteq point
  BY <1>1, SublatticeFacts, LenProperties
<1> DEFINE M == {n \in 1 .. Len(sublattice) : Matches(sublattice[n])}
<1>6. M # {} /\ M \in SUBSET Nat
  <2>1. PICK n \in 1 .. Len(sublattice) : sublattice[n] = lattice[k]
    BY <1>4 DEF Points
  <2>2. Matches(sublattice[n])
    BY <1>2, <1>3, <2>1, MatchesHaving
  <2>3. QED
    BY <2>2
<1>7. PICK n \in M : \A m \in M : n <= m
  <2> HIDE DEF M
  <2>1. QED
    BY <1>6, Least
<1>8. \A m \in 1 .. (n - 1) : ~Matches(sublattice[m])
  <2> SUFFICES ASSUME NEW m \in 1 .. (n - 1), Matches(sublattice[m]) PROVE FALSE
    OBVIOUS
  <2>1. m \in M /\ n \in Nat /\ m < n /\ m \in Nat
    BY <1>5
  <2>2. QED
    BY <1>7, <2>1
<1>9. n \in DOMAIN sublattice /\ Matches(sublattice[n])
  BY <1>5
<1>10. n \in Taken \/ Taken = {1}
  BY <1>8, <1>9 DEF Taken
<1>11. QED
  BY <1>10

\* A point has finitely many iterators.
LEMMA PointFinite ==
    ASSUME Typed, loop <= Len(lattice)
    PROVE  IsFiniteSet(point)
<1> DEFINE M == {m \in DOMAIN expr : expr[m].op = "access" /\ expr[m].kind # "dense"}
           g(n) == Iterator(expr[n].t, expr[n].kind)
           T == {g(n) : n \in M}
           f == [n \in M |-> g(n)]
<1>1. point \subseteq IteratorsOf(expr)
  BY SublatticeFacts, LatticeFacts DEF Typed
<1>2. IteratorsOf(expr) = T \cup {Dim}
  BY DEF IteratorsOf
<1>3. IsFiniteSet(M)
  <2>1. DOMAIN expr = 1 .. Len(expr) /\ Len(expr) \in Int /\ 1 \in Int
    BY LatticeFacts, LenProperties
  <2>2. IsFiniteSet(1 .. Len(expr))
    BY <2>1, FS_Interval
  <2>3. QED
    BY <2>1, <2>2, FS_Subset
<1>4. IsFiniteSet(T)
  <2> HIDE DEF M, g
  <2>1. f \in Surjection(M, T)
    BY DEF Surjection
  <2> HIDE DEF f, T
  <2>2. QED
    BY <1>3, <2>1, FS_Surjection
<1> HIDE DEF T, M, f, g
<1>5. IsFiniteSet(T \cup {Dim})
  BY <1>4, FS_AddElement
<1>6. QED
  BY <1>1, <1>2, <1>5, FS_Subset

\* The case that is taken is of the largest point that has components at the
\* coordinate.
LEMMA OneTaken ==
    ASSUME Typed, AppendsAscending,
           NEW x \in 0 .. Dimension, Visited(x), Passed(x), Running,
           NEW n \in Taken
    PROVE  /\ n \in 1 .. Len(sublattice)
           /\ sublattice[n] \in Points(lattice)
           /\ sublattice[n] \subseteq point
           /\ sublattice[n] \subseteq Having(coordinate)
           /\ \A q \in Points(lattice) :
                 q \subseteq Having(coordinate) => q \subseteq sublattice[n]
<1>1. /\ coordinate \in Coordinates /\ x <= coordinate /\ loop <= Len(lattice)
  BY CoordinateFacts DEF Running
<1>2. /\ Len(sublattice) \in Nat \ {0} /\ DOMAIN sublattice = 1 .. Len(sublattice)
      /\ \A k \in 1 .. Len(sublattice) : sublattice[k] \subseteq point
  <2>1. Len(sublattice) \in Nat /\ Len(sublattice) > 0
    BY <1>1, SublatticeFacts, LenProperties
  <2>2. QED
    BY <1>1, <2>1, SublatticeFacts, LenProperties
<1>3. \A k \in 1 .. Len(sublattice) :
         Matches(sublattice[k]) <=> sublattice[k] \subseteq Having(coordinate)
  BY <1>2, MatchesHaving
<1>4. \A q \in Points(lattice) : q \subseteq Having(coordinate) =>
         \E k \in 1 .. Len(sublattice) : sublattice[k] = q
  <2> SUFFICES ASSUME NEW i \in 1 .. Len(lattice), lattice[i] \subseteq Having(coordinate)
               PROVE  \E k \in 1 .. Len(sublattice) : sublattice[k] = lattice[i]
    BY DEF Points
  <2>1. lattice[i] \subseteq point
    BY <1>1, PointAhead
  <2>2. lattice[i] \in Points(sublattice)
    BY <1>1, <2>1, SublatticeOrder
  <2>3. QED
    BY <2>2 DEF Points
<1>5. CASE Cardinality(Iterators(sublattice)) = 1
  <2>1. n = 1 /\ Iterators(sublattice) = point /\ sublattice[1] = point
    BY <1>5 DEF Taken, Iterators, point
  <2>2. IsFiniteSet(point)
    BY <1>1, PointFinite
  <2>3. PICK it : point = {it}
    BY <1>5, <2>1, <2>2, FS_Singleton
  <2>4. Loaded(it) = coordinate
    BY <2>3, CoordinateFacts
  <2>5. point \subseteq Having(coordinate)
    BY <2>3, <2>4, AtCoordinate
  <2>6. point \in Points(lattice)
    <3>1. loop \in 1 .. Len(lattice)
      BY <1>1 DEF Typed
    <3>2. point = lattice[loop]
      BY <1>1, SublatticeFacts
    <3>3. QED
      BY <3>1, <3>2 DEF Points
  <2>7. ASSUME NEW q \in Points(lattice), q \subseteq Having(coordinate)
        PROVE  q \subseteq sublattice[n]
    <3>1. PICK k \in 1 .. Len(sublattice) : sublattice[k] = q
      BY <1>4, <2>7
    <3>2. QED
      BY <1>2, <2>1, <3>1
  <2>8. 1 \in 1 .. Len(sublattice)
    BY <1>2
  <2>9. QED
    BY <2>1, <2>5, <2>6, <2>7, <2>8
<1>6. CASE Cardinality(Iterators(sublattice)) # 1
  <2>1. /\ n \in 1 .. Len(sublattice)
        /\ \/ Matches(sublattice[n])
           \/ Exact(sublattice) /\ n = Len(sublattice)
        /\ \A m \in 1 .. (n - 1) : ~Matches(sublattice[m])
    BY <1>2, <1>6 DEF Taken
  <2>2. Matches(sublattice[n])
    <3>1. CASE Exact(sublattice) /\ n = Len(sublattice)
      <4>1. Invariant
        BY DEF Invariant
      <4>2. PICK m \in 1 .. Len(sublattice) : Matches(sublattice[m])
        BY <1>2, <3>1, <4>1, InvariantExact DEF ExactHasCase
      <4>3. m \notin 1 .. (n - 1)
        BY <2>1, <4>2
      <4>4. m = n
        <5> DEFINE l == Len(sublattice)
        <5>1. m \in 1 .. l /\ l \in Nat /\ n = l /\ m \notin 1 .. (l - 1)
          BY <1>2, <3>1, <4>3
        <5> HIDE DEF l
        <5>2. QED
          BY <5>1
      <4>5. QED
        BY <4>2, <4>4
    <3>2. QED
      BY <2>1, <3>1
  <2>3. sublattice[n] \subseteq Having(coordinate)
    BY <1>3, <2>1, <2>2
  <2>4. ASSUME NEW k \in 1 .. Len(sublattice), sublattice[k] \subseteq Having(coordinate)
        PROVE  sublattice[k] \subseteq sublattice[n]
    <3>1. PICK j \in 1 .. Len(sublattice) :
             j <= n /\ j <= k /\ sublattice[j] = sublattice[n] \cup sublattice[k]
      BY <1>1, <2>1, SublatticeOrder DEF Joined
    <3>2. Matches(sublattice[j])
      BY <1>3, <2>3, <2>4, <3>1
    <3>3. j \notin 1 .. (n - 1)
      BY <2>1, <3>2
    <3>4. j = n
      <4> DEFINE l == Len(sublattice)
      <4>1. l \in Nat /\ j \in 1 .. l /\ n \in 1 .. l
        BY <1>2, <2>1
      <4> HIDE DEF l
      <4>2. j <= n /\ j \notin 1 .. (n - 1)
        BY <3>1, <3>3
      <4>3. QED
        BY <4>1, <4>2
    <3>5. QED
      BY <3>1, <3>4
  <2>5. sublattice[n] \in Points(lattice)
    <3>1. sublattice[n] \in Points(sublattice)
      BY <2>1 DEF Points
    <3>2. QED
      BY <1>1, <3>1, SublatticeOrder DEF Points
  <2>6. QED
    BY <1>2, <1>4, <2>1, <2>3, <2>4, <2>5
<1>7. QED
  BY <1>5, <1>6

(***************************************************************************)
(* Levels and the components at the coordinate.                            *)
(***************************************************************************)
\* What an iterator that is not the dimension's loads.
LEMMA PositionFacts ==
    ASSUME Typed, NEW x \in 0 .. Dimension, Visited(x), Running,
           NEW it \in point, it # Dim
    PROVE  /\ pos[it.t] \in 1 .. Len(levels[it.t]) /\ Len(levels[it.t]) \in Nat
           /\ Loaded(it) = levels[it.t][pos[it.t]] /\ it \in IteratorsOf(expr)
           /\ coordinate \in Nat /\ coordinate <= levels[it.t][pos[it.t]]
           /\ \A i \in 1 .. Len(levels[it.t]) : levels[it.t][i] \in Nat
           /\ \A i, j \in 1 .. Len(levels[it.t]) :
                 i <= j => levels[it.t][i] <= levels[it.t][j]
           /\ IsUnique(it) => \A i, j \in 1 .. Len(levels[it.t]) :
                 i < j => levels[it.t][i] < levels[it.t][j]
<1> DEFINE s == levels[it.t]
           p == pos[it.t]
<1>1. it \in IteratorsOf(expr) /\ Unexhausted(it)
  BY RunningInside
<1>2. /\ p \in 1 .. Len(s) + 1 /\ Len(s) \in Nat
      /\ \A i \in 1 .. Len(s) : s[i] \in Coordinates
      /\ \A i \in 1 .. Len(s) - 1 : s[i] <= s[i + 1]
      /\ IsUnique(it) => \A i \in 1 .. Len(s) - 1 : s[i] < s[i + 1]
  BY <1>1, LoadedFacts
<1>3. p <= Len(s) /\ Loaded(it) = s[p]
  BY <1>1 DEF Unexhausted, Loaded, IsDimension
<1>4. coordinate \in Nat /\ coordinate <= s[p]
  BY <1>3, CoordinateFacts, LoopAssumption DEF Coordinates
<1>5. Coordinates \subseteq Nat
  BY LoopAssumption DEF Coordinates
<1> HIDE DEF s, p
<1>6. p \in 1 .. Len(s) /\ \A i \in 1 .. Len(s) : s[i] \in Nat
  <2>1. p \in 1 .. Len(s)
    BY <1>2, <1>3
  <2>2. \A i \in 1 .. Len(s) : s[i] \in Nat
    BY <1>2, <1>5
  <2>3. QED
    BY <2>1, <2>2
<1>7. /\ \A i, j \in 1 .. Len(s) : i <= j => s[i] <= s[j]
      /\ IsUnique(it) => \A i, j \in 1 .. Len(s) : i < j => s[i] < s[j]
  BY <1>2, <1>6, Ascending
<1>8. QED
  BY <1>1, <1>2, <1>3, <1>4, <1>6, <1>7 DEF s, p

\* Without a point that merges a full level and takes duplicates along, a
\* level with duplicates is advanced over the coordinate and nothing else.
LEMMA SegmentFacts ==
    ASSUME Typed, NEW x \in 0 .. Dimension, Visited(x), Running,
           ~FullDuplicates(lattice), NEW it \in point, ~IsUnique(it)
    PROVE  /\ it # Dim /\ HasPosIter(it)
           /\ SegmentEnd(it) \in pos[it.t] .. Len(levels[it.t]) + 1
           /\ \A i \in pos[it.t] .. (SegmentEnd(it) - 1) : levels[it.t][i] = coordinate
           /\ SegmentEnd(it) <= Len(levels[it.t])
                 => coordinate < levels[it.t][SegmentEnd(it)]
<1> DEFINE s == levels[it.t]
           p == pos[it.t]
           from == IF AlwaysReduce THEN p + 1 ELSE p
           end == Segment(s, from, coordinate)
<1>1. it # Dim /\ HasPosIter(it)
  BY DEF IsUnique, HasPosIter, Dim, Iterator
<1>2. p \in 1 .. Len(s) /\ Len(s) \in Nat /\ Loaded(it) = s[p]
  BY <1>1, PositionFacts
<1>3. SegmentEnd(it) = end
  BY DEF SegmentEnd, Segment
<1>4. Advanced(it) = end
  BY <1>3 DEF Advanced
<1>5. /\ end \in p .. Len(s) + 1
      /\ end <= Len(s) => coordinate < s[end]
  <2> HIDE DEF end
  <2>1. QED
    BY <1>1, <1>4, AdvancedFacts
<1> HIDE DEF s, p
<1>6. from \in 1 .. Len(s) + 1 /\ (from = p \/ (AlwaysReduce /\ from = p + 1))
  <2>1. p \in 1 .. Len(s) + 1 /\ p + 1 \in 1 .. Len(s) + 1
    BY <1>2
  <2>2. from = p \/ (AlwaysReduce /\ from = p + 1)
    OBVIOUS
  <2> HIDE DEF from
  <2>3. from \in 1 .. Len(s) + 1
    BY <2>1, <2>2
  <2>4. QED
    BY <2>2, <2>3
<1> HIDE DEF from
<1>7. \A i \in from .. (end - 1) : s[i] = coordinate
  BY <1>2, <1>6, SegmentProperty
<1> HIDE DEF end
<1>8. AlwaysReduce => Loaded(it) = coordinate
  <2>1. ASSUME AlwaysReduce PROVE Loaded(it) = coordinate
    <3>1. PICK m \in Mergers(point) : Mergers(point) = {m} /\ HasPosIter(m)
      BY <2>1 DEF AlwaysReduce
    <3>2. \A z \in point : ~IsFull(z)
      <4> SUFFICES ASSUME NEW z \in point, IsFull(z) PROVE FALSE
        OBVIOUS
      <4>1. m \in point /\ IsFull(m)
        BY <3>1, RangersFacts DEF FullOf
      <4>2. m.kind = "full"
        BY <3>1, <4>1 DEF IsFull, HasPosIter
      <4>3. point \in Range(lattice)
        <5>1. /\ point = lattice[loop] /\ loop \in 1 .. Len(lattice)
              /\ DOMAIN lattice = 1 .. Len(lattice)
          BY RunningInside, LatticeFacts, LenProperties DEF WellFormed
        <5>2. QED
          BY <5>1 DEF Range
      <4>4. QED
        BY <4>1, <4>2, <4>3 DEF FullDuplicates
    <3>3. Mergers(point) = point
      BY <3>2, RangersFacts
    <3>4. it = m
      BY <3>1, <3>3
    <3>5. QED
      BY <3>1, <3>4, CoordinateFacts
  <2>2. QED
    BY <2>1
<1>9. ASSUME NEW i \in p .. (end - 1) PROVE s[i] = coordinate
  <2>1. CASE i \in from .. (end - 1)
    BY <1>7, <2>1
  <2>2. CASE i \notin from .. (end - 1)
    <3>1. i = p /\ AlwaysReduce
      BY <1>2, <1>5, <1>6, <2>2
    <3>2. QED
      BY <1>2, <1>8, <3>1
  <2>3. QED
    BY <2>1, <2>2
<1>10. QED
  BY <1>1, <1>3, <1>5, <1>9 DEF s, p

\* The value of an operand that is at the coordinate is that of its components
\* there.
LEMMA OperandFacts ==
    ASSUME Typed, NEW x \in 0 .. Dimension, Visited(x), Passed(x), Running,
           ~FullDuplicates(lattice),
           NEW n \in 1 .. Len(expr), expr[n] \in AccessNodes
    PROVE  /\ expr[n].kind = "dense" =>
                 OperandValue(expr[n]) = Value(expr[n].t, coordinate)
           /\ expr[n].kind # "dense" =>
                 LET it == Iterator(expr[n].t, expr[n].kind)
                 IN  it \in point /\ it \in Having(coordinate) =>
                        OperandValue(expr[n])
                           = Total(expr[n].t, ComponentsAt(expr[n], coordinate))
<1> DEFINE t == expr[n].t
           it == Iterator(t, expr[n].kind)
           K == ComponentsAt(expr[n], coordinate)
<1>1. /\ DOMAIN levels[t] = 1 .. Len(levels[t]) /\ expr[n].kind \in Kinds
  BY AccessFacts
<1>2. ASSUME expr[n].kind = "dense"
      PROVE  OperandValue(expr[n]) = Value(t, coordinate)
  <2>1. ~HasPosIter(it)
    BY <1>2 DEF HasPosIter, Iterator
  <2>2. QED
    BY <2>1 DEF OperandValue
<1>3. ASSUME expr[n].kind # "dense", it \in point, it \in Having(coordinate)
      PROVE  OperandValue(expr[n]) = Total(t, K)
  <2>1. HasPosIter(it) /\ it # Dim /\ it.t = t
    BY <1>1, <1>3 DEF HasPosIter, Iterator, Kinds, Dim
  <2> DEFINE s == levels[t]
             p == pos[t]
             components == IF IsUnique(it) THEN {p} ELSE p .. (SegmentEnd(it) - 1)
  <2>2. OperandValue(expr[n]) = Total(t, components)
    BY <2>1 DEF OperandValue
  <2>3. K = {i \in 1 .. Len(s) : s[i] = coordinate}
    BY <1>1 DEF ComponentsAt
  <2> HIDE DEF it
  <2>4. Loaded(it) = coordinate
    BY <1>3, AtCoordinate
  <2>5. /\ p \in 1 .. Len(s) /\ Len(s) \in Nat /\ s[p] = coordinate
        /\ coordinate \in Nat /\ it \in IteratorsOf(expr)
        /\ \A i \in 1 .. Len(s) : s[i] \in Nat
        /\ \A i, j \in 1 .. Len(s) : i <= j => s[i] <= s[j]
        /\ IsUnique(it) => \A i, j \in 1 .. Len(s) : i < j => s[i] < s[j]
    BY <1>3, <2>1, <2>4, PositionFacts
  <2>6. \A i \in 1 .. (p - 1) : s[i] < coordinate
    <3>1. it \in lattice[1] /\ x <= coordinate
      BY <1>3, RunningInside, CoordinateFacts
    <3>2. \A i \in 1 .. (p - 1) : s[i] < x
      BY <2>1, <3>1 DEF Passed
    <3> HIDE DEF s, p
    <3>3. \A i \in 1 .. (p - 1) : i \in 1 .. Len(s)
      BY <2>5
    <3>4. QED
      BY <2>5, <3>1, <3>2, <3>3
  <2>7. CASE IsUnique(it)
    <3> HIDE DEF s, p, K
    <3>1. ASSUME NEW i \in 1 .. Len(s), s[i] = coordinate PROVE i = p
      <4>1. CASE i < p
        BY <2>5, <2>7, <3>1, <4>1
      <4>2. CASE p < i
        BY <2>5, <2>7, <3>1, <4>2
      <4>3. QED
        BY <2>5, <4>1, <4>2
    <3>2. K = {p}
      BY <2>3, <2>5, <3>1
    <3>3. QED
      BY <2>2, <2>7, <3>2
  <2>8. CASE ~IsUnique(it)
    <3> DEFINE end == SegmentEnd(it)
    <3>1. /\ end \in p .. Len(s) + 1
          /\ \A i \in p .. (end - 1) : s[i] = coordinate
          /\ end <= Len(s) => coordinate < s[end]
      BY <1>3, <2>1, <2>8, SegmentFacts
    <3>2. components = p .. (end - 1)
      BY <2>8
    <3> HIDE DEF s, p, K, end, components
    <3>3. ASSUME NEW i \in 1 .. Len(s), s[i] = coordinate
          PROVE  i \in p .. (end - 1)
      <4>1. p <= i
        <5>1. CASE i \in 1 .. (p - 1)
          BY <2>5, <2>6, <3>3, <5>1
        <5>2. QED
          BY <2>5, <5>1
      <4>2. i < end
        <5> SUFFICES ASSUME end <= i PROVE FALSE
          BY <2>5, <3>1
        <5>1. end \in 1 .. Len(s) /\ coordinate < s[end]
          BY <2>5, <3>1
        <5>2. s[end] <= s[i] /\ s[end] \in Nat
          BY <2>5, <5>1
        <5>3. QED
          BY <2>5, <3>3, <5>1, <5>2
      <4>3. QED
        BY <2>5, <3>1, <4>1, <4>2
    <3>4. \A i \in p .. (end - 1) : i \in 1 .. Len(s)
      BY <2>5, <3>1
    <3>5. K = p .. (end - 1)
      BY <2>3, <3>1, <3>3, <3>4
    <3>6. QED
      BY <2>2, <3>2, <3>5
  <2>9. QED
    BY <2>7, <2>8
<1>4. QED
  BY <1>2, <1>3

\* An iterator only moves over components at the coordinate.
LEMMA AdvancedOver ==
    ASSUME Typed, NEW x \in 0 .. Dimension, Visited(x), Running,
           ~FullDuplicates(lattice), NEW it \in point, it # Dim,
           NEW i \in pos[it.t] .. (Advanced(it) - 1)
    PROVE  levels[it.t][i] = coordinate
<1> DEFINE p == pos[it.t]
<1>1. p \in Nat /\ Loaded(it) = levels[it.t][p]
  BY PositionFacts
<1>2. CASE ~IsUnique(it)
  <2>1. Advanced(it) = SegmentEnd(it)
    BY <1>2 DEF Advanced
  <2>2. QED
    BY <1>2, <2>1, SegmentFacts
<1>3. CASE IsUnique(it) /\ Loaded(it) = coordinate
  <2>1. Advanced(it) = p + 1
    BY <1>3 DEF Advanced
  <2>2. i = p
    <3>1. i \in p .. ((p + 1) - 1)
      BY <2>1
    <3> HIDE DEF p
    <3>2. QED
      BY <1>1, <3>1
  <2>3. QED
    BY <1>1, <1>3, <2>2
<1>4. CASE IsUnique(it) /\ Loaded(it) # coordinate
  <2>1. ~IsFull(it)
    BY <1>4, CoordinateFacts
  <2>2. Cardinality(point) # 1
    <3> SUFFICES ASSUME Cardinality(point) = 1 PROVE FALSE
      OBVIOUS
    <3>1. IsFiniteSet(point)
      BY PointFinite DEF Running
    <3>2. PICK z : point = {z}
      BY <3>1, FS_Singleton
    <3>3. z = it
      BY <3>2
    <3>4. QED
      BY <1>4, <3>2, <3>3, CoordinateFacts
  <2>3. Advanced(it) = p
    BY <1>4, <2>1, <2>2 DEF Advanced
  <2>4. i \in p .. (p - 1)
    BY <2>3
  <2> HIDE DEF p
  <2>5. QED
    BY <1>1, <2>4
<1>5. QED
  BY <1>2, <1>3, <1>4

\* An iteration passes its coordinate in every iterator that it advances.
LEMMA IteratePassed ==
    ASSUME Typed, NEW x \in 0 .. Dimension, Visited(x), Passed(x), Iterate,
           ~FullDuplicates(lattice), NEW y, y = coordinate + 1
    PROVE  Passed(y)'
<1>1. /\ Running /\ lattice' = lattice /\ levels' = levels
  BY DEF Iterate
<1>2. /\ point \subseteq IteratorsOf(expr) /\ lattice[1] \subseteq IteratorsOf(expr)
      /\ coordinate \in Nat /\ x \in Nat /\ x <= coordinate
  <2>1. point \subseteq IteratorsOf(expr) /\ lattice[1] \subseteq IteratorsOf(expr)
    <3>1. Len(lattice) \in Nat \ {0}
      BY LatticeFacts
    <3>2. 1 \in 1 .. Len(lattice)
      BY <3>1
    <3>3. QED
      BY <1>1, <3>2, LatticeFacts, RunningInside
  <2>2. coordinate \in Coordinates /\ x <= coordinate
    BY <1>1, CoordinateFacts
  <2>3. QED
    BY <2>1, <2>2, LoopAssumption DEF Coordinates
<1>3. ASSUME NEW it \in lattice'[1], it # Dim, NEW i \in 1 .. (pos'[it.t] - 1)
      PROVE  levels'[it.t][i] < y
  <2>1. it \in lattice[1] /\ it \in IteratorsOf(expr) /\ levels'[it.t][i] = levels[it.t][i]
    BY <1>1, <1>2, <1>3
  <2>2. /\ it.t \in Operands /\ pos[it.t] \in Nat \ {0}
        /\ \A j \in 1 .. (pos[it.t] - 1) : levels[it.t][j] < x
        /\ \A j \in 1 .. Len(levels[it.t]) : levels[it.t][j] \in Nat
        /\ pos[it.t] \in 1 .. Len(levels[it.t]) + 1 /\ Len(levels[it.t]) \in Nat
    <3>1. /\ it.t \in Operands /\ pos[it.t] \in 1 .. Len(levels[it.t]) + 1
          /\ \A j \in 1 .. Len(levels[it.t]) : levels[it.t][j] \in Coordinates
          /\ Len(levels[it.t]) \in Nat
      BY <1>3, <2>1, LoadedFacts
    <3>2. \A j \in 1 .. (pos[it.t] - 1) : levels[it.t][j] < x
      BY <1>3, <2>1 DEF Passed
    <3>3. Coordinates \subseteq Nat
      BY LoopAssumption DEF Coordinates
    <3>4. \A j \in 1 .. Len(levels[it.t]) : levels[it.t][j] \in Nat
      BY <3>1, <3>3
    <3>5. pos[it.t] \in Nat \ {0}
      BY <3>1
    <3>6. QED
      BY <3>1, <3>2, <3>4, <3>5
  <2>3. CASE i \in 1 .. (pos[it.t] - 1)
    <3>1. i \in 1 .. Len(levels[it.t])
      BY <2>2, <2>3
    <3>2. levels[it.t][i] < x /\ levels[it.t][i] \in Nat
      BY <2>2, <2>3, <3>1
    <3>3. QED
      BY <1>2, <2>1, <3>2
  <2>4. CASE i \notin 1 .. (pos[it.t] - 1)
    <3>1. it \in point
      <4> SUFFICES ASSUME it \notin point PROVE FALSE
        OBVIOUS
      <4>1. \A z \in point : z.t # it.t
        <5>1. IsExpression(expr)
          BY LatticeFacts
        <5>2. \A a, b \in IteratorsOf(expr) : a.t = b.t => a = b
          BY <5>1, IteratorFacts
        <5>3. QED
          BY <1>2, <2>1, <5>2
      <4>2. it.t \notin {z.t : z \in point}
        BY <4>1
      <4>3. pos'[it.t] = pos[it.t]
        BY <2>2, <4>2, MovedFacts
      <4>4. QED
        BY <1>3, <2>4, <4>3
    <3>2. pos'[it.t] = Advanced(it)
      BY <1>3, <3>1, MovedFacts
    <3>3. i \in pos[it.t] .. (Advanced(it) - 1)
      <4>1. Advanced(it) \in pos[it.t] .. Len(levels[it.t]) + 1
        BY <1>1, <1>3, <3>1, AdvancedFacts
      <4> DEFINE a == Advanced(it)
                 p == pos[it.t]
                 l == Len(levels[it.t])
      <4>2. /\ i \in 1 .. (a - 1) /\ i \notin 1 .. (p - 1) /\ p \in Nat \ {0}
            /\ l \in Nat /\ a \in p .. l + 1
        BY <1>3, <2>2, <2>4, <3>2, <4>1
      <4> HIDE DEF a, p, l
      <4>3. i \in p .. (a - 1)
        BY <4>2
      <4>4. QED
        BY <4>3 DEF a, p
    <3>4. levels[it.t][i] = coordinate
      BY <1>1, <1>3, <3>1, <3>3, AdvancedOver
    <3>5. QED
      BY <1>2, <2>1, <3>4
  <2>5. QED
    BY <2>3, <2>4
<1>4. QED
  BY <1>3 DEF Passed

(***************************************************************************)
(* The value that an iteration appends.                                    *)
(***************************************************************************)
\* An expression has a value for all values of its accesses.
LEMMA ValuedExists ==
    ASSUME NEW N \in Nat, NEW s, HasNodes(s, N), NEW V \in [AccessNodes -> Int]
    PROVE  \E val : Valued(s, N, V, val)
<1> DEFINE w == [n \in 1 .. N |-> V[s[n]]]
<1>1. \A n \in 1 .. N : s[n] \in AccessNodes => w[n] = V[s[n]]
  OBVIOUS
<1> HIDE DEF w
<1>2. QED
  BY <1>1, ChosenValued

\* What is left of the expression in the case of a point: the accesses that the
\* point does not iterate over are zero.
LEMMA CaseNodes ==
    ASSUME Typed, AppendsAscending,
           NEW x \in 0 .. Dimension, Visited(x), Passed(x), Running,
           NEW n \in Taken, NEW p, p = sublattice[n],
           NEW N, N = Len(expr), NEW z, z = Case(n)
    PROVE  /\ N \in Nat \ {0} /\ HasNodes(expr, N) /\ HasNodes(z, N)
           /\ \A m \in 1 .. N : z[m] \in AccessNodes =>
                 /\ \E k \in 1 .. N : expr[k] = z[m]
                 /\ z[m].kind = "dense" \/ Iterator(z[m].t, z[m].kind) \in p
           /\ \A V \in [AccessNodes -> Int] :
                 (\A a \in AccessNodes :
                     a.kind # "dense" /\ Iterator(a.t, a.kind) \notin p => V[a] = 0)
                 => \A u, v : Valued(expr, N, V, u) /\ Valued(z, N, V, v)
                                => u[N] = v[N]
<1> DEFINE Z1 == Exhausted(lattice, lattice[loop])
           Z2 == Exhausted(sublattice, p)
           z1 == Statement
           z2 == Zero(z1, Z2)
<1>1. /\ expr \in Seq(Range(expr)) /\ IsExpression(expr)
      /\ lattice[1] \subseteq IteratorsOf(expr)
  <2>1. Len(lattice) \in Nat \ {0}
    BY LatticeFacts
  <2>2. 1 \in 1 .. Len(lattice)
    BY <2>1
  <2>3. QED
    BY <2>2, LatticeFacts
<1>2. N \in Nat \ {0} /\ HasNodes(expr, N)
  BY <1>1, ExpressionHasNodes
<1>3. /\ point = lattice[loop] /\ p \subseteq point /\ point \subseteq lattice[1]
      /\ Iterators(sublattice) = point
  BY OneTaken, RunningInside DEF Iterators, point
<1>4. Z1 = lattice[1] \ point /\ Z2 = point \ p
  BY <1>3 DEF Exhausted, Iterators
<1>5. /\ Cardinality(point) = 1 => z = z1 /\ p = point
      /\ Cardinality(point) # 1 => z = z2
  BY <1>3 DEF Case, Taken, point
<1>6. Zeroed(expr, N, Z1, z1)
  BY <1>2, ZeroFacts DEF Statement
<1>7. /\ HasNodes(z1, N)
      /\ \A m \in 1 .. N : z1[m] \in AccessNodes =>
            /\ \E k \in 1 .. N : expr[k] = z1[m]
            /\ Iterator(z1[m].t, z1[m].kind) \notin Z1
  <2> HIDE DEF Z1, z1
  <2>1. QED
    BY <1>2, <1>6, ZeroHasNodes
<1> HIDE DEF z1
<1>8. Zeroed(z1, N, Z2, z2)
  BY <1>2, <1>7, ZeroFacts
<1>9. /\ HasNodes(z2, N)
      /\ \A m \in 1 .. N : z2[m] \in AccessNodes =>
            /\ \E k \in 1 .. N : z1[k] = z2[m]
            /\ Iterator(z2[m].t, z2[m].kind) \notin Z2
  <2> HIDE DEF Z1, Z2, z2
  <2>1. QED
    BY <1>2, <1>7, <1>8, ZeroHasNodes
<1> HIDE DEF Z1, Z2, z2
<1>10. HasNodes(z, N)
  BY <1>5, <1>7, <1>9
<1>11. \A m \in 1 .. N : expr[m] \in AccessNodes /\ expr[m].kind # "dense" =>
          Iterator(expr[m].t, expr[m].kind) \in lattice[1]
  <2>1. PICK f : Lattices(expr, f) /\ Build(expr) = f[N]
    BY <1>1, BuildLattices
  <2>2. QED
    BY <1>1, <2>1, AccessesInFirst DEF Typed
<1>12. ASSUME NEW m \in 1 .. N, z1[m] \in AccessNodes
       PROVE  /\ \E k \in 1 .. N : expr[k] = z1[m]
              /\ z1[m].kind = "dense" \/ Iterator(z1[m].t, z1[m].kind) \in point
  BY <1>4, <1>7, <1>11, <1>12
<1>13. ASSUME NEW m \in 1 .. N, z[m] \in AccessNodes
       PROVE  /\ \E k \in 1 .. N : expr[k] = z[m]
              /\ z[m].kind = "dense" \/ Iterator(z[m].t, z[m].kind) \in p
  <2>1. CASE Cardinality(point) = 1
    BY <1>5, <1>12, <1>13, <2>1
  <2>2. CASE Cardinality(point) # 1
    <3>1. z = z2
      BY <1>5, <2>2
    <3>2. PICK k \in 1 .. N : z1[k] = z2[m]
      BY <1>9, <1>13, <3>1
    <3>3. z1[k] \in AccessNodes
      BY <1>13, <3>1, <3>2
    <3>4. /\ \E j \in 1 .. N : expr[j] = z2[m]
          /\ z2[m].kind = "dense" \/ Iterator(z2[m].t, z2[m].kind) \in point
      BY <1>12, <3>2, <3>3
    <3>5. Iterator(z2[m].t, z2[m].kind) \notin Z2
      BY <1>9, <1>13, <3>1
    <3>6. QED
      BY <1>4, <3>1, <3>4, <3>5
  <2>3. QED
    BY <2>1, <2>2
<1>14. ASSUME NEW V \in [AccessNodes -> Int],
              \A a \in AccessNodes :
                 a.kind # "dense" /\ Iterator(a.t, a.kind) \notin p => V[a] = 0,
              NEW u, NEW v, Valued(expr, N, V, u), Valued(z, N, V, v)
       PROVE  u[N] = v[N]
  <2>1. \A a \in AccessNodes : Iterator(a.t, a.kind) \in Z1 \cup Z2 => V[a] = 0
    <3> SUFFICES ASSUME NEW a \in AccessNodes, Iterator(a.t, a.kind) \in Z1 \cup Z2
                 PROVE  V[a] = 0
      OBVIOUS
    <3>1. Iterator(a.t, a.kind) \in IteratorsOf(expr) /\ Iterator(a.t, a.kind) \notin p
      BY <1>1, <1>3, <1>4
    <3>2. a.kind \in Kinds /\ Iterator(a.t, a.kind).kind = a.kind
      BY DEF AccessNodes, Iterator
    <3>3. a.kind # "dense"
      <4> DEFINE it == Iterator(a.t, a.kind)
      <4>1. it = Dim \/ it.kind \in {"compressed", "full", "duplicates"}
        <5> HIDE DEF it
        <5>1. QED
          BY <1>1, <3>1, IteratorFacts DEF it
      <4>2. Dim.kind = "dimension"
        BY DEF Dim, Iterator
      <4>3. QED
        BY <3>2, <4>1, <4>2 DEF Kinds
    <3>4. QED
      BY <1>14, <3>1, <3>3
  <2>2. \A a \in AccessNodes : Iterator(a.t, a.kind) \in Z1 => V[a] = 0
    BY <2>1
  <2>3. \A a \in AccessNodes : Iterator(a.t, a.kind) \in Z2 => V[a] = 0
    BY <2>1
  <2>4. N \in Nat /\ N \in 1 .. N
    BY <1>2
  <2>5. PICK u1 : Valued(z1, N, V, u1)
    BY <1>7, <2>4, ValuedExists
  <2>6. u[N] = u1[N]
    BY <1>2, <1>6, <1>14, <2>2, <2>4, <2>5, ZeroValues
  <2>7. CASE Cardinality(point) = 1
    <3>1. Valued(z1, N, V, v)
      BY <1>5, <1>14, <2>7
    <3>2. QED
      BY <1>2, <1>6, <1>14, <2>2, <2>4, <3>1, ZeroValues
  <2>8. CASE Cardinality(point) # 1
    <3>1. Valued(z2, N, V, v)
      BY <1>5, <1>14, <2>8
    <3>2. u1[N] = v[N]
      BY <1>7, <1>8, <2>3, <2>4, <2>5, <3>1, ZeroValues
    <3>3. QED
      BY <2>6, <3>2
  <2>9. QED
    BY <2>7, <2>8
<1>15. QED
  BY <1>2, <1>10, <1>13, <1>14

\* The case that is taken has the value of the expression.
LEMMA CaseValue ==
    ASSUME Typed, AppendsAscending, ~FullFactor(expr), ~FullDuplicates(lattice),
           NEW x \in 0 .. Dimension, Visited(x), Passed(x), Running,
           NEW n \in Taken
    PROVE  Evaluate(Case(n)) = ValueAt(expr, coordinate)
<1> DEFINE N == Len(expr)
           p == sublattice[n]
           z == Case(n)
           A == Having(coordinate)
           T(a) == Total(a.t, ComponentsAt(a, coordinate))
           X == [a \in AccessNodes |-> IF \E m \in 1 .. N : expr[m] = a THEN T(a) ELSE 0]
           out(a) == a.kind # "dense" /\ Iterator(a.t, a.kind) \notin p
           V == [a \in AccessNodes |-> IF out(a) THEN 0 ELSE X[a]]
<1>1. /\ N \in Nat \ {0} /\ HasNodes(expr, N) /\ HasNodes(z, N)
      /\ \A m \in 1 .. N : z[m] \in AccessNodes =>
            (\E k \in 1 .. N : expr[k] = z[m]) /\ ~out(z[m])
  <2> HIDE DEF N, p, z
  <2>1. p = sublattice[n] /\ N = Len(expr) /\ z = Case(n)
    BY DEF N, p, z
  <2>2. QED
    BY <2>1, CaseNodes
<1>2. ASSUME NEW U \in [AccessNodes -> Int], \A a \in AccessNodes : out(a) => U[a] = 0,
             NEW u, NEW v, Valued(expr, N, U, u), Valued(z, N, U, v)
      PROVE  u[N] = v[N]
  <2> HIDE DEF N, p, z
  <2>1. p = sublattice[n] /\ N = Len(expr) /\ z = Case(n)
    BY DEF N, p, z
  <2>2. QED
    BY <1>2, <2>1, CaseNodes
<1>3. /\ coordinate \in Coordinates
      /\ expr \in Seq(Range(expr)) /\ IsExpression(expr)
      /\ p \subseteq point /\ p \subseteq A
      /\ \A q \in Points(lattice) : q \subseteq A => q \subseteq p
  BY CoordinateFacts, LatticeFacts, OneTaken
<1> HIDE DEF z, p, A
<1>4. \A m \in 1 .. N : expr[m] \in AccessNodes =>
         /\ T(expr[m]) \in Int
         /\ expr[m].kind = "dense" => T(expr[m]) = Value(expr[m].t, coordinate)
         /\ expr[m].kind # "dense" /\ Iterator(expr[m].t, expr[m].kind) \notin A
               => T(expr[m]) = 0
  BY <1>3, ComponentFacts DEF A
<1> HIDE DEF T
<1>5. /\ X \in [AccessNodes -> Int]
      /\ \A m \in 1 .. N : expr[m] \in AccessNodes => X[expr[m]] = T(expr[m])
  <2>1. \A a \in AccessNodes : (\E m \in 1 .. N : expr[m] = a) => T(a) \in Int
    BY <1>4
  <2>2. QED
    BY <2>1
<1> HIDE DEF X
<1>6. /\ V \in [AccessNodes -> Int]
      /\ \A a \in AccessNodes : V[a] = IF out(a) THEN 0 ELSE X[a]
  BY <1>5
<1> HIDE DEF V
\* What is evaluated.
<1>7. PICK v : Valued(z, N, V, v) /\ Evaluate(z) = v[N]
  <2>1. ASSUME NEW m \in 1 .. N, z[m] \in AccessNodes
        PROVE  OperandValue(z[m]) = V[z[m]]
    <3>1. PICK k \in 1 .. N : expr[k] = z[m]
      BY <1>1, <2>1
    <3>2. ~out(expr[k]) /\ expr[k] \in AccessNodes
      BY <1>1, <2>1, <3>1
    <3>3. V[expr[k]] = T(expr[k])
      BY <1>5, <1>6, <3>2
    <3>4. CASE expr[k].kind = "dense"
      <4>1. OperandValue(expr[k]) = Value(expr[k].t, coordinate)
        BY <3>2, <3>4, OperandFacts
      <4>2. QED
        BY <1>4, <3>1, <3>2, <3>3, <3>4, <4>1
    <3>5. CASE expr[k].kind # "dense"
      <4> DEFINE it == Iterator(expr[k].t, expr[k].kind)
      <4>1. it \in point /\ it \in Having(coordinate)
        BY <1>3, <3>2, <3>5 DEF A
      <4>2. OperandValue(expr[k]) = T(expr[k])
        BY <3>2, <3>5, <4>1, OperandFacts DEF T
      <4>3. QED
        BY <3>1, <3>3, <4>2
    <3>6. QED
      BY <3>4, <3>5
  <2>2. N \in Nat
    BY <1>1
  <2> HIDE DEF N
  <2>3. QED
    BY <1>1, <1>6, <2>1, <2>2, EvaluateFacts
<1>8. PICK u : Valued(expr, N, V, u)
  <2>1. N \in Nat
    BY <1>1
  <2> HIDE DEF N
  <2>2. QED
    BY <1>1, <1>6, <2>1, ValuedExists
<1>9. u[N] = v[N]
  BY <1>2, <1>6, <1>7, <1>8
\* What the reference is.
<1>10. PICK w : Valued(expr, N, X, w) /\ ValueAt(expr, coordinate) = w[N]
  <2>1. \A m \in 1 .. N : expr[m] \in AccessNodes =>
           Total(expr[m].t, ComponentsAt(expr[m], coordinate)) = X[expr[m]]
    BY <1>5 DEF T
  <2>2. N \in Nat
    BY <1>1
  <2> HIDE DEF N
  <2>3. QED
    BY <1>1, <1>5, <2>1, <2>2, ValueAtFacts
<1>11. u[N] = w[N]
  <2>1. PICK f : Lattices(expr, f) /\ Build(expr) = f[N]
    BY <1>3, BuildLattices
  <2>2. HasFull(expr, A)
    BY <1>3, HavingFull DEF A
  <2>3. lattice = f[N]
    BY <2>1 DEF Typed
  <2>4. ASSUME NEW m \in 1 .. N, expr[m] \in AccessNodes
        PROVE  /\ V[expr[m]] = X[expr[m]] \/ V[expr[m]] = 0
               /\ expr[m].kind = "dense" => V[expr[m]] = X[expr[m]]
               /\ expr[m].kind # "dense" =>
                     LET it == Iterator(expr[m].t, expr[m].kind)
                     IN  /\ it \notin A => X[expr[m]] = 0
                         /\ it \in Inside(f[N], A) => V[expr[m]] = X[expr[m]]
    <3> DEFINE it == Iterator(expr[m].t, expr[m].kind)
    <3>1. V[expr[m]] = IF out(expr[m]) THEN 0 ELSE X[expr[m]]
      BY <1>6, <2>4
    <3>2. expr[m].kind # "dense" /\ it \notin A => X[expr[m]] = 0
      BY <1>4, <1>5, <2>4
    <3>3. it \in Inside(f[N], A) => it \in p
      BY <1>3, <2>3, InsideElement
    <3>4. QED
      BY <3>1, <3>2, <3>3
  <2> HIDE DEF out
  <2>5. OperandsAgree(expr, f[Len(expr)], A, V, X)
    BY <2>4 DEF OperandsAgree
  <2>6. QED
    BY <1>3, <1>5, <1>6, <1>8, <1>10, <2>1, <2>2, <2>5, ValuesInside
<1>12. QED
  BY <1>7, <1>9, <1>10, <1>11 DEF z

(***************************************************************************)
(* The loops compute the expression.                                       *)
(***************************************************************************)
\* What the reference says of the coordinates.
PresentAt == {c \in Coordinates : Present(expr, c)}
ValuesAt == [c \in Coordinates |-> ValueAt(expr, c)]

\* What an iteration appends.
LEMMA ResultFacts ==
    ASSUME Typed, Iterate
    PROVE  /\ Len(result) \in Nat
           /\ \A i \in 1 .. Len(result) : result'[i] = result[i]
           /\ \/ Taken = {} /\ Len(result') = Len(result)
              \/ /\ Len(result') = Len(result) + 1
                 /\ \E n \in Taken : result'[Len(result) + 1]
                                        = <<coordinate, Evaluate(Case(n))>>
<1> DEFINE c == coordinate
           n == CHOOSE m \in Taken : TRUE
           v == Evaluate(Case(n))
           k == Cardinality(Taken)
           u == [i \in 1 .. k |-> <<c, v>>]
           l == Len(result)
<1>1. Running /\ result' = result \o u
  BY DEF Iterate
<1>2. k \in {0, 1} /\ (k = 0 => Taken = {}) /\ (k = 1 => n \in Taken)
  <2>1. k \in {0, 1}
    BY <1>1, TakenFacts DEF Running
  <2>2. Taken \subseteq 1 .. Len(sublattice) /\ Len(sublattice) \in Nat
    BY <1>1, SublatticeFacts, LenProperties DEF Taken, Running
  <2>3. IsFiniteSet(1 .. Len(sublattice))
    <3>1. Len(sublattice) \in Int /\ 1 \in Int
      BY <2>2
    <3>2. QED
      BY <3>1, FS_Interval
  <2>4. IsFiniteSet(Taken)
    BY <2>2, <2>3, FS_Subset
  <2>5. k = 0 => Taken = {}
    BY <2>4, FS_EmptySet
  <2>6. k = 1 => Taken # {}
    BY <2>4, FS_EmptySet
  <2>7. QED
    BY <2>1, <2>5, <2>6
<1> HIDE DEF c, v, k
<1>3. PICK R : result \in Seq(R)
  BY DEF Typed
<1>4. u \in Seq({<<c, v>>}) /\ Len(u) = k /\ \A i \in 1 .. k : u[i] = <<c, v>>
  BY <1>2
<1> HIDE DEF u, l, n
<1> DEFINE Q == R \cup {<<c, v>>}
           q == result \o u
<1>5. /\ Len(q) = l + k /\ l \in Nat
      /\ \A i \in 1 .. l + k : q[i] = IF i <= l THEN result[i] ELSE u[i - l]
  <2>1. result \in Seq(Q) /\ u \in Seq(Q)
    BY <1>3, <1>4, SeqDef DEF Q
  <2> HIDE DEF Q
  <2>2. QED
    BY <1>4, <2>1, ConcatProperties, LenProperties DEF l
<1> HIDE DEF q
<1>6. \A i \in 1 .. l : q[i] = result[i]
  BY <1>2, <1>5
<1>7. k = 1 => q[l + 1] = <<c, v>>
  <2>1. HAVE k = 1
  <2>2. l + 1 \in 1 .. l + k /\ ~(l + 1 <= l) /\ (l + 1) - l = 1
    BY <1>5, <2>1
  <2>3. q[l + 1] = u[1]
    BY <1>5, <2>2
  <2>4. QED
    BY <1>4, <2>1, <2>3
<1>8. CASE k = 0
  BY <1>1, <1>2, <1>5, <1>6, <1>8 DEF q, l
<1>9. CASE k = 1
  <2>1. Len(q) = l + 1 /\ n \in Taken /\ q[l + 1] = <<c, v>>
    BY <1>2, <1>5, <1>7, <1>9
  <2>2. q[l + 1] = <<coordinate, Evaluate(Case(n))>>
    BY <2>1 DEF c, v
  <2>3. QED
    BY <1>1, <1>5, <1>6, <2>1, <2>2 DEF q, l
<1>10. QED
  BY <1>2, <1>8, <1>9

\* The coordinates below x have been appended if the expression is present
\* there, with its value.
Correct(x) ==
    /\ \A c \in Coordinates : c < x =>
          ((\E i \in 1 .. Len(result) : result[i][1] = c) <=> c \in PresentAt)
    /\ \A i \in 1 .. Len(result) :
          /\ result[i][1] \in Coordinates
          /\ result[i][2] = ValuesAt[result[i][1]]

Plain == ~FullFactor(expr) /\ ~FullDuplicates(lattice)

Computes ==
    /\ Typed /\ AppendsAscending
    /\ \E x \in 0 .. Dimension : Visited(x) /\ Passed(x) /\ Correct(x)

\* The reference does not change.
LEMMA SameReference ==
    ASSUME expr' = expr, lattice' = lattice, levels' = levels
    PROVE  PresentAt' = PresentAt /\ ValuesAt' = ValuesAt /\ Plain' = Plain
<1>1. \A c : ValueAt(expr, c)' = ValueAt(expr, c)
  BY DEF ValueAt, ComponentsAt, Total, MapThenSumSet, MapThenFoldSet
<1>2. \A c : Present(expr, c)' = Present(expr, c)
  BY DEF Present
<1>3. Plain' = Plain
  BY DEF Plain
<1>4. QED
  BY <1>1, <1>2, <1>3 DEF PresentAt, ValuesAt

\* The expression is present nowhere between x and the coordinate that comes
\* next, and nowhere from x on when the loops are done.
LEMMA AbsentBetween ==
    ASSUME Typed, Plain, NEW x \in 0 .. Dimension, Visited(x), Passed(x),
           NEW c \in PresentAt, x <= c
    PROVE  loop <= Len(lattice) /\ (Running => coordinate <= c)
<1>1. c \in Coordinates /\ Some(lattice, Having(c))
  BY PresentSome DEF PresentAt, Plain
<1>2. PICK k \in 1 .. Len(lattice) : lattice[k] \subseteq Having(c)
  BY <1>1 DEF Some, Points
<1>3. loop <= k /\ (Running => coordinate <= c)
  BY <1>1, <1>2, PointAhead
<1>4. loop \in Nat /\ Len(lattice) \in Nat
  BY LatticeFacts DEF Typed
<1>5. QED
  BY <1>2, <1>3, <1>4

\* The coordinate of the iteration is appended if the expression is present
\* there, with its value.
LEMMA AtTheCoordinate ==
    ASSUME Typed, AppendsAscending, Plain,
           NEW x \in 0 .. Dimension, Visited(x), Passed(x), Running
    PROVE  /\ coordinate \in PresentAt <=> Taken # {}
           /\ \A n \in Taken : Evaluate(Case(n)) = ValuesAt[coordinate]
<1>1. coordinate \in Coordinates
  BY CoordinateFacts
<1>2. coordinate \in PresentAt <=> Some(lattice, Having(coordinate))
  BY <1>1, PresentSome DEF PresentAt, Plain
<1>3. ASSUME NEW n \in Taken PROVE Some(lattice, Having(coordinate))
  BY OneTaken DEF Some
<1>4. Taken = {} => ~Some(lattice, Having(coordinate))
  BY NoneTaken
<1>5. \A n \in Taken : Evaluate(Case(n)) = ValueAt(expr, coordinate)
  BY CaseValue DEF Plain
<1>6. ValuesAt[coordinate] = ValueAt(expr, coordinate)
  BY <1>1 DEF ValuesAt
<1>7. QED
  BY <1>2, <1>3, <1>4, <1>5, <1>6

\* An iteration appends the expression's value at its coordinate, or nothing when
\* no operand has a component there.
LEMMA IterateCorrect ==
    ASSUME Typed, AppendsAscending, Plain,
           NEW x \in 0 .. Dimension, Visited(x), Passed(x), Correct(x), Iterate,
           NEW y, y = coordinate + 1
    PROVE  Correct(y)'
<1> DEFINE l == Len(result)
           k == coordinate
           Appended(c) == \E i \in 1 .. l : result[i][1] = c
<1>1. Running /\ PresentAt' = PresentAt /\ ValuesAt' = ValuesAt
  BY SameReference DEF Iterate
<1>2. k \in Coordinates /\ x <= k
  BY <1>1, CoordinateFacts
<1>3. x \in Nat /\ Coordinates \subseteq Nat
  BY LoopAssumption DEF Coordinates
<1>4. /\ k \in PresentAt <=> Taken # {}
      /\ \A n \in Taken : Evaluate(Case(n)) = ValuesAt[k]
  BY <1>1, AtTheCoordinate
<1>5. /\ l \in Nat
      /\ \A i \in 1 .. l : result'[i] = result[i]
      /\ \/ Taken = {} /\ Len(result') = l
         \/ /\ Len(result') = l + 1
            /\ \E n \in Taken : result'[l + 1] = <<k, Evaluate(Case(n))>>
  BY ResultFacts
<1>6. /\ Taken = {} => Len(result') = l
      /\ Taken # {} => Len(result') = l + 1 /\ result'[l + 1] = <<k, ValuesAt[k]>>
  <2>1. ASSUME Len(result') = l + 1,
               NEW n \in Taken, result'[l + 1] = <<k, Evaluate(Case(n))>>
        PROVE  Taken # {} /\ result'[l + 1] = <<k, ValuesAt[k]>>
    BY <1>4, <2>1
  <2>2. QED
    BY <1>5, <2>1
<1>7. /\ \A i \in 1 .. l : result[i][1] < x
      /\ \A c \in Coordinates : c < x => (Appended(c) <=> c \in PresentAt)
      /\ \A i \in 1 .. l : /\ result[i][1] \in Coordinates
                           /\ result[i][2] = ValuesAt[result[i][1]]
  BY DEF Visited, Correct
<1>8. \A c \in PresentAt : x <= c => k <= c
  BY <1>1, AbsentBetween
<1> HIDE DEF l, k
<1>9. \A c \in Coordinates :
         (\E i \in 1 .. Len(result') : result'[i][1] = c)
            <=> Appended(c) \/ (Taken # {} /\ c = k)
  <2> TAKE c \in Coordinates
  <2>1. CASE Taken = {}
    BY <1>5, <1>6, <2>1
  <2>2. CASE Taken # {}
    <3>1. Len(result') = l + 1 /\ result'[l + 1][1] = k
      BY <1>6, <2>2
    <3>2. \A i : i \in 1 .. (l + 1) <=> i \in 1 .. l \/ i = l + 1
      BY <1>5
    <3>3. QED
      BY <1>5, <2>2, <3>1, <3>2
  <2>3. QED
    BY <2>1, <2>2
<1>10. ASSUME NEW c \in Coordinates, c < y
       PROVE  (\E i \in 1 .. Len(result') : result'[i][1] = c) <=> c \in PresentAt
  <2>1. c \in Nat /\ k \in Nat /\ c <= k /\ x \in Nat
    <3>1. y = k + 1
      BY DEF k
    <3>2. c \in Nat /\ k \in Nat /\ x \in Nat
      BY <1>2, <1>3
    <3>3. QED
      BY <1>10, <3>1, <3>2
  <2>2. CASE c < x
    <3>1. c # k
      BY <1>2, <2>1, <2>2
    <3>2. QED
      BY <1>7, <1>9, <2>2, <3>1
  <2>3. CASE ~(c < x)
    <3>1. ~Appended(c)
      BY <1>7, <2>3
    <3>2. CASE c = k
      BY <1>4, <1>9, <3>1, <3>2
    <3>3. CASE c # k
      <4>1. c \notin PresentAt
        BY <1>8, <2>1, <2>3, <3>3
      <4>2. QED
        BY <1>9, <3>1, <3>3, <4>1
    <3>4. QED
      BY <3>2, <3>3
  <2>4. QED
    BY <2>2, <2>3
<1>11. ASSUME NEW i \in 1 .. Len(result')
       PROVE  result'[i][1] \in Coordinates /\ result'[i][2] = ValuesAt[result'[i][1]]
  <2>1. CASE i \in 1 .. l
    BY <1>5, <1>7, <2>1
  <2>2. CASE i \notin 1 .. l
    <3>1. Taken # {}
      BY <1>6, <1>11, <2>2
    <3>2. Len(result') = l + 1 /\ result'[l + 1] = <<k, ValuesAt[k]>>
      BY <1>6, <3>1
    <3>3. i = l + 1
      BY <1>5, <1>11, <2>2, <3>2
    <3>4. QED
      BY <1>2, <3>2, <3>3
  <2>3. QED
    BY <2>1, <2>2
<1>12. Coordinates' = Coordinates
  BY DEF Coordinates
<1>13. QED
  BY <1>1, <1>10, <1>11, <1>12 DEF Correct

\* The invariant is inductive where the expression is plain.
LEMMA InitComputes ==
    ASSUME Init
    PROVE  Plain => Computes
<1>1. 0 \in 0 .. Dimension /\ Typed /\ AppendsAscending /\ Visited(0)
  BY InitVisited
<1>2. Passed(0)
  <2> SUFFICES ASSUME NEW it \in lattice[1], it # Dim
               PROVE  \A i \in 1 .. (pos[it.t] - 1) : levels[it.t][i] < 0
    BY DEF Passed
  <2>1. Len(lattice) \in Nat \ {0}
    BY <1>1, LatticeFacts
  <2>2. 1 \in 1 .. Len(lattice)
    BY <2>1
  <2>3. it \in IteratorsOf(expr)
    BY <1>1, <2>2, LatticeFacts
  <2>4. it.t \in Operands
    BY <1>1, <2>3, LoadedFacts
  <2>5. pos[it.t] = 1
    BY <2>4 DEF Init
  <2>6. 1 .. (pos[it.t] - 1) = {}
    BY <2>5
  <2>7. QED
    BY <2>6
<1>3. Correct(0)
  <2>1. Len(result) = 0 /\ 1 .. Len(result) = {}
    BY EmptySeq DEF Init
  <2>2. \A c \in Coordinates : ~(c < 0)
    BY LoopAssumption DEF Coordinates
  <2>3. QED
    BY <2>1, <2>2 DEF Correct
<1>4. QED
  BY <1>1, <1>2, <1>3 DEF Computes

\* Every step keeps what was computed so far right.
LEMMA NextComputes ==
    ASSUME Plain => Computes, [Next]_vars
    PROVE  (Plain => Computes)'
<1>1. /\ expr' = expr /\ lattice' = lattice /\ levels' = levels
  BY DEF Next, Iterate, NextLoop, Finished, vars
<1>2. /\ PresentAt' = PresentAt /\ ValuesAt' = ValuesAt /\ (Plain' <=> Plain)
      /\ Coordinates' = Coordinates
  BY <1>1, SameReference DEF Coordinates
<1> SUFFICES ASSUME Plain PROVE Computes'
  BY <1>2
<1>3. PICK x \in 0 .. Dimension : Visited(x) /\ Passed(x) /\ Correct(x)
  BY DEF Computes
<1>4. Typed /\ AppendsAscending
  BY DEF Computes
<1>5. CASE Iterate
  <2>1. PICK y : y = coordinate + 1
    OBVIOUS
  <2>2. y \in 0 .. Dimension /\ Typed' /\ AppendsAscending' /\ Visited(y)'
    BY <1>3, <1>4, <1>5, <2>1, IterateVisited
  <2>3. Passed(y)'
    BY <1>3, <1>4, <1>5, <2>1, IteratePassed DEF Plain
  <2>4. Correct(y)'
    BY <1>3, <1>4, <1>5, <2>1, IterateCorrect
  <2>5. QED
    BY <2>2, <2>3, <2>4 DEF Computes
<1>6. ASSUME pos' = pos, result' = result
      PROVE  Passed(x)' /\ Correct(x)'
  <2>1. Passed(x)'
    BY <1>1, <1>3, <1>6 DEF Passed
  <2>2. Correct(x)'
    BY <1>2, <1>3, <1>6 DEF Correct
  <2>3. QED
    BY <2>1, <2>2
<1>7. CASE NextLoop
  <2>1. Typed' /\ AppendsAscending' /\ Visited(x)'
    BY <1>3, <1>4, <1>7, NextLoopVisited
  <2>2. Passed(x)' /\ Correct(x)'
    BY <1>6, <1>7 DEF NextLoop
  <2>3. QED
    BY <2>1, <2>2 DEF Computes
<1>8. CASE UNCHANGED vars
  <2>1. /\ loop' = loop /\ pos' = pos /\ dim' = dim /\ result' = result
    BY <1>8 DEF vars
  <2>2. Passed(x)' /\ Correct(x)'
    BY <1>6, <2>1
  <2>3. Typed' /\ AppendsAscending' /\ Visited(x)'
    BY <1>1, <1>3, <1>4, <2>1, StutterVisited
  <2>4. QED
    BY <2>2, <2>3 DEF Computes
<1>9. QED
  BY <1>5, <1>7, <1>8 DEF Next, Finished

\* When the last loop ended, every coordinate was computed.
LEMMA ComputesExpression ==
    ASSUME Plain, Computes
    PROVE  LoopsComputeExpression
<1> SUFFICES ASSUME Done
             PROVE  /\ {result[i][1] : i \in DOMAIN result}
                          = {c \in Coordinates : Present(expr, c)}
                    /\ \A i \in DOMAIN result :
                          result[i][2] = ValueAt(expr, result[i][1])
  BY DEF LoopsComputeExpression
<1>1. PICK x \in 0 .. Dimension : Visited(x) /\ Passed(x) /\ Correct(x)
  BY DEF Computes
<1>2. Typed /\ DOMAIN result = 1 .. Len(result)
  <2>1. PICK R : result \in Seq(R)
    BY DEF Computes, Typed
  <2>2. QED
    BY <2>1, LenProperties DEF Computes
<1>3. \A i \in 1 .. Len(result) :
         /\ result[i][1] \in Coordinates /\ result[i][1] < x
         /\ result[i][2] = ValueAt(expr, result[i][1])
  <2>1. \A c \in Coordinates : ValuesAt[c] = ValueAt(expr, c)
    BY DEF ValuesAt
  <2>2. QED
    BY <1>1, <2>1 DEF Visited, Correct
<1>4. \A c \in PresentAt : c < x
  <2> SUFFICES ASSUME NEW c \in PresentAt, ~(c < x) PROVE FALSE
    OBVIOUS
  <2>1. c \in Nat /\ x \in Nat
    BY LoopAssumption DEF PresentAt, Coordinates
  <2>2. loop <= Len(lattice)
    BY <1>1, <1>2, <2>1, AbsentBetween
  <2>3. loop \in Nat /\ Len(lattice) \in Nat
    BY <1>2, LatticeFacts DEF Typed
  <2>4. QED
    BY <2>2, <2>3 DEF Done
<1>5. \A c \in Coordinates : c < x =>
         ((\E i \in 1 .. Len(result) : result[i][1] = c) <=> c \in PresentAt)
  BY <1>1 DEF Correct
<1>6. {result[i][1] : i \in 1 .. Len(result)} = PresentAt
  <2>1. PresentAt \subseteq Coordinates
    BY DEF PresentAt
  <2>2. QED
    BY <1>3, <1>4, <1>5, <2>1
<1>7. QED
  BY <1>2, <1>3, <1>6 DEF PresentAt

(***************************************************************************)
(* The theorems.                                                           *)
(***************************************************************************)
\* Whatever the expression, its loops find no coordinate twice and none out of
\* order, so that what appendCoordinate() writes is a compressed level.
THEOREM AppendsAscendingHolds == Spec => []AppendsAscending
<1>1. Invariant => AppendsAscending
  BY DEF Invariant
<1>2. QED
  BY <1>1, InitInvariant, NextInvariant, PTL DEF Spec

\* Whatever the expression, codeToLoadCoordinatesFromPosIterators() loads from
\* positions inside the levels only, also where the loop tests the sparse
\* iterators and not the full ones.
THEOREM LoadsInsideHolds == Spec => []LoadsInside
<1>1. Invariant => LoadsInside
  BY InvariantLoadsInside
<1>2. QED
  BY <1>1, InitInvariant, NextInvariant, PTL DEF Spec

\* Whatever the expression, lowerMergeCases() may leave out the test of the
\* last case of a lattice that exact() accepts.
THEOREM ExactHasCaseHolds == Spec => []ExactHasCase
<1>1. Invariant => ExactHasCase
  BY InvariantExact
<1>2. QED
  BY <1>1, InitInvariant, NextInvariant, PTL DEF Spec

\* Whatever the expression, codeToIncIteratorVars() advances an iterator in
\* every iteration: no loop runs forever.
THEOREM IterationAdvancesHolds == Spec => []IterationAdvances
<1>1. Invariant => IterationAdvances
  BY InvariantAdvances
<1>2. QED
  BY <1>1, InitInvariant, NextInvariant, PTL DEF Spec

\* The loops lowerMergeLattice() emits from the lattice of an expression append
\* the value of the expression at every coordinate where it has a component, and
\* nothing else, for every size of the dimension and every pattern of the
\* operands, as long as no term of a sum is a product with a full level and no
\* level with duplicates is merged with a full one (Plain).
THEOREM PlainLoopsComputeExpression ==
    Spec => [](Plain => LoopsComputeExpression)
<1>1. Init => (Plain => Computes)
  BY InitComputes
<1>2. (Plain => Computes) /\ [Next]_vars => (Plain => Computes)'
  BY NextComputes
<1>3. (Plain => Computes) => (Plain => LoopsComputeExpression)
  BY ComputesExpression
<1>4. QED
  BY <1>1, <1>2, <1>3, PTL DEF Spec

\* So the loops compute every expression if those that lowerMergeLattice() is
\* given are not of these two usage patterns.
THEOREM LoopsComputeExpressionHolds ==
    ASSUME "fullFactor" \notin Usage, "fullDuplicates" \notin Usage
    PROVE  Spec => []LoopsComputeExpression
<1>1. Init => Plain
  BY DEF Init, Supported, Plain
<1>2. Plain /\ [Next]_vars => Plain'
  BY DEF Next, Iterate, NextLoop, Finished, vars, Plain
<1>3. Spec => [](Plain => LoopsComputeExpression)
  BY PlainLoopsComputeExpression
<1>4. QED
  BY <1>1, <1>2, <1>3, PTL DEF Spec
=============================================================================
