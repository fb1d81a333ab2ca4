----------------------------- MODULE MergeLattice -----------------------------
(***************************************************************************)
(* The merge lattice of an expression over one index variable              *)
(* (src/lower/merge_lattice.cpp): which iterators the loops over the       *)
(* variable advance together, and which of them may run out first.         *)
(*                                                                         *)
(* An expression is a sequence of nodes: accesses to operands, literals    *)
(* and operations, which name their own operands by position.  Operands    *)
(* come before the operation, the whole expression last.  Every access is  *)
(* an operand of its own and has one level, of one of the kinds of the     *)
(* mode formats:                                                           *)
(*   "dense"       located, never iterated over;                           *)
(*   "compressed"  an ascending list of coordinates;                       *)
(*   "full"        compressed, with every coordinate;                      *)
(*   "duplicates"  compressed, not unique: coordinates may repeat.         *)
(* An iterator is a record of the operand's number and kind; Dim is the    *)
(* iterator over the dimension.  A point is the set of its iterators: the  *)
(* accesses have different ones, and of several dimension iterators        *)
(* deduplicateDimensionIterators() leaves one.  A lattice is a sequence of *)
(* points.  Left out are the locators, which the kind of an operand tells, *)
(* and the result iterators, which are the same in every point.            *)
(***************************************************************************)
EXTENDS Naturals, SequencesExt

Access(t, kind) == [op |-> "access", t |-> t, kind |-> kind]
Literal == [op |-> "literal"]
Neg(a) == [op |-> "neg", a |-> a]
Binary(op, a, b) == [op |-> op, a |-> a, b |-> b]
Undefined == [op |-> "undefined"]

Iterator(t, kind) == [t |-> t, kind |-> kind]
Dim == Iterator(0, "dimension")

IsFull(it) == it.kind \in {"dimension", "full"}
IsUnique(it) == it.kind # "duplicates"
HasPosIter(it) == it.kind \in {"compressed", "full", "duplicates"}
IsDimension(it) == it = Dim

\* iterators() of a lattice are those of its first point.
Iterators(lattice) == lattice[1]

\* The elements of s at the positions K, in their order.
Keep(s, K) ==
    LET kept[n \in 0..Len(s)] ==
            IF n = 0 THEN <<>>
            ELSE IF n \in K THEN Append(kept[n - 1], s[n])
            ELSE kept[n - 1]
    IN  kept[Len(s)]

(***************************************************************************)
(* intersectPoints() and intersectLattices().  No iterator that is         *)
(* iterated over can be located in the formats of the library, so the side *)
(* to locate from only decides which dimension iterator is dropped.        *)
(***************************************************************************)
LocateFromLeft(left, right) ==
    Dim \notin Iterators(right) /\ Dim \in Iterators(left)

IntersectPoints(left, right, locateLeft) ==
    IF locateLeft THEN (left \ {Dim}) \cup right ELSE left \cup (right \ {Dim})

UnionPoints(left, right) == left \cup right

\* All combinations of the points of two lattices, those of the first point
\* of the left lattice first.
Combinations(left, right) ==
    LET rows[i \in 0..Len(left)] ==
            IF i = 0 THEN <<>>
            ELSE rows[i - 1] \o [j \in 1..Len(right) |-> <<left[i], right[j]>>]
    IN  rows[Len(left)]

IntersectLattices(left, right) ==
    LET pairs  == Combinations(left, right)
        locate == LocateFromLeft(left, right)
    IN  [n \in DOMAIN pairs |-> IntersectPoints(pairs[n][1], pairs[n][2], locate)]

(***************************************************************************)
(* unionLattices() and its optimizations.  Every iterator of the library   *)
(* that lacks locate must be ordered, so insertDimensionIteratorIfNotOr-   *)
(* dered() and moveLocateSubsetIteratorsToLocateSet() change nothing.      *)
(***************************************************************************)
RemovePointsThatLackFullIterators(points) ==
    LET full == {it \in points[1] : IsFull(it)}
    IN  Keep(points, {i \in DOMAIN points : full \subseteq points[i]})

RemovePointsWithIdenticalIterators(points) ==
    Keep(points, {i \in DOMAIN points : \A j \in 1..(i - 1) : points[i] # points[j]})

UnionsOfPoints(left, right) ==
    LET pairs == Combinations(left, right)
    IN  [n \in DOMAIN pairs |-> UnionPoints(pairs[n][1], pairs[n][2])]

\* Mutant: the points of the second lattice are forgotten.
UnionLattices_NoRight(left, right) ==
    RemovePointsWithIdenticalIterators(RemovePointsThatLackFullIterators(
        UnionsOfPoints(left, right) \o left))

UnionLattices(left, right) ==
    RemovePointsWithIdenticalIterators(RemovePointsThatLackFullIterators(
        UnionsOfPoints(left, right) \o left \o right))

(***************************************************************************)
(* The lattice of an expression: MergeLatticeBuilder.                      *)
(***************************************************************************)
ModeIterationLattice == <<{Dim}>>

AccessLattice(access) ==
    LET it == Iterator(access.t, access.kind)
    IN  IF HasPosIter(it) THEN <<{it}>> ELSE <<{Dim}>>

\* The lattice of a node when the nodes before it have the lattices f.
NodeLattice(node, f) ==
    CASE node.op = "access" -> AccessLattice(node)
      [] node.op = "literal" -> ModeIterationLattice
      [] node.op = "neg" -> f[node.a]
      [] node.op \in {"add", "sub"} -> UnionLattices(f[node.a], f[node.b])
      [] node.op = "mul" -> IntersectLattices(f[node.a], f[node.b])

Build(e) ==
    LET lattice[n \in DOMAIN e] == NodeLattice(e[n], lattice)
    IN  lattice[Len(e)]

(***************************************************************************)
(* What the lowering asks of a lattice and of a point.                     *)
(***************************************************************************)
SubLattice(lattice, point) ==
    Keep(lattice, {i \in DOMAIN lattice : lattice[i] \subseteq point})

Exhausted(lattice, point) == Iterators(lattice) \ point

\* Mutant: one point with a single iterator is enough.
Exact_One(lattice) ==
    \/ \E p \in Range(lattice) : \A it \in p : IsFull(it)
    \/ \E p \in Range(lattice) : \E it \in p : p = {it}

\* exact(): some point iterates over full iterators only, or every iterator
\* has a point of its own.
Exact(lattice) ==
    \/ \E p \in Range(lattice) : \A it \in p : IsFull(it)
    \/ \A it \in Iterators(lattice) : {it} \in Range(lattice)

FullOf(point) == {it \in point : IsFull(it)}
SparseOf(point) == {it \in point : ~IsFull(it)}

\* Mutant: the full iterators end the loop.
Rangers_Full(point) == IF FullOf(point) # {} THEN FullOf(point) ELSE point

\* The iterators whose exhaustion ends the loop of a point.
Rangers(point) == IF SparseOf(point) # {} THEN SparseOf(point) ELSE point

\* The iterators that decide which coordinate comes next.
Mergers(point) == IF FullOf(point) # {} THEN FullOf(point) ELSE point

(***************************************************************************)
(* zero() of index_notation.cpp: an expression without some accesses.  A   *)
(* node that loses one of its operands becomes the other one.              *)
(***************************************************************************)
\* What becomes of a node when the nodes before it have become done.
ZeroNode(node, done, zeroed) ==
    CASE node.op \in {"literal", "undefined"} -> node
      [] node.op = "access" ->
            IF Iterator(node.t, node.kind) \in zeroed THEN Undefined ELSE node
      [] node.op = "neg" ->
            IF done[node.a] = Undefined THEN Undefined ELSE node
      [] OTHER ->
            LET a == done[node.a]
                b == done[node.b]
            IN  CASE a = Undefined /\ b = Undefined -> Undefined
                  [] a = Undefined /\ b # Undefined ->
                        IF node.op = "mul" THEN Undefined
                        ELSE IF node.op = "sub" THEN Neg(node.b) ELSE b
                  [] a # Undefined /\ b = Undefined ->
                        IF node.op = "mul" THEN Undefined ELSE a
                  [] OTHER -> node

Zero(e, zeroed) ==
    LET zero[n \in 0..Len(e)] ==
            IF n = 0 THEN <<>>
            ELSE LET done == zero[n - 1] IN Append(done, ZeroNode(e[n], done, zeroed))
    IN  zero[Len(e)]
=============================================================================
