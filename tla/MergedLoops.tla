----------------------------- MODULE MergedLoops ------------------------------
(***************************************************************************)
(* The loops that the lowering emits for R(i) = e from the merge lattice   *)
(* of e (lowerMergeLattice() and what it calls in                          *)
(* src/lower/lowerer_impl_imperative.cpp), run on operands of every        *)
(* pattern: one while loop for each lattice point, one step for each       *)
(* iteration.  The result is compressed: every case that is executed       *)
(* appends a coordinate and a value.                                       *)
(***************************************************************************)
EXTENDS MergeLattice, Integers

CONSTANTS
    Dimension,      \* the coordinates are 0..Dimension-1
    Operands,       \* numbers of the operands
    Expressions,    \* right-hand sides
    MaxDuplicates,  \* bound: components in a level with duplicates
    Usage           \* patterns of expressions that are allowed: "fullFactor",
                    \* "fullDuplicates"

Kinds == {"dense", "compressed", "full", "duplicates"}

\* The nodes that a node is made of.
Parts(node) ==
    CASE node.op = "neg" -> {node.a}
      [] node.op \in {"add", "sub", "mul"} -> {node.a, node.b}
      [] OTHER -> {}

\* e is an expression in which every operand is accessed at most once: the
\* tree of its last node.
IsExpression(e) ==
    /\ e # <<>>
    /\ \A n \in DOMAIN e :
          \/ e[n] \in [op : {"access"}, t : Operands, kind : Kinds]
          \/ e[n] = Literal
          \/ e[n] \in [op : {"neg"}, a : 1..(n - 1)]
          \/ /\ e[n] \in [op : {"add", "sub", "mul"}, a : 1..(n - 1), b : 1..(n - 1)]
             /\ e[n].a # e[n].b
    /\ \A m, n \in DOMAIN e :
          e[m].op = "access" /\ e[n].op = "access" /\ e[m].t = e[n].t => m = n
    /\ \A m, n \in DOMAIN e : m # n => Parts(e[m]) \cap Parts(e[n]) = {}
    /\ \A n \in 1..(Len(e) - 1) : \E m \in DOMAIN e : n \in Parts(e[m])

ASSUME LoopAssumption ==
    /\ Dimension \in Nat \ {0}
    /\ Operands \subseteq Nat \ {0}
    /\ MaxDuplicates \in Nat

ASSUME ExpressionsAssumption ==
    \A e \in Expressions : e \in Seq(Range(e)) /\ IsExpression(e)

VARIABLES
    expr,       \* the right-hand side
    lattice,    \* its merge lattice
    levels,     \* for each operand, the coordinates of its components
    loop,       \* the lattice point whose loop is running
    pos,        \* the position variable of each operand
    dim,        \* the variable of the dimension iterator
    result      \* the coordinates and values appended so far

vars == <<expr, lattice, levels, loop, pos, dim, result>>

Coordinates == 0..(Dimension - 1)

(***************************************************************************)
(* The inputs: every expression with every pattern of components.          *)
(***************************************************************************)
\* checkThatNoneAreExhausted() takes a single full iterator or none.
Lowerable(points) ==
    \A p \in Range(points) :
        Cardinality(Rangers(p)) # 1 => \A it \in Rangers(p) : ~IsFull(it)

\* For each node, the nodes of its expression.
Below(e) ==
    LET below[n \in DOMAIN e] == {n} \cup UNION {below[m] : m \in Parts(e[n])}
    IN  below

\* A full level is a factor of a product inside a sum.
FullFactor(e) ==
    \E sum \in DOMAIN e : \E product \in Below(e)[sum] : \E n \in Below(e)[product] :
        /\ e[sum].op \in {"add", "sub"} /\ e[product].op = "mul"
        /\ e[n].op = "access" /\ e[n].kind = "full"

\* A point merges a full level and takes duplicates along.
FullDuplicates(points) ==
    \E p \in Range(points) :
        /\ \E it \in p : it.kind = "full"
        /\ \E it \in p : ~IsUnique(it)

Supported(e, points) ==
    /\ Lowerable(points)
    /\ FullFactor(e) => "fullFactor" \in Usage
    /\ FullDuplicates(points) => "fullDuplicates" \in Usage

Lists(max) == UNION {[1..n -> Coordinates] : n \in 0..max}
All == [i \in 1..Dimension |-> i - 1]

\* The components a level of each kind may have.
Patterns ==
    [kind \in Kinds |->
        CASE kind \in {"dense", "full"} -> {All}
          [] kind = "compressed" ->
                {s \in Lists(Dimension) : \A i \in 1..(Len(s) - 1) : s[i] < s[i + 1]}
          [] kind = "duplicates" ->
                {s \in Lists(MaxDuplicates) : \A i \in 1..(Len(s) - 1) : s[i] <= s[i + 1]}]

Levels == [Operands -> {s \in Lists(Max({Dimension, MaxDuplicates})) :
                            \E kind \in Kinds : s \in Patterns[kind]}]

KindOf(e, t) ==
    IF \E n \in DOMAIN e : e[n].op = "access" /\ e[n].t = t
    THEN e[CHOOSE n \in DOMAIN e : e[n].op = "access" /\ e[n].t = t].kind
    ELSE "dense"

\* The value of a component of operand t at coordinate c.
Value(t, c) == 1 + c + 3 * t

\* What the components of operand t at the positions K add up to.
Total(t, K) == MapThenSumSet(LAMBDA i : Value(t, levels[t][i]), K)

\* The value of a node; x is the value of an access, value has those of the
\* nodes before.
NodeValue(node, x, value) ==
    CASE node.op = "access" -> x
      [] node.op = "literal" -> 2
      [] node.op = "neg" -> 0 - value[node.a]
      [] node.op = "add" -> value[node.a] + value[node.b]
      [] node.op = "sub" -> value[node.a] - value[node.b]
      [] node.op = "mul" -> value[node.a] * value[node.b]
      [] node.op = "undefined" -> 0

Init ==
    /\ expr \in Expressions
    /\ lattice = Build(expr)
    /\ Supported(expr, lattice)
    /\ levels \in Levels
    /\ \A t \in Operands : levels[t] \in Patterns[KindOf(expr, t)]
    /\ loop = 1
    /\ pos = [t \in Operands |-> 1]
    /\ dim = 0
    /\ result = <<>>

(***************************************************************************)
(* One iteration of the loop of a point.                                   *)
(***************************************************************************)
\* lowerMergePoint() takes the point from the front of its sublattice.
sublattice == SubLattice(lattice, lattice[loop])
point == sublattice[1]

Unexhausted(it) ==
    IF IsDimension(it) THEN dim < Dimension ELSE pos[it.t] <= Len(levels[it.t])

Running ==
    /\ loop <= Len(lattice)
    /\ \A it \in Rangers(point) : Unexhausted(it)

\* codeToLoadCoordinatesFromPosIterators().
Loaded(it) == IF IsDimension(it) THEN dim ELSE levels[it.t][pos[it.t]]

\* resolveCoordinate(): the least coordinate of the mergers.  Where a dimension
\* iterator is one of several the code declares the minimum in that iterator's
\* own variable, which is not modelled: of the expressions of up to three
\* operands only those of the usage pattern "fullFactor" have such a point.
coordinate == Min({Loaded(it) : it \in Mergers(point)})

(***************************************************************************)
(* reduceDuplicateCoordinates(): how far a level with duplicates advances. *)
(* If it is known to be at the coordinate, the first component is taken    *)
(* without a test.                                                         *)
(***************************************************************************)
AlwaysReduce == \E it \in Mergers(point) : Mergers(point) = {it} /\ HasPosIter(it)

\* Mutant: a level with duplicates advances by one component.
SegmentEnd_One(it) == pos[it.t] + 1

SegmentEnd(it) ==
    LET from == IF AlwaysReduce THEN pos[it.t] + 1 ELSE pos[it.t]
        ends == {n \in from..(Len(levels[it.t]) + 1) :
                    \A i \in from..(n - 1) : levels[it.t][i] = coordinate}
    IN  Max(ends \cup {from})

\* The value of an access in the body of the loop.
OperandValue(a) ==
    LET it == Iterator(a.t, a.kind)
        components == IF IsUnique(it) THEN {pos[a.t]}
                      ELSE pos[a.t]..(SegmentEnd(it) - 1)
    IN  IF HasPosIter(it) THEN Total(a.t, components) ELSE Value(a.t, coordinate)

Evaluate(e) ==
    LET value[n \in DOMAIN e] == NodeValue(e[n], OperandValue(e[n]), value)
    IN  value[Len(e)]

(***************************************************************************)
(* lowerMergeCases(): the first point of the sublattice whose iterators    *)
(* are all at the coordinate; if the sublattice is exact, the last of      *)
(* several is not tested.                                                  *)
(***************************************************************************)
Matches(p) == \A it \in Rangers(p) : Loaded(it) = coordinate

Statement == Zero(expr, Exhausted(lattice, lattice[loop]))

\* The cases that may be taken: at most one.
Taken ==
    IF Cardinality(Iterators(sublattice)) = 1 THEN {1}
    ELSE {n \in DOMAIN sublattice :
            /\ \/ Matches(sublattice[n])
               \/ Exact(sublattice) /\ n = Len(sublattice) /\ n > 1
            /\ \A m \in 1..(n - 1) : ~Matches(sublattice[m])}

Case(n) ==
    IF Cardinality(Iterators(sublattice)) = 1 THEN Statement
    ELSE Zero(Statement, Exhausted(sublattice, sublattice[n]))

\* Mutant: an iterator advances only if a case was executed.
Advanced_Taken(it) ==
    IF ~IsUnique(it) THEN SegmentEnd(it)
    ELSE IF Cardinality(point) = 1 \/ IsFull(it) THEN pos[it.t] + 1
    ELSE IF Loaded(it) = coordinate /\ Taken # {} THEN pos[it.t] + 1 ELSE pos[it.t]

\* codeToIncIteratorVars().
Advanced(it) ==
    IF ~IsUnique(it) THEN SegmentEnd(it)
    ELSE IF Cardinality(point) = 1 \/ IsFull(it) THEN pos[it.t] + 1
    ELSE IF Loaded(it) = coordinate THEN pos[it.t] + 1 ELSE pos[it.t]

Iterate ==
    /\ Running
    /\ result' = result \o [i \in 1..Cardinality(Taken) |->
                    <<coordinate, Evaluate(Case(CHOOSE n \in Taken : TRUE))>>]
    /\ pos' = [t \in Operands |->
                  IF \E it \in point : it.t = t
                  THEN Advanced(CHOOSE it \in point : it.t = t)
                  ELSE pos[t]]
    /\ dim' = IF Dim \in point THEN dim + 1 ELSE dim
    /\ UNCHANGED <<expr, lattice, levels, loop>>

NextLoop ==
    /\ loop <= Len(lattice)
    /\ ~Running
    /\ loop' = loop + 1
    /\ UNCHANGED <<expr, lattice, levels, pos, dim, result>>

Done == loop > Len(lattice)

\* The kernel has returned.
Finished == Done /\ UNCHANGED vars

Next == Iterate \/ NextLoop \/ Finished

Spec == Init /\ [][Next]_vars

-----------------------------------------------------------------------------
(***************************************************************************)
(* The reference: the expression at a coordinate, and whether it has a     *)
(* component there.                                                        *)
(***************************************************************************)
\* The components of an access at a coordinate.
ComponentsAt(a, c) == {i \in DOMAIN levels[a.t] : levels[a.t][i] = c}

ValueAt(e, c) ==
    LET value[n \in DOMAIN e] ==
            NodeValue(e[n], Total(e[n].t, ComponentsAt(e[n], c)), value)
    IN  value[Len(e)]

\* Whether a node has a component; x is whether an access has one, present has
\* the nodes before.
NodePresent(node, x, present) ==
    CASE node.op = "access" -> x
      [] node.op = "literal" -> TRUE
      [] node.op = "neg" -> present[node.a]
      [] node.op \in {"add", "sub"} -> present[node.a] \/ present[node.b]
      [] node.op = "mul" -> present[node.a] /\ present[node.b]

Present(e, c) ==
    LET present[n \in DOMAIN e] ==
            NodePresent(e[n], c \in Range(levels[e[n].t]), present)
    IN  present[Len(e)]

\* When the loops are done, every coordinate at which the expression has a
\* component was visited and no other, with the value of the expression
\* there: the loops of the lattice compute the expression.
LoopsComputeExpression ==
    Done =>
        /\ {result[i][1] : i \in DOMAIN result}
              = {c \in Coordinates : Present(expr, c)}
        /\ \A i \in DOMAIN result : result[i][2] = ValueAt(expr, result[i][1])

\* Coordinates are appended in ascending order and only once, also across the
\* loops of several points: appendCoordinate() never looks back.
AppendsAscending ==
    \A i \in 1..(Len(result) - 1) : result[i][1] < result[i + 1][1]

\* While a loop runs, the coordinate of every iterator of its point is loaded
\* from a position inside its level, also of those that are not tested, and no
\* level is advanced past its end.
LoadsInside ==
    /\ Running => \A it \in point : Unexhausted(it)
    /\ \A t \in Operands : pos[t] \in 1..(Len(levels[t]) + 1)

\* A sublattice that is exact has a case for every coordinate its loop
\* visits: the test of the last case may be left out.
ExactHasCase ==
    Running /\ Exact(sublattice) =>
        \E n \in DOMAIN sublattice : Matches(sublattice[n])

\* No iteration leaves every iterator where it is: the loops end.
IterationAdvances ==
    Running =>
        \E it \in point :
            IsDimension(it) \/ Advanced(it) > pos[it.t]
=============================================================================
