---------------------------- MODULE MCLazyTensor ----------------------------
(***************************************************************************)
(* Instances of LazyTensor for TLC.                                        *)
(***************************************************************************)
EXTENDS LazyTensor

CONSTANTS a, b, c

Simple(S)   == [defined : {TRUE}, operands : S, compound : {FALSE}]
Compound(S) == [defined : {TRUE}, operands : S, compound : {TRUE}]

\* Two tensors, plain and compound assignments, either mode of assembly.
TwoTensors     == {a, b}
TwoExpressions == Simple({{}, {a}, {b}}) \cup Compound({{}, {b}})

\* Three tensors: chains, diamonds, shared operands and reassignments that
\* would close a circle.
ThreeTensors     == {a, b, c}
ThreeExpressions == Simple({S \in SUBSET ThreeTensors : Cardinality(S) \in 1 .. 2})

\* Three tensors whose assignments fail at each of the stages of compile(), or
\* do not: b and c may read a, one of them rightly and the other not.
SomeFailing  == Simple({{a}, {c}, {a, b}, {a, c}})
RejectedSets == {{a, b}}
UnlowerableSets  == {{a, c}}
UncompilableSets == {{c}}

Symmetric == Permutations(ThreeTensors)
=============================================================================
