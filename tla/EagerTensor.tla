---------------------------- MODULE EagerTensor -----------------------------
(***************************************************************************)
(* What TensorBase promises its client: a tensor is a value; inserting     *)
(* increments it, assigning or setStorage replaces it, and reading it (or  *)
(* packing, compiling, assembling, computing it) leaves it alone.          *)
(*                                                                         *)
(* A value is the set of the mutations it is made of, numbered by `clock'. *)
(***************************************************************************)
EXTENDS Naturals

CONSTANTS Tensors, Clock
VARIABLES value, clock

vars == <<value, clock>>

Init ==
    /\ value = [t \in Tensors |-> {}]
    /\ clock = 0

\* The components of an insert are added to those already there.
Insert(t) ==
    /\ clock < Clock
    /\ value' = [value EXCEPT ![t] = @ \cup {clock + 1}]
    /\ clock' = clock + 1

\* The value of the expression, over its operands as they are now, replaces
\* the value of the tensor.
Assign(t) ==
    /\ clock < Clock
    /\ value' = [value EXCEPT ![t] = {clock + 1}]
    /\ clock' = clock + 1

Next == \E t \in Tensors : Insert(t) \/ Assign(t)

Spec == Init /\ [][Next]_vars
=============================================================================
