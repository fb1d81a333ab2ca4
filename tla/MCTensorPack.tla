----------------------------- MODULE MCTensorPack -----------------------------
(***************************************************************************)
(* Instances of TensorPack: A and C are sparse matrices stored by columns, *)
(* B is a dense matrix and S a scalar.  A and C share their helper         *)
(* functions.                                                              *)
(***************************************************************************)
EXTENDS TensorPack

CONSTANTS A, B, C, S

MCOrder == [t \in Tensors |-> IF t = S THEN 0 ELSE 2]

MCInserts ==
    [t \in Tensors |-> CASE t = A -> 3 [] t = S -> 2 [] OTHER -> 1]
=============================================================================
