--------------------------- MODULE MCMergedLoops ----------------------------
(***************************************************************************)
(* An instance of MergedLoops for TLC: every expression with up to three   *)
(* operands.                                                               *)
(***************************************************************************)
EXTENDS MergedLoops

Leaves(t) == {Access(t, kind) : kind \in Kinds}

\* a op b, where b may be a literal.
Pairs(ops) == {<<a, b, Binary(op, 1, 2)>> :
                  op \in ops, a \in Leaves(1), b \in Leaves(2) \cup {Literal}}

UpToThree ==
    {<<a>> : a \in Leaves(1) \cup {Literal}}
    \cup Pairs({"add", "sub", "mul"})
    \cup {p \o <<c, Binary(op, 3, 4)>> :
             op \in {"add", "sub", "mul"}, p \in Pairs({"add", "mul"}), c \in Leaves(3)}
    \cup {p \o <<Neg(3), c, Binary(op, 5, 4)>> :
             op \in {"add", "sub", "mul"}, p \in Pairs({"add", "mul"}), c \in Leaves(3)}
=============================================================================
