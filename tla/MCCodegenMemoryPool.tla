------------------------- MODULE MCCodegenMemoryPool -------------------------
(***************************************************************************)
(* CodegenMemoryPool for TLC: chunks of eight words, one of them the link, *)
(* alignments up to two.                                                   *)
(***************************************************************************)
EXTENDS CodegenMemoryPool, TLC

\* Two objects fill a chunk, unless both have to be aligned.
TwoSizes == {[align |-> 2, size |-> 3], [align |-> 1, size |-> 3]}
\* The largest object that may be asked for.
OneSize  == {[align |-> 2, size |-> 6]}

Symmetric == Permutations(Threads) \cup Permutations(Chunks)
=============================================================================
