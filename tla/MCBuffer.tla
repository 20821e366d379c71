------------------------------ MODULE MCBuffer ------------------------------
(* Buffer for TLC: callers are alike, and so are the blocks and what is in *)
(* them.                                                                   *)
EXTENDS Buffer, TLC

Symmetry == Permutations(Procs) \cup Permutations(Blocks) \cup Permutations(Data)
=============================================================================
