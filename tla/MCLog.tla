------------------------------- MODULE MCLog -------------------------------
(* Log for TLC: processes are alike, and so are the home blocks.           *)
EXTENDS Log, TLC

Symmetry == Permutations(Procs) \cup Permutations(Home)
=============================================================================
