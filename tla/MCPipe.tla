------------------------------- MODULE MCPipe -------------------------------
(* Pipe for TLC: process slots are alike, and so are the bytes.            *)
EXTENDS Pipe, TLC

Symmetry == Permutations(Procs) \cup Permutations(Bytes)
=============================================================================
