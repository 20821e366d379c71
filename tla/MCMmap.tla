------------------------------- MODULE MCMmap -------------------------------
(***************************************************************************)
(* Mmap for TLC: what programs ask for and how many calls they make.       *)
(***************************************************************************)
EXTENDS Mmap, TLC

CONSTANT MaxCalls     \* BOUND: calls of mmap, munmap and fork together

VARIABLE calls

(* A read-only mapping of both pages, and a writable one of the second.    *)
MCRequests == {[va |-> 0, end |-> 2, write |-> FALSE], [va |-> 1, end |-> 2, write |-> TRUE]}

Symmetry == Permutations(Pages)

Calling == \E p \in Procs : at[p] = "user" /\ at'[p] \in {"mmap", "populate", "munmap", "fork"}

MCInit == Init /\ calls = 0

MCNext ==
    /\ Next
    /\ calls' = IF Calling THEN calls + 1 ELSE calls
    /\ calls' <= MaxCalls

MCSpec == MCInit /\ [][MCNext]_<<vars, calls>>

(* The free list is threaded through the free pages: once one of them is   *)
(* mapped, or freed again, the list may hold anything and the program has  *)
(* no meaning any more.  Such states are reached, and not left.            *)
Sound == NoUseAfterFree
=============================================================================
