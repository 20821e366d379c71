----------------------------- MODULE BlockStore -----------------------------
(***************************************************************************)
(* What bread(), bwrite() and brelse() promise: a set of blocks, each of   *)
(* which one process at a time has for itself, reads as it was last        *)
(* written by anybody, and changes.                                        *)
(***************************************************************************)
CONSTANTS
    Procs,     \* callers
    Blocks,    \* blocks of the disk
    Data,      \* contents of a block
    Free       \* nobody has the block

VARIABLES
    val,       \* val[k]: the contents of block k
    owner      \* owner[k]: the process that has block k, or Free

bvars == <<val, owner>>

Init ==
    /\ val \in [Blocks -> Data]
    /\ owner = [k \in Blocks |-> Free]

Take(p, k) ==
    /\ owner[k] = Free
    /\ owner' = [owner EXCEPT ![k] = p]
    /\ UNCHANGED val

Change(p, k) ==
    /\ owner[k] = p
    /\ \E d \in Data : val' = [val EXCEPT ![k] = d]
    /\ UNCHANGED owner

GiveBack(p, k) ==
    /\ owner[k] = p
    /\ owner' = [owner EXCEPT ![k] = Free]
    /\ UNCHANGED val

Next == \E p \in Procs, k \in Blocks : Take(p, k) \/ Change(p, k) \/ GiveBack(p, k)

Spec == Init /\ [][Next]_bvars
=============================================================================
