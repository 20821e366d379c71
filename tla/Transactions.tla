---------------------------- MODULE Transactions ----------------------------
(***************************************************************************)
(* What the log promises to file system calls: the blocks that all the     *)
(* calls open at the same time write reach the disk together or, after a   *)
(* crash, not at all.  A save happens only when no call is open, so no     *)
(* call is ever split.                                                     *)
(***************************************************************************)
CONSTANTS
    Procs,     \* callers of begin_op and end_op
    Home,      \* blocks of the file system
    Data,      \* contents of a block
    Blank      \* the contents of every block of a new file system

VARIABLES
    open,      \* the callers between begin_op and end_op
    now,       \* now[b]: block b as system calls see it
    saved      \* saved[b]: block b as a restart would find it

dvars == <<open, now, saved>>

Init ==
    /\ open = {}
    /\ now = [b \in Home |-> Blank]
    /\ saved = now

Begin(p) == open' = open \cup {p} /\ UNCHANGED <<now, saved>>

Write(p) ==
    /\ p \in open
    /\ \E b \in Home, d \in Data : now' = [now EXCEPT ![b] = d]
    /\ UNCHANGED <<open, saved>>

End(p) == open' = open \ {p} /\ UNCHANGED <<now, saved>>

Save == open = {} /\ saved' = now /\ UNCHANGED <<open, now>>

Crash == open' = {} /\ now' = saved /\ saved' = saved

Next == Save \/ Crash \/ \E p \in Procs : Begin(p) \/ Write(p) \/ End(p)

Spec == Init /\ [][Next]_dvars
=============================================================================
