-------------------------------- MODULE Cfs --------------------------------
(***************************************************************************)
(* The weighted fair scheduler of PA2 (xv6-public_pa2): virtual runtimes   *)
(* in scheduler(), wakeup1(), fork(), kill() and setnice() (proc.c), and   *)
(* the timer interrupt that charges and yields (trap.c).                   *)
(*                                                                         *)
(* What the process table shares with the unmodified kernel is in Proc: a  *)
(* step here is a whole section under ptable.lock, and a slot is free as   *)
(* soon as its process exits.  vruntime is an unsigned integer of Width    *)
(* values.  The weights enter as Delta, the virtual time of one tick:      *)
(* 1000 * 1024 / weight_table[nice].                                       *)
(***************************************************************************)
EXTENDS Integers, FiniteSets

CONSTANTS
    NCPU, NPROC,
    Nices,         \* the nice values in use
    Delta,         \* Delta[n]: what a tick adds to the vruntime at nice n
    Width,         \* vruntime is an integer modulo Width (2^32)
    Horizon        \* BOUND: no process is charged beyond this vruntime

ASSUME CfsAssumption ==
    /\ NCPU \in Nat \ {0} /\ NPROC \in Nat \ {0}
    /\ Delta \in [Nices -> Nat \ {0}] /\ Width \in Nat \ {0} /\ Horizon \in Nat

(* Some nice value costs most: there are 40 of them in the code.           *)
ASSUME WeightAssumption == \E n \in Nices : \A m \in Nices : Delta[m] <= Delta[n]

CPUs  == 0 .. NCPU - 1
Slots == 1 .. NPROC
None  == 0

VARIABLES
    state, nice, vruntime,      \* fields of struct proc
    proc,       \* proc[c]: the process CPU c runs
    irq,        \* irq[c]: stage of the timer interrupt on CPU c
    again,      \* again[p]: p was switched away inside the timer interrupt
    np,         \* np[p]: fork()'s local variable
    past,       \* past[p]: history of p and the ancestors it was forked from
    due         \* due[p]: history, what vruntime[p] would be at least, had its
                \* fork() copied it when the child was made RUNNABLE

vars == <<state, nice, vruntime, proc, irq, again, np, past, due>>
ctl  == <<proc, irq, again>>
prog == <<np, past, due>>

Init ==
    /\ state = [p \in Slots |-> IF p = 1 THEN "RUNNABLE" ELSE "UNUSED"]
    /\ \E n \in Nices : nice = [p \in Slots |-> n]
    /\ vruntime = [p \in Slots |-> 0]
    /\ proc = [c \in CPUs |-> None] /\ irq = [c \in CPUs |-> "none"]
    /\ again = [p \in Slots |-> FALSE]
    /\ np = [p \in Slots |-> None]
    /\ past = [p \in Slots |-> "hog"] /\ due = [p \in Slots |-> 0]

InState(s) == {p \in Slots : state[p] = s}
Runnable   == InState("RUNNABLE")

(* p runs on c, outside the timer interrupt; it is not inside fork().      *)
Runs(c, p) == proc[c] = p /\ p # None /\ irq[c] = "none"
Free(c, p) == Runs(c, p) /\ np[p] = None

-----------------------------------------------------------------------------
(* scheduler(): the first process whose vruntime is least, and less than   *)
(* the ~0 that the search starts from (a vruntime of ~0 is never picked).  *)

BugBefore(p, q) == p <= q                       \* mutant: plain table order

Before(p, q) == \/ vruntime[p] < vruntime[q]
                \/ vruntime[p] = vruntime[q] /\ p <= q

Selectable == {p \in Runnable : vruntime[p] < Width - 1}

Dispatch(c) ==
    /\ proc[c] = None /\ irq[c] = "none"
    /\ \E p \in Selectable :
          /\ \A q \in Selectable : Before(p, q)
          /\ state' = [state EXCEPT ![p] = "RUNNING"]
          /\ proc' = [proc EXCEPT ![c] = p]
          /\ irq' = [irq EXCEPT ![c] = IF ~again[p] THEN "none"
                                       ELSE IF c = 0 THEN "wake" ELSE "yield"]
          /\ again' = [again EXCEPT ![p] = FALSE]
    /\ UNCHANGED <<nice, vruntime, prog>>

(* yield(), from inside the timer interrupt or at its end.                 *)
SwitchAway(c, p) ==
    /\ state' = [state EXCEPT ![p] = "RUNNABLE"]
    /\ proc' = [proc EXCEPT ![c] = None]
    /\ irq' = [irq EXCEPT ![c] = "none"]

(* The timer charges the process.  One whose time slice was a single tick  *)
(* (the weights decide) yields before the interrupt is over; the rest of   *)
(* the interrupt, another yield included, then runs when p is next picked. *)
(* Inside fork(), after the copy, its child misses the tick.               *)
Charge(c) == \E p \in Slots :
    /\ Runs(c, p)
    /\ vruntime[p] + Delta[nice[p]] <= Horizon
    /\ vruntime' = [vruntime EXCEPT ![p] = (@ + Delta[nice[p]]) % Width]
    /\ LET reached == IF due[p] <= vruntime'[p] THEN vruntime'[p] ELSE due[p]
       IN  due' = [q \in Slots |-> IF q = p \/ q = np[p] THEN reached ELSE due[q]]
    /\ \/ /\ irq' = [irq EXCEPT ![c] = IF c = 0 THEN "wake" ELSE "yield"]
          /\ UNCHANGED <<state, proc, again>>
       \/ /\ SwitchAway(c, p)
          /\ again' = [again EXCEPT ![p] = TRUE]
    /\ UNCHANGED <<nice, np, past>>

Yield(c) == \E p \in Slots :
    /\ proc[c] = p /\ irq[c] = "yield"
    /\ SwitchAway(c, p)
    /\ UNCHANGED <<nice, vruntime, again, prog>>

-----------------------------------------------------------------------------
(* wakeup1(): the least vruntime of the RUNNABLE processes, 0 if there are *)
(* none, is read first.  It is kept in a signed integer, so that from      *)
(* Width \div 2 on it compares as negative.                                *)
(*                                                                         *)
(* "hog": never slept.  "sleeper": slept, and each time it was woken it    *)
(* was placed next to a hog or a sleeper that was not behind its due.      *)
(* "stray": woken by kill() or with nobody RUNNABLE, so that it is placed  *)
(* next to nobody; or next to a stray, or to a child that is still behind. *)

Least == IF Runnable = {} THEN 0
         ELSE vruntime[CHOOSE p \in Runnable : \A q \in Runnable : vruntime[p] <= vruntime[q]]

BugUnclamped(p) == Least - Delta[nice[p]]       \* mutant: below 0
BugKept(p)      == vruntime[p]                  \* mutant: as if it never slept

Placed(p) == IF Least >= Width \div 2 \/ Least < Delta[nice[p]] THEN 0
             ELSE Least - Delta[nice[p]]

NextTo == LET least == Least
          IN  IF \E q \in Runnable : /\ vruntime[q] = least /\ past[q] # "stray"
                                     /\ due[q] = vruntime[q]
              THEN "sleeper" ELSE "stray"

(* The sleepers of one channel; which ones share a channel is left open.   *)
Sleeping == InState("SLEEPING")

Woken(P) ==
    /\ vruntime' = [p \in Slots |-> IF p \in P THEN Placed(p) ELSE vruntime[p]]
    /\ LET next == NextTo
       IN  past' = [p \in Slots |-> IF p \in P THEN next ELSE past[p]]
    /\ due' = [p \in Slots |-> IF p \in P THEN vruntime'[p] ELSE due[p]]

Ready(P) == [p \in Slots |-> IF p \in P THEN "RUNNABLE" ELSE state[p]]

Wakeup1 == \E P \in SUBSET Sleeping : Woken(P) /\ state' = Ready(P)

(* CPU 0 counts the tick and wakes the processes that wait for it, while   *)
(* the process it interrupted is still RUNNING.                            *)
TickWake(c) ==
    /\ irq[c] = "wake"
    /\ Wakeup1
    /\ irq' = [irq EXCEPT ![c] = IF proc[c] = None THEN "none" ELSE "yield"]
    /\ UNCHANGED <<nice, proc, again, np>>

IdleTick(c) ==
    /\ c = 0 /\ proc[c] = None /\ irq[c] = "none"
    /\ Sleeping # {}
    /\ irq' = [irq EXCEPT ![c] = "wake"]
    /\ UNCHANGED <<state, nice, vruntime, proc, again, prog>>

(* A device interrupt or another process wakes the sleepers of a channel.  *)
WakeEvent ==
    /\ Sleeping # {}
    /\ Wakeup1
    /\ UNCHANGED <<nice, ctl, np>>

Sleep(c) == \E p \in Slots :
    /\ Free(c, p)
    /\ state' = [state EXCEPT ![p] = "SLEEPING"]
    /\ proc' = [proc EXCEPT ![c] = None]
    /\ UNCHANGED <<nice, vruntime, irq, again, prog>>

(* kill() wakes a sleeper and leaves its vruntime alone.                   *)
Kill(c) == \E p \in Slots, q \in Sleeping :
    /\ Free(c, p)
    /\ state' = [state EXCEPT ![q] = "RUNNABLE"]
    /\ past' = [past EXCEPT ![q] = "stray"]
    /\ UNCHANGED <<nice, vruntime, ctl, np, due>>

-----------------------------------------------------------------------------
Setnice(c) == \E p \in Slots, q \in Slots, n \in Nices :
    /\ Free(c, p)
    /\ nice' = [nice EXCEPT ![q] = n]
    /\ UNCHANGED <<state, vruntime, ctl, prog>>

(* fork() copies the parent's vruntime and nice under no lock; any number  *)
(* of ticks comes before the child is made RUNNABLE.                       *)
Inherited(p) == vruntime[p]

ForkCopy(c) == \E p \in Slots, q \in InState("UNUSED") :
    /\ Free(c, p)
    /\ \A r \in InState("UNUSED") : q <= r
    /\ state' = [state EXCEPT ![q] = "EMBRYO"]
    /\ vruntime' = [vruntime EXCEPT ![q] = Inherited(p)]
    /\ nice' = [nice EXCEPT ![q] = nice[p]]
    /\ past' = [past EXCEPT ![q] = past[p]]
    /\ due' = [due EXCEPT ![q] = due[p]]
    /\ np' = [np EXCEPT ![p] = q]
    /\ UNCHANGED ctl

ForkReady(c) == \E p \in Slots :
    /\ Runs(c, p) /\ np[p] # None
    /\ state' = [state EXCEPT ![np[p]] = "RUNNABLE"]
    /\ np' = [np EXCEPT ![p] = None]
    /\ UNCHANGED <<nice, vruntime, ctl, past, due>>

(* exit() first wakes its parent, if that sleeps in wait().  A killed      *)
(* process exits from the timer interrupt, before the yield at its end.    *)
Exit(c) == \E p \in Slots, P \in {{}} \cup {{q} : q \in Sleeping} :
    /\ proc[c] = p /\ irq[c] # "wake" /\ np[p] = None
    /\ Woken(P)
    /\ state' = [Ready(P) EXCEPT ![p] = "UNUSED"]
    /\ proc' = [proc EXCEPT ![c] = None]
    /\ irq' = [irq EXCEPT ![c] = "none"]
    /\ UNCHANGED <<nice, again, np>>

-----------------------------------------------------------------------------
Next ==
    \/ WakeEvent
    \/ \E c \in CPUs :
          \/ Dispatch(c) \/ Charge(c) \/ Yield(c) \/ TickWake(c) \/ IdleTick(c)
          \/ Sleep(c) \/ Kill(c) \/ Setnice(c) \/ ForkCopy(c) \/ ForkReady(c) \/ Exit(c)

Spec == Init /\ [][Next]_vars

-----------------------------------------------------------------------------
(* Type invariant. *)
TypeOK ==
    /\ state \in [Slots -> {"UNUSED", "EMBRYO", "SLEEPING", "RUNNABLE", "RUNNING"}]
    /\ nice \in [Slots -> Nices] /\ vruntime \in [Slots -> 0 .. Width - 1]
    /\ proc \in [CPUs -> Slots \cup {None}]
    /\ irq \in [CPUs -> {"none", "wake", "yield"}]
    /\ again \in [Slots -> BOOLEAN] /\ np \in [Slots -> Slots \cup {None}]
    /\ past \in [Slots -> {"hog", "sleeper", "stray"}] /\ due \in [Slots -> 0 .. Width - 1]

DeltaMax == CHOOSE d \in {Delta[n] : n \in Nices} : \A n \in Nices : Delta[n] <= d

Active   == {p \in Slots : state[p] \in {"RUNNABLE", "RUNNING"}}
Hogs     == {p \in Active : past[p] = "hog"}
Sleepers == {p \in Active : past[p] = "sleeper"}

(* Fair shares: on one CPU no process that competes for it and never slept *)
(* gets more than one tick of the greediest nice value ahead of another,   *)
(* whatever sleepers, wakeups, kills, forks and setnice() calls happen     *)
(* around them: it is what makes CPU time proportional to weight_table.    *)
(* The other's due is its vruntime, or above it while it is still short of *)
(* the ticks its parent was charged inside fork(): what a child misses     *)
(* there has no bound, but it gets that much and no more.                  *)
FairShare == \A p, q \in Hogs : vruntime[p] - due[q] <= DeltaMax

(* Sleeping earns a bounded credit: each wakeup may place a process one    *)
(* tick before the last one woken, but the placements do not add up beyond *)
(* one tick for each other slot, however often the sleepers sleep again,   *)
(* so that a hog is passed over for that long at most once they stop.      *)
SleepCredit == \A p \in Hogs, q \in Sleepers :
    vruntime[p] - due[q] <= (NPROC - 1) * DeltaMax
=============================================================================
