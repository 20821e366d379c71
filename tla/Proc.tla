-------------------------------- MODULE Proc --------------------------------
(***************************************************************************)
(* The xv6 process table: proc.c, with the timer half of trap.c and the    *)
(* sleep system call of sysproc.c, as they run on several CPUs.            *)
(*                                                                         *)
(* Two kinds of threads execute kernel code: each CPU's scheduler and the  *)
(* kernel thread of each process.  ctx[c] says whose stack CPU c is on; pc *)
(* and spos say where those threads are.  ptable.lock is modelled with its *)
(* holder because it is acquired by one thread and released by another:    *)
(* swtch carries it from sched() to scheduler() and back.                  *)
(*                                                                         *)
(* A critical section that begins and ends in one thread is one action     *)
(* with guard lock = NoCPU.  Interrupts are off while a CPU holds a lock   *)
(* (pushcli in acquire), so the timer only arrives between critical        *)
(* sections, in user code, in the kernel, or in the idle scheduler.        *)
(***************************************************************************)
EXTENDS Integers

CONSTANTS
    NCPU,         \* number of CPUs; CPU 0 counts the ticks
    NPROC,        \* slots of ptable.proc
    MaxPid,       \* BOUND: fork fails once nextpid has passed it
    KillPids,     \* the arguments user programs pass to kill()
    SleepTicks,   \* the arguments user programs pass to sleep()
    Calls         \* the system calls user programs make

ASSUME CPUAssumption  == NCPU \in Nat \ {0}
ASSUME ProcAssumption == NPROC \in Nat \ {0} /\ MaxPid \in Nat \ {0}
ASSUME ArgAssumption  == KillPids \subseteq Nat /\ SleepTicks \subseteq Nat
ASSUME CallAssumption == Calls \subseteq {"fork", "wait", "kill", "sleep", "exit"}

CPUs     == 0 .. NCPU - 1
Slots    == 1 .. NPROC
NoCPU    == -1            \* the lock is free
NoProc   == 0             \* a null struct proc*; as a context, the scheduler
NoChan   == 0             \* a channel is the address of a process or &ticks
TickChan == NPROC + 1
initproc == 1

States == {"UNUSED", "EMBRYO", "SLEEPING", "RUNNABLE", "RUNNING", "ZOMBIE"}

VARIABLES
    state, pid, killed, parent, chan,   \* fields of struct proc
    kstack,     \* kstack[p]: p has a kernel stack
    nextpid,
    lock,       \* CPU holding ptable.lock
    tickslock,  \* CPU holding tickslock
    ctx,        \* ctx[c]: process on whose kernel stack CPU c runs
    cproc,      \* cproc[c]: c->proc
    spos,       \* spos[c]: last slot scheduler() looked at in this scan
    irq,        \* irq[c]: stage of the timer interrupt on CPU c
    pc,         \* pc[p]: where the kernel thread of p is
    intr,       \* intr[p]: where the timer interrupted p
    np,         \* np[p]: fork()'s local variable
    left        \* left[p]: n - (ticks - ticks0) of sys_sleep, at least 0

pvars == <<state, pid, killed, parent, chan, kstack, nextpid>>
cvars == <<ctx, cproc, spos, irq>>
vars  == <<state, pid, killed, parent, chan, kstack, nextpid, lock, tickslock,
           ctx, cproc, spos, irq, pc, intr, np, left>>

(* The point at which a thread resumes when the scheduler next runs it.    *)
AfterSched == [sched_yield |-> "yielded", sched_wait |-> "waited",
               sched_sleep |-> "slept",   sched_exit |-> "dead"]
InSched    == {"sched_yield", "sched_wait", "sched_sleep", "sched_exit"}
Resumed    == {"forkret", "yielded", "waited", "slept", "dead"}

(* Control points where a process holds ptable.lock, where it holds        *)
(* tickslock, and where it holds neither and may be interrupted.           *)
Locked     == InSched \cup Resumed \cup {"wait_loop"}
TickLocked == {"sleep_loop", "sleep_lock"}
Open       == {"user", "sysret", "fork", "fork_stack", "fork_vm", "fork_ready",
               "wait", "kill", "exit", "sleep", "sleep_again"}

-----------------------------------------------------------------------------
Init ==
    /\ state  = [p \in Slots |-> IF p = initproc THEN "RUNNABLE" ELSE "UNUSED"]
    /\ pid    = [p \in Slots |-> IF p = initproc THEN 1 ELSE 0]
    /\ killed = [p \in Slots |-> FALSE]
    /\ parent = [p \in Slots |-> NoProc]
    /\ chan   = [p \in Slots |-> NoChan]
    /\ kstack = [p \in Slots |-> p = initproc]
    /\ nextpid = 2
    /\ lock = NoCPU /\ tickslock = NoCPU
    /\ ctx   = [c \in CPUs |-> NoProc]
    /\ cproc = [c \in CPUs |-> NoProc]
    /\ spos  = [c \in CPUs |-> 0]
    /\ irq   = [c \in CPUs |-> "none"]
    /\ pc    = [p \in Slots |-> "forkret"]
    /\ intr  = [p \in Slots |-> "user"]
    /\ np    = [p \in Slots |-> NoProc]
    /\ left  = [p \in Slots |-> 0]

(* p executes kernel or user code on c, outside the timer interrupt.       *)
At(c, p, at) == ctx[c] = p /\ irq[c] = "none" /\ pc[p] = at

Goto(p, at) == pc' = [pc EXCEPT ![p] = at]

(* wakeup1(ch), as the value of the state field after it.                  *)
Woken(st, ch) ==
    [q \in Slots |-> IF st[q] = "SLEEPING" /\ chan[q] = ch THEN "RUNNABLE" ELSE st[q]]

-----------------------------------------------------------------------------
(* scheduler(): take the lock, run every RUNNABLE slot met by one scan of  *)
(* the table, release the lock, and start again.                           *)

InScheduler(c) == ctx[c] = NoProc /\ irq[c] = "none"

BugSchedAcquire(c) ==     \* mutant: scans the table without waiting for the lock
    /\ InScheduler(c) /\ lock # c
    /\ lock' = c
    /\ spos' = [spos EXCEPT ![c] = 0]
    /\ UNCHANGED <<pvars, tickslock, ctx, cproc, irq, pc, intr, np, left>>

SchedAcquire(c) ==
    /\ InScheduler(c) /\ lock = NoCPU
    /\ lock' = c
    /\ spos' = [spos EXCEPT ![c] = 0]
    /\ UNCHANGED <<pvars, tickslock, ctx, cproc, irq, pc, intr, np, left>>

(* Nothing runs between the switch back to the scheduler and c->proc = 0.  *)
SchedReturn(c) ==
    /\ InScheduler(c) /\ lock = c /\ cproc[c] # NoProc
    /\ cproc' = [cproc EXCEPT ![c] = NoProc]
    /\ UNCHANGED <<pvars, lock, tickslock, ctx, spos, irq, pc, intr, np, left>>

Scanning(c) == InScheduler(c) /\ lock = c /\ cproc[c] = NoProc

(* The slots the rest of this scan will find RUNNABLE. *)
BugAhead(c) ==            \* mutant: starts from the first slot again each time
    {p \in Slots : state[p] = "RUNNABLE"}

Ahead(c) == {p \in Slots : p > spos[c] /\ state[p] = "RUNNABLE"}

SchedPick(c) ==
    /\ Scanning(c)
    /\ \E p \in Ahead(c) :
          /\ \A q \in Ahead(c) : p <= q
          /\ cproc' = [cproc EXCEPT ![c] = p]
          /\ state' = [state EXCEPT ![p] = "RUNNING"]
          /\ ctx'   = [ctx EXCEPT ![c] = p]
          /\ spos'  = [spos EXCEPT ![c] = p]
    /\ UNCHANGED <<pid, killed, parent, chan, kstack, nextpid, lock, tickslock,
                   irq, pc, intr, np, left>>

SchedRelease(c) ==
    /\ Scanning(c) /\ Ahead(c) = {}
    /\ lock' = NoCPU
    /\ spos' = [spos EXCEPT ![c] = 0]
    /\ UNCHANGED <<pvars, tickslock, ctx, cproc, irq, pc, intr, np, left>>

(* sched(): swtch to this CPU's scheduler, the lock still held.            *)
Sched(c, p) ==
    /\ ctx[c] = p /\ irq[c] = "none" /\ pc[p] \in InSched
    /\ ctx' = [ctx EXCEPT ![c] = NoProc]
    /\ Goto(p, AfterSched[pc[p]])
    /\ UNCHANGED <<pvars, lock, tickslock, cproc, spos, irq, intr, np, left>>

-----------------------------------------------------------------------------
(* User code and the two killed checks around a system call in trap().     *)

Syscall(c, p) ==
    /\ At(c, p, "user") /\ ~killed[p]
    /\ \E call \in Calls :
          /\ p = initproc => call \in {"fork", "wait"}   \* all init.c does
          /\ Goto(p, call)
    /\ UNCHANGED <<pvars, lock, tickslock, cvars, intr, np, left>>

SyscallKilled(c, p) ==
    /\ At(c, p, "user") /\ killed[p]
    /\ Goto(p, "exit")
    /\ UNCHANGED <<pvars, lock, tickslock, cvars, intr, np, left>>

Sysret(c, p) ==
    /\ At(c, p, "sysret")
    /\ Goto(p, IF killed[p] THEN "exit" ELSE "user")
    /\ UNCHANGED <<pvars, lock, tickslock, cvars, intr, np, left>>

(* A new process is first switched to here, the scheduler's lock held.     *)
Forkret(c, p) ==
    /\ At(c, p, "forkret")
    /\ lock' = NoCPU
    /\ Goto(p, "user")
    /\ UNCHANGED <<pvars, tickslock, cvars, intr, np, left>>

-----------------------------------------------------------------------------
(* fork(): allocproc under the lock, then the child is built without it.   *)

Free == {q \in Slots : state[q] = "UNUSED"}

Allocproc(c, p) ==
    /\ At(c, p, "fork") /\ lock = NoCPU /\ nextpid <= MaxPid
    /\ \E q \in Free :
          /\ \A r \in Free : q <= r
          /\ state' = [state EXCEPT ![q] = "EMBRYO"]
          /\ pid' = [pid EXCEPT ![q] = nextpid]
          /\ np' = [np EXCEPT ![p] = q]
    /\ nextpid' = nextpid + 1
    /\ Goto(p, "fork_stack")
    /\ UNCHANGED <<killed, parent, chan, kstack, lock, tickslock, cvars, intr, left>>

AllocprocFull(c, p) ==
    /\ At(c, p, "fork") /\ lock = NoCPU
    /\ Free = {} \/ nextpid > MaxPid
    /\ Goto(p, "sysret")
    /\ UNCHANGED <<pvars, lock, tickslock, cvars, intr, np, left>>

(* kalloc of the kernel stack; on failure the slot is given back without   *)
(* the lock and with its pid still set.                                    *)
AllocStack(c, p) ==
    /\ At(c, p, "fork_stack")
    /\ kstack' = [kstack EXCEPT ![np[p]] = TRUE]
    /\ pc' = [pc EXCEPT ![p] = "fork_vm", ![np[p]] = "forkret"]
    /\ UNCHANGED <<state, pid, killed, parent, chan, nextpid, lock, tickslock,
                   cvars, intr, np, left>>

AllocStackFails(c, p) ==
    /\ At(c, p, "fork_stack")
    /\ state' = [state EXCEPT ![np[p]] = "UNUSED"]
    /\ np' = [np EXCEPT ![p] = NoProc]
    /\ Goto(p, "sysret")
    /\ UNCHANGED <<pid, killed, parent, chan, kstack, nextpid, lock, tickslock,
                   cvars, intr, left>>

CopyVm(c, p) ==
    /\ At(c, p, "fork_vm")
    /\ parent' = [parent EXCEPT ![np[p]] = p]
    /\ Goto(p, "fork_ready")
    /\ UNCHANGED <<state, pid, killed, chan, kstack, nextpid, lock, tickslock,
                   cvars, intr, np, left>>

CopyVmFails(c, p) ==
    /\ At(c, p, "fork_vm")
    /\ kstack' = [kstack EXCEPT ![np[p]] = FALSE]
    /\ state' = [state EXCEPT ![np[p]] = "UNUSED"]
    /\ np' = [np EXCEPT ![p] = NoProc]
    /\ Goto(p, "sysret")
    /\ UNCHANGED <<pid, killed, parent, chan, nextpid, lock, tickslock, cvars,
                   intr, left>>

ForkReady(c, p) ==
    /\ At(c, p, "fork_ready") /\ lock = NoCPU
    /\ state' = [state EXCEPT ![np[p]] = "RUNNABLE"]
    /\ np' = [np EXCEPT ![p] = NoProc]
    /\ Goto(p, "sysret")
    /\ UNCHANGED <<pid, killed, parent, chan, kstack, nextpid, lock, tickslock,
                   cvars, intr, left>>

-----------------------------------------------------------------------------
(* exit(): wake the parent, hand the children to init, become a ZOMBIE and *)
(* switch away for good.  Closing the files is abstracted: it may sleep,   *)
(* on channels no other action of this module uses.                        *)

Children(p) == {q \in Slots : parent[q] = p}

(* The parent field and the state field once exit() has left p a ZOMBIE.   *)
BugAdopted(p) == parent                    \* mutant: children not reparented

Adopted(p) == [q \in Slots |-> IF q \in Children(p) THEN initproc ELSE parent[q]]

BugAfterExitNoWake(p) == [state EXCEPT ![p] = "ZOMBIE"]   \* mutant: parent not woken

AfterExit(p) ==
    LET st     == Woken(state, parent[p])
        orphan == \E q \in Children(p) : state[q] = "ZOMBIE"
    IN  [IF orphan THEN Woken(st, initproc) ELSE st EXCEPT ![p] = "ZOMBIE"]

Exit(c, p) ==
    /\ At(c, p, "exit") /\ p # initproc /\ lock = NoCPU
    /\ lock' = c
    /\ parent' = Adopted(p)
    /\ state' = AfterExit(p)
    /\ Goto(p, "sched_exit")
    /\ UNCHANGED <<pid, killed, chan, kstack, nextpid, tickslock, cvars, intr, np, left>>

-----------------------------------------------------------------------------
(* wait(): under the lock, reap a ZOMBIE child, or return, or sleep on     *)
(* one's own slot and look again when woken.                               *)

Zombies(p) == {q \in Children(p) : state[q] = "ZOMBIE"}

WaitAcquire(c, p) ==
    /\ At(c, p, "wait") /\ lock = NoCPU
    /\ lock' = c
    /\ Goto(p, "wait_loop")
    /\ UNCHANGED <<pvars, tickslock, cvars, intr, np, left>>

Reap(c, p) ==
    /\ At(c, p, "wait_loop")
    /\ \E q \in Zombies(p) :
          /\ \A r \in Zombies(p) : q <= r
          /\ kstack' = [kstack EXCEPT ![q] = FALSE]
          /\ pid'    = [pid EXCEPT ![q] = 0]
          /\ parent' = [parent EXCEPT ![q] = NoProc]
          /\ killed' = [killed EXCEPT ![q] = FALSE]
          /\ state'  = [state EXCEPT ![q] = "UNUSED"]
    /\ lock' = NoCPU
    /\ Goto(p, "sysret")
    /\ UNCHANGED <<chan, nextpid, tickslock, cvars, intr, np, left>>

WaitFails(c, p) ==
    /\ At(c, p, "wait_loop") /\ Zombies(p) = {}
    /\ Children(p) = {} \/ killed[p]
    /\ lock' = NoCPU
    /\ Goto(p, "sysret")
    /\ UNCHANGED <<pvars, tickslock, cvars, intr, np, left>>

WaitSleep(c, p) ==
    /\ At(c, p, "wait_loop") /\ Zombies(p) = {}
    /\ Children(p) # {} /\ ~killed[p]
    /\ chan'  = [chan EXCEPT ![p] = p]
    /\ state' = [state EXCEPT ![p] = "SLEEPING"]
    /\ Goto(p, "sched_wait")
    /\ UNCHANGED <<pid, killed, parent, kstack, nextpid, lock, tickslock, cvars,
                   intr, np, left>>

Waited(c, p) ==
    /\ At(c, p, "waited")
    /\ chan' = [chan EXCEPT ![p] = NoChan]
    /\ Goto(p, "wait_loop")
    /\ UNCHANGED <<state, pid, killed, parent, kstack, nextpid, lock, tickslock,
                   cvars, intr, np, left>>

-----------------------------------------------------------------------------
(* kill(pid): mark the first slot with that pid, waking it if it sleeps.   *)
(* Slots are compared whatever their state.                                *)

BugKillWakes(st) == st \in {"SLEEPING", "RUNNING"}   \* mutant: state not checked
BugKillKeeps(st) == FALSE                            \* mutant: a sleeper sleeps on

KillWakes(st) == st = "SLEEPING"

Kill(c, p) ==
    /\ At(c, p, "kill") /\ lock = NoCPU
    /\ \E k \in KillPids :
          LET Hit == {q \in Slots : pid[q] = k}
              First == {q \in Hit : \A r \in Hit : q <= r}
          IN  /\ killed' = [q \in Slots |-> killed[q] \/ q \in First]
              /\ state' = [q \in Slots |->
                             IF q \in First /\ KillWakes(state[q]) THEN "RUNNABLE" ELSE state[q]]
    /\ Goto(p, "sysret")
    /\ UNCHANGED <<pid, parent, chan, kstack, nextpid, lock, tickslock, cvars,
                   intr, np, left>>

-----------------------------------------------------------------------------
(* sys_sleep(n), and sleep(&ticks, &tickslock) inside its loop.            *)

SleepStart(c, p) ==
    /\ At(c, p, "sleep") /\ tickslock = NoCPU
    /\ tickslock' = c
    /\ \E n \in SleepTicks : left' = [left EXCEPT ![p] = n]
    /\ Goto(p, "sleep_loop")
    /\ UNCHANGED <<pvars, lock, cvars, intr, np>>

SleepDone(c, p) ==
    /\ At(c, p, "sleep_loop")
    /\ left[p] = 0 \/ killed[p]
    /\ tickslock' = NoCPU
    /\ left' = [left EXCEPT ![p] = 0]
    /\ Goto(p, "sysret")
    /\ UNCHANGED <<pvars, lock, cvars, intr, np>>

BugSleepMore(c, p) ==     \* mutant: lets go of tickslock before it takes ptable.lock
    /\ At(c, p, "sleep_loop") /\ left[p] > 0 /\ ~killed[p]
    /\ tickslock' = NoCPU
    /\ Goto(p, "sleep_lock")
    /\ UNCHANGED <<pvars, lock, cvars, intr, np, left>>

SleepMore(c, p) ==
    /\ At(c, p, "sleep_loop") /\ left[p] > 0 /\ ~killed[p]
    /\ Goto(p, "sleep_lock")
    /\ UNCHANGED <<pvars, lock, tickslock, cvars, intr, np, left>>

(* ptable.lock is acquired before the caller's lock is released.           *)
BugSleepOnTicks(c, p) ==  \* mutant: goes to sleep holding tickslock
    /\ At(c, p, "sleep_lock") /\ lock = NoCPU
    /\ lock' = c
    /\ chan'  = [chan EXCEPT ![p] = TickChan]
    /\ state' = [state EXCEPT ![p] = "SLEEPING"]
    /\ Goto(p, "sched_sleep")
    /\ UNCHANGED <<pid, killed, parent, kstack, nextpid, tickslock, cvars, intr, np, left>>

SleepOnTicks(c, p) ==
    /\ At(c, p, "sleep_lock") /\ lock = NoCPU
    /\ lock' = c
    /\ tickslock' = NoCPU
    /\ chan'  = [chan EXCEPT ![p] = TickChan]
    /\ state' = [state EXCEPT ![p] = "SLEEPING"]
    /\ Goto(p, "sched_sleep")
    /\ UNCHANGED <<pid, killed, parent, kstack, nextpid, cvars, intr, np, left>>

Slept(c, p) ==
    /\ At(c, p, "slept")
    /\ chan' = [chan EXCEPT ![p] = NoChan]
    /\ lock' = NoCPU
    /\ Goto(p, "sleep_again")
    /\ UNCHANGED <<state, pid, killed, parent, kstack, nextpid, tickslock, cvars,
                   intr, np, left>>

SleepRelock(c, p) ==
    /\ At(c, p, "sleep_again") /\ tickslock = NoCPU
    /\ tickslock' = c
    /\ Goto(p, "sleep_loop")
    /\ UNCHANGED <<pvars, lock, cvars, intr, np, left>>

-----------------------------------------------------------------------------
(* The timer interrupt.  CPU 0 counts the tick and wakes the sleepers;     *)
(* every CPU then makes the process it interrupted yield.                  *)

(* acquire() turns interrupts off before it spins, so a CPU that waits for *)
(* a lock takes no interrupt.                                              *)
Spinning(c) ==
    IF ctx[c] = NoProc THEN lock # NoCPU
    ELSE \/ lock # NoCPU /\ pc[ctx[c]] \in {"fork", "fork_ready", "wait", "kill", "exit"}
         \/ tickslock # NoCPU /\ pc[ctx[c]] \in {"sleep", "sleep_again"}

Interruptible(c) ==
    /\ irq[c] = "none" /\ lock # c /\ tickslock # c
    /\ ctx[c] # NoProc => pc[ctx[c]] \in Open
    /\ ~Spinning(c)

Timer(c) ==
    /\ Interruptible(c) /\ c # 0 /\ ctx[c] # NoProc
    /\ irq' = [irq EXCEPT ![c] = "yield"]
    /\ UNCHANGED <<pvars, lock, tickslock, ctx, cproc, spos, pc, intr, np, left>>

BugElapsed(n) == n - 1    \* mutant: keeps counting below zero

Elapsed(n) == IF n > 0 THEN n - 1 ELSE 0

TimerTick(c) ==
    /\ Interruptible(c) /\ c = 0 /\ tickslock = NoCPU
    /\ tickslock' = c
    /\ left' = [p \in Slots |-> Elapsed(left[p])]
    /\ irq' = [irq EXCEPT ![c] = "wake"]
    /\ UNCHANGED <<pvars, lock, ctx, cproc, spos, pc, intr, np>>

TimerWake(c) ==
    /\ irq[c] = "wake" /\ lock = NoCPU
    /\ state' = Woken(state, TickChan)
    /\ tickslock' = NoCPU
    /\ irq' = [irq EXCEPT ![c] = IF ctx[c] = NoProc THEN "none" ELSE "yield"]
    /\ UNCHANGED <<pid, killed, parent, chan, kstack, nextpid, lock, ctx, cproc,
                   spos, pc, intr, np, left>>

(* A killed process interrupted in user code exits instead of yielding.    *)
TimerKilled(c, p) ==
    /\ irq[c] = "yield" /\ ctx[c] = p
    /\ pc[p] = "user" /\ killed[p]
    /\ irq' = [irq EXCEPT ![c] = "none"]
    /\ Goto(p, "exit")
    /\ UNCHANGED <<pvars, lock, tickslock, ctx, cproc, spos, intr, np, left>>

Yield(c, p) ==
    /\ irq[c] = "yield" /\ ctx[c] = p /\ lock = NoCPU
    /\ ~(pc[p] = "user" /\ killed[p])
    /\ irq' = [irq EXCEPT ![c] = "none"]
    /\ lock' = c
    /\ state' = [state EXCEPT ![p] = "RUNNABLE"]
    /\ intr' = [intr EXCEPT ![p] = pc[p]]
    /\ Goto(p, "sched_yield")
    /\ UNCHANGED <<pid, killed, parent, chan, kstack, nextpid, tickslock, ctx,
                   cproc, spos, np, left>>

(* Back from sched(): release the lock and resume the interrupted code, by *)
(* way of the killed check if that was user code.                          *)
Yielded(c, p) ==
    /\ At(c, p, "yielded")
    /\ lock' = NoCPU
    /\ Goto(p, IF intr[p] = "user" THEN "sysret" ELSE intr[p])
    /\ intr' = [intr EXCEPT ![p] = "user"]
    /\ UNCHANGED <<pvars, tickslock, cvars, np, left>>

-----------------------------------------------------------------------------
SchedulerStep(c) == SchedAcquire(c) \/ SchedReturn(c) \/ SchedPick(c) \/ SchedRelease(c)

ForkStep(c, p) ==
    \/ Allocproc(c, p) \/ AllocprocFull(c, p)
    \/ AllocStack(c, p) \/ AllocStackFails(c, p)
    \/ CopyVm(c, p) \/ CopyVmFails(c, p) \/ ForkReady(c, p)

WaitStep(c, p) ==
    WaitAcquire(c, p) \/ Reap(c, p) \/ WaitFails(c, p) \/ WaitSleep(c, p) \/ Waited(c, p)

SleepStep(c, p) ==
    \/ SleepStart(c, p) \/ SleepDone(c, p) \/ SleepMore(c, p)
    \/ SleepOnTicks(c, p) \/ Slept(c, p) \/ SleepRelock(c, p)

(* Leaving for the scheduler and coming back from it. *)
SwitchStep(c, p) == Forkret(c, p) \/ Sched(c, p) \/ Yielded(c, p)

(* Everything else a process does in the kernel of its own accord. *)
KernelStep(c, p) ==
    \/ Sysret(c, p) \/ Exit(c, p) \/ Kill(c, p)
    \/ ForkStep(c, p) \/ WaitStep(c, p) \/ SleepStep(c, p)

UserStep(c, p) == Syscall(c, p) \/ SyscallKilled(c, p)

TimerStep(c) ==
    \/ TimerWake(c)
    \/ \E p \in Slots : TimerKilled(c, p) \/ Yield(c, p)

(* What a CPU does next where neither user code nor a kernel service runs. *)
CPUStep(c) ==
    SchedulerStep(c) \/ TimerStep(c) \/ (\E p \in Slots : SwitchStep(c, p))

Next ==
    \E c \in CPUs :
       \/ CPUStep(c) \/ Timer(c) \/ TimerTick(c)
       \/ \E p \in Slots : KernelStep(c, p) \/ UserStep(c, p)

Spec == Init /\ [][Next]_vars

-----------------------------------------------------------------------------
(* Type invariant of every variable above.                                 *)
TypeOK ==
    /\ state \in [Slots -> States] /\ pid \in [Slots -> Nat]
    /\ killed \in [Slots -> BOOLEAN] /\ kstack \in [Slots -> BOOLEAN]
    /\ parent \in [Slots -> Slots \cup {NoProc}]
    /\ chan \in [Slots -> Slots \cup {NoChan, TickChan}]
    /\ nextpid \in Nat
    /\ lock \in CPUs \cup {NoCPU} /\ tickslock \in CPUs \cup {NoCPU}
    /\ ctx \in [CPUs -> Slots \cup {NoProc}] /\ cproc \in [CPUs -> Slots \cup {NoProc}]
    /\ spos \in [CPUs -> Slots \cup {0}]
    /\ irq \in [CPUs -> {"none", "wake", "yield"}]
    /\ pc \in [Slots -> Locked \cup TickLocked \cup Open] /\ intr \in [Slots -> Open]
    /\ np \in [Slots -> Slots \cup {NoProc}]
    /\ left \in [Slots -> Nat]

(* No two CPUs ever execute on one kernel stack, and wait() never frees    *)
(* the stack an exiting process is still executing on (proc.c: exit marks  *)
(* the process ZOMBIE while it still runs; only ptable.lock, carried       *)
(* through swtch, keeps wait() away).                                      *)
StacksExclusive ==
    \A c \in CPUs : ctx[c] # NoProc =>
        /\ kstack[ctx[c]]
        /\ \A d \in CPUs : ctx[d] = ctx[c] => d = c

(* A process is RUNNING exactly while it is some CPU's c->proc and runs    *)
(* there; in any other state it may only be on a CPU that holds            *)
(* ptable.lock, on its way into sched() (comment at scheduler(): "It       *)
(* should have changed its p->state before coming back").                  *)
RunningIsOnCPU ==
    /\ \A c \in CPUs : ctx[c] # NoProc =>
          /\ cproc[c] = ctx[c]
          /\ state[ctx[c]] # "RUNNING" => lock = c
    /\ \A p \in Slots : state[p] = "RUNNING" => \E c \in CPUs : ctx[c] = p

(* sched() is entered with ptable.lock held, no other lock held and the    *)
(* state changed: its panics "sched ptable.lock", "sched locks" and        *)
(* "sched running" are unreachable.                                        *)
SchedDiscipline ==
    \A c \in CPUs : ctx[c] # NoProc /\ pc[ctx[c]] \in InSched =>
        lock = c /\ tickslock # c /\ state[ctx[c]] # "RUNNING"

(* No exit is missed by wait(): whenever ptable.lock is free, a process    *)
(* asleep in wait() has a child, none of its children is a ZOMBIE, and it  *)
(* has not been killed.                                                    *)
ExitNotMissed ==
    lock = NoCPU =>
        \A p \in Slots : state[p] = "SLEEPING" /\ chan[p] = p =>
            Children(p) # {} /\ Zombies(p) = {} /\ ~killed[p]

(* No tick is missed by sys_sleep(): outside the timer handler, a process  *)
(* sleeping on ticks still has ticks to wait for.                          *)
TickNotMissed ==
    (\A c \in CPUs : irq[c] # "wake") =>
        \A p \in Slots : state[p] = "SLEEPING" /\ chan[p] = TickChan => left[p] > 0

(* A slot under construction belongs to the one fork() that claimed it,    *)
(* and every process but init has a parent that can still wait for it.     *)
FamilyOK ==
    /\ \A p \in Slots : np[p] # NoProc =>
          /\ state[np[p]] = "EMBRYO"
          /\ \A q \in Slots : np[q] = np[p] => q = p
    /\ \A p \in Slots \ {initproc} : state[p] \notin {"UNUSED", "EMBRYO"} =>
          /\ parent[p] # NoProc
          /\ state[parent[p]] \notin {"UNUSED", "EMBRYO", "ZOMBIE"}

-----------------------------------------------------------------------------
(* The inductive invariant behind StacksExclusive, RunningIsOnCPU and      *)
(* SchedDiscipline, in named parts.                                        *)

ForkPoints == {"fork_stack", "fork_vm", "fork_ready"}

(* Where p is, looking through a timer interrupt. *)
Where(p) == IF pc[p] \in {"sched_yield", "yielded"} THEN intr[p] ELSE pc[p]

(* What holds of the process a CPU executes. *)
OnCPU(c, p) ==
    /\ cproc[c] = p /\ kstack[p]
    /\ state[p] \notin {"UNUSED", "EMBRYO"}
    /\ \A d \in CPUs : ctx[d] = p => d = c
    /\ pc[p] \in Locked <=> lock = c
    /\ state[p] = "RUNNING" <=> pc[p] \notin InSched
    /\ irq[c] # "none" => pc[p] \in Open

OnCPUs == \A c \in CPUs : ctx[c] # NoProc => OnCPU(c, ctx[c])

(* A process off every CPU is parked inside sched() or not yet started. *)
OffCPUs == \A p \in Slots : (\A c \in CPUs : ctx[c] # p) =>
              pc[p] \in Resumed /\ state[p] # "RUNNING"

(* The timer yields for a process only, and tickslock is held by the CPU   *)
(* that counts a tick or runs the locked part of sys_sleep.                *)
TickLock ==
    \A c \in CPUs :
       /\ ctx[c] = NoProc => irq[c] # "yield"
       /\ tickslock = c <=> \/ irq[c] = "wake"
                            \/ ctx[c] # NoProc /\ pc[ctx[c]] \in TickLocked

(* Every used slot has a stack; an unused or half-built one is at the      *)
(* first or the last control point of its thread, a ZOMBIE at the last.    *)
SlotsOK == \A p \in Slots :
    /\ state[p] \in {"UNUSED", "EMBRYO"} => pc[p] \in {"forkret", "dead"}
    /\ state[p] \notin {"UNUSED", "EMBRYO"} => kstack[p]
    /\ state[p] = "ZOMBIE" => pc[p] \in {"sched_exit", "dead"}

(* fork()'s np is set exactly inside fork() and claims its slot alone. *)
ForksOK == \A p \in Slots :
    /\ np[p] # NoProc <=> Where(p) \in ForkPoints
    /\ np[p] # NoProc =>
          /\ state[np[p]] = "EMBRYO"
          /\ \A q \in Slots : np[q] = np[p] => q = p
          /\ Where(p) # "fork_stack" => kstack[np[p]]

LockInv == TypeOK /\ OnCPUs /\ OffCPUs /\ TickLock /\ SlotsOK /\ ForksOK

(* Behind FamilyOK: init lives, the parent of whoever is born and not yet  *)
(* reaped lives, a slot that is not in use has no parent, and one under    *)
(* construction has none until fork() sets it.                             *)
Alive(p) == state[p] \in {"SLEEPING", "RUNNABLE", "RUNNING"}

ParentsOK ==
    /\ Alive(initproc) /\ parent[initproc] = NoProc
    /\ \A p \in Slots :
          /\ parent[p] # p
          /\ p # initproc /\ state[p] \notin {"UNUSED", "EMBRYO"} =>
                parent[p] # NoProc /\ Alive(parent[p])
          /\ state[p] = "UNUSED" => parent[p] = NoProc
          /\ Where(p) \in {"fork_stack", "fork_vm"} => parent[np[p]] = NoProc
          /\ Where(p) = "fork_ready" => parent[np[p]] = p

(* Behind TickNotMissed: who is about to sleep has the time still to wait, *)
(* since it holds tickslock.                                               *)
TicksOK == /\ TickNotMissed
           /\ \A p \in Slots : pc[p] = "sleep_lock" => left[p] > 0

(* Behind ExitNotMissed: what holds of the sleepers in wait(), whoever has *)
(* ptable.lock.                                                            *)
WaitersOK == \A p \in Slots : state[p] = "SLEEPING" /\ chan[p] = p =>
                Children(p) # {} /\ Zombies(p) = {} /\ ~killed[p]

ProcInv == LockInv /\ ParentsOK /\ TicksOK /\ WaitersOK

-----------------------------------------------------------------------------
(* Fairness.  A CPU that can execute does: its scheduler, its timer and    *)
(* each process.  The conditions are strong because the xchg loop of       *)
(* acquire() is assumed not to starve a CPU, because a timer interrupt     *)
(* that is pending is delivered when interrupts are next on, and because a *)
(* tick is longer than a step of kernel code: an idle scheduler, and a     *)
(* process that is run again and again, get their next step done between   *)
(* two ticks.                                                              *)
(* User code owes nothing, except that init calls wait() again and again   *)
(* (init.c: for(;;) ... wait()).                                           *)
Fairness ==
    /\ \A c \in CPUs :
          /\ SF_vars(SchedulerStep(c) \/ \E p \in Slots : SwitchStep(c, p))
          /\ SF_vars(Timer(c) \/ TimerTick(c) \/ TimerStep(c))
    /\ \A p \in Slots : SF_vars(\E c \in CPUs : KernelStep(c, p))
    /\ SF_vars(\E c \in CPUs : Syscall(c, initproc) /\ pc'[initproc] = "wait")

FairSpec == Spec /\ Fairness

(* Every RUNNABLE process is eventually run, though others always are, in  *)
(* slots before and after its own: the scan of scheduler() goes on from    *)
(* the slot it ran last.                                                   *)
RunnableRuns == \A p \in Slots : state[p] = "RUNNABLE" ~> state[p] = "RUNNING"

(* Every process that exits is eventually reaped, unless its parent lives  *)
(* on and never calls wait(): the children of init are, and those whose    *)
(* parent exits before or after them, since exit() passes them to init.    *)
ZombiesReaped == \A p \in Slots \ {initproc} :
    (state[p] = "ZOMBIE" /\ (parent[p] = initproc \/ ~Alive(parent[p])))
       ~> state[p] = "UNUSED"

(* A killed process is eventually gone, wherever kill() found it: running, *)
(* about to sleep, asleep, or still being forked.                          *)
KilledDies == \A p \in Slots \ {initproc} :
    (killed[p] /\ state[p] # "UNUSED") ~> state[p] \in {"ZOMBIE", "UNUSED"}
=============================================================================
