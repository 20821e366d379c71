----------------------------- MODULE ProcProof -----------------------------
(***************************************************************************)
(* Proofs about Proc for every number of CPUs and every size of the        *)
(* process table: first who holds ptable.lock and which stack is in use,   *)
(* then parents and the two sleep and wakeup protocols.                    *)
(***************************************************************************)
EXTENDS Proc, TLAPS

USE CPUAssumption, ProcAssumption, ArgAssumption, CallAssumption

(* Where each kind of sleeper or yielder resumes.                          *)
LEMMA Points ==
    /\ AfterSched["sched_yield"] = "yielded" /\ AfterSched["sched_wait"] = "waited"
    /\ AfterSched["sched_sleep"] = "slept"   /\ AfterSched["sched_exit"] = "dead"
BY DEF AfterSched

(* The null values are none of the things they stand for the absence of.   *)
LEMMA Nulls == NoCPU \notin CPUs /\ NoProc \notin Slots
BY DEF NoCPU, CPUs, NoProc, Slots

(* The system starts in the invariant. *)
LEMMA InitInv == Init => LockInv
<1> SUFFICES ASSUME Init PROVE LockInv
  OBVIOUS
<1>1. TypeOK
  BY DEF Init, TypeOK, States, Resumed, Locked, Open
<1>2. OnCPUs /\ TickLock
  BY DEF Init, OnCPUs, TickLock, CPUs, NoCPU
<1>3. OffCPUs /\ SlotsOK
  BY DEF Init, OffCPUs, SlotsOK, Resumed
<1>4. ForksOK
  BY DEF Init, ForksOK, Where, ForkPoints
<1> QED BY <1>1, <1>2, <1>3, <1>4 DEF LockInv

(* The steps of scheduler() preserve the invariant. *)
LEMMA SchedInv == ASSUME LockInv, NEW c \in CPUs, SchedulerStep(c) PROVE LockInv'
<1>1. CASE SchedAcquire(c)
  <2>1. TypeOK'
    BY <1>1 DEF LockInv, TypeOK, SchedAcquire, pvars
  <2>2. OnCPUs'
    BY Nulls, <1>1 DEF LockInv, OnCPUs, OnCPU, SchedAcquire, InScheduler, pvars
  <2>3. OffCPUs'
    BY <1>1 DEF LockInv, OffCPUs, SchedAcquire, pvars
  <2>4. TickLock'
    BY <1>1 DEF LockInv, TickLock, SchedAcquire
  <2>5. SlotsOK'
    BY <1>1 DEF LockInv, SlotsOK, SchedAcquire, pvars
  <2>6. ForksOK'
    BY <1>1 DEF LockInv, ForksOK, Where, SchedAcquire, pvars
  <2> QED BY <2>1, <2>2, <2>3, <2>4, <2>5, <2>6 DEF LockInv
<1>2. CASE SchedReturn(c)
  <2>1. TypeOK'
    BY <1>2 DEF LockInv, TypeOK, SchedReturn, pvars
  <2>2. OnCPUs'
    BY <1>2 DEF LockInv, OnCPUs, OnCPU, SchedReturn, InScheduler, pvars
  <2>3. OffCPUs'
    BY <1>2 DEF LockInv, OffCPUs, SchedReturn, pvars
  <2>4. TickLock'
    BY <1>2 DEF LockInv, TickLock, SchedReturn
  <2>5. SlotsOK'
    BY <1>2 DEF LockInv, SlotsOK, SchedReturn, pvars
  <2>6. ForksOK'
    BY <1>2 DEF LockInv, ForksOK, Where, SchedReturn, pvars
  <2> QED BY <2>1, <2>2, <2>3, <2>4, <2>5, <2>6 DEF LockInv
<1>3. CASE SchedPick(c)
  <2>1. TypeOK'
    <3>1. PICK q \in Slots : /\ cproc' = [cproc EXCEPT ![c] = q]
                             /\ state' = [state EXCEPT ![q] = "RUNNING"]
                             /\ ctx' = [ctx EXCEPT ![c] = q]
                             /\ spos' = [spos EXCEPT ![c] = q]
      BY <1>3 DEF SchedPick, Ahead
    <3> QED BY <1>3, <3>1 DEF LockInv, TypeOK, SchedPick, States
  <2>2. OnCPUs'
    BY <1>3 DEF LockInv, TypeOK, OnCPUs, OnCPU, OffCPUs, SlotsOK, SchedPick, Scanning,
           InScheduler, Ahead, Locked, InSched, Resumed
  <2>3. OffCPUs'
    BY Nulls, <1>3 DEF LockInv, TypeOK, OnCPUs, OnCPU, OffCPUs, SchedPick, Scanning
  <2>4. TickLock'
    BY <1>3 DEF LockInv, OnCPUs, OnCPU, OffCPUs, TickLock, SchedPick, Scanning, Ahead,
           TickLocked, InSched, Resumed
  <2>5. SlotsOK'
    BY <1>3 DEF LockInv, SlotsOK, SchedPick, Ahead
  <2>6. ForksOK'
    BY <1>3 DEF LockInv, ForksOK, Where, SchedPick, Ahead
  <2> QED BY <2>1, <2>2, <2>3, <2>4, <2>5, <2>6 DEF LockInv
<1>4. CASE SchedRelease(c)
  <2>1. TypeOK'
    BY <1>4 DEF LockInv, TypeOK, SchedRelease, pvars
  <2>2. OnCPUs'
    BY Nulls, <1>4 DEF LockInv, OnCPUs, OnCPU, SchedRelease, Scanning, pvars
  <2>3. OffCPUs'
    BY <1>4 DEF LockInv, OffCPUs, SchedRelease, pvars
  <2>4. TickLock'
    BY <1>4 DEF LockInv, TickLock, SchedRelease
  <2>5. SlotsOK'
    BY <1>4 DEF LockInv, SlotsOK, SchedRelease, pvars
  <2>6. ForksOK'
    BY <1>4 DEF LockInv, ForksOK, Where, SchedRelease, pvars
  <2> QED BY <2>1, <2>2, <2>3, <2>4, <2>5, <2>6 DEF LockInv
<1> QED BY <1>1, <1>2, <1>3, <1>4 DEF SchedulerStep

(* So do the switches: forkret(), sched() and the returns from it. *)
LEMMA SwitchInv == ASSUME LockInv, NEW c \in CPUs, NEW p \in Slots, SwitchStep(c, p) PROVE LockInv'
<1>1. CASE Forkret(c, p)
  <2>1. TypeOK'
    BY <1>1 DEF LockInv, TypeOK, Forkret, Goto, pvars, cvars, Open
  <2>2. OnCPUs'
    BY Nulls, <1>1 DEF LockInv, TypeOK, OnCPUs, OnCPU, Forkret, At, Goto, pvars, cvars,
           Locked, InSched, Resumed
  <2>3. OffCPUs'
    BY <1>1 DEF LockInv, OffCPUs, Forkret, At, Goto, pvars, cvars
  <2>4. TickLock'
    BY <1>1 DEF LockInv, TickLock, Forkret, At, Goto, cvars, TickLocked
  <2>5. SlotsOK'
    BY Nulls, <1>1 DEF LockInv, OnCPUs, OnCPU, SlotsOK, Forkret, At, Goto, pvars
  <2>6. ForksOK'
    BY <1>1 DEF LockInv, ForksOK, Where, ForkPoints, Forkret, At, Goto, pvars
  <2> QED BY <2>1, <2>2, <2>3, <2>4, <2>5, <2>6 DEF LockInv
<1>2. CASE Sched(c, p)
  <2>1. TypeOK'
    <3>1. pc' \in [Slots -> Locked \cup TickLocked \cup Open]
      BY Points, <1>2 DEF LockInv, TypeOK, Sched, Goto, Locked, InSched, Resumed
    <3> QED BY <3>1, <1>2 DEF LockInv, TypeOK, Sched, pvars
  <2>2. OnCPUs'
    BY <1>2 DEF LockInv, TypeOK, OnCPUs, OnCPU, Sched, Goto, pvars
  <2>3. OffCPUs'
    BY Points, <1>2 DEF LockInv, TypeOK, OnCPUs, OnCPU, OffCPUs, Sched, Goto, pvars,
           InSched, Resumed
  <2>4. TickLock'
    BY Points, <1>2 DEF LockInv, TickLock, Sched, Goto, TickLocked, InSched
  <2>5. SlotsOK'
    BY Points, <1>2 DEF LockInv, SlotsOK, Sched, Goto, pvars, InSched
  <2>6. ForksOK'
    BY Points, <1>2 DEF LockInv, ForksOK, Where, ForkPoints, Sched, Goto, pvars, InSched
  <2> QED BY <2>1, <2>2, <2>3, <2>4, <2>5, <2>6 DEF LockInv
<1>3. CASE Yielded(c, p)
  <2>1. TypeOK'
    <3>1. pc' \in [Slots -> Locked \cup TickLocked \cup Open]
      BY <1>3 DEF LockInv, TypeOK, Yielded, Goto, Open
    <3>2. intr' \in [Slots -> Open]
      BY <1>3 DEF LockInv, TypeOK, Yielded, Open
    <3> QED BY <1>3, <3>1, <3>2 DEF LockInv, TypeOK, pvars, cvars, Yielded
  <2>2. OnCPUs'
    BY Nulls, <1>3 DEF LockInv, TypeOK, OnCPUs, OnCPU, Yielded, At, Goto, pvars, cvars,
           Locked, Open, InSched, Resumed
  <2>3. OffCPUs'
    BY <1>3 DEF LockInv, OffCPUs, Yielded, At, Goto, pvars, cvars
  <2>4. TickLock'
    BY <1>3 DEF LockInv, TypeOK, TickLock, Yielded, At, Goto, cvars, TickLocked, Open
  <2>5. SlotsOK'
    BY <1>3 DEF LockInv, SlotsOK, Yielded, At, Goto, pvars
  <2>6. ForksOK'
    BY <1>3 DEF LockInv, TypeOK, ForksOK, Where, ForkPoints, Yielded, At, Goto, pvars
  <2> QED BY <2>1, <2>2, <2>3, <2>4, <2>5, <2>6 DEF LockInv
<1> QED BY <1>1, <1>2, <1>3 DEF SwitchStep

(* The steps of allocproc() and fork(). *)
LEMMA ForkInv == ASSUME LockInv, NEW c \in CPUs, NEW p \in Slots, ForkStep(c, p) PROVE LockInv'
<1>1. CASE Allocproc(c, p)
  <2>1. TypeOK'
    <3>1. PICK q \in Slots : /\ state' = [state EXCEPT ![q] = "EMBRYO"]
                             /\ pid' = [pid EXCEPT ![q] = nextpid]
                             /\ np' = [np EXCEPT ![p] = q]
      BY <1>1 DEF Allocproc, Free
    <3> QED BY <1>1, <3>1 DEF LockInv, TypeOK, Allocproc, Goto, cvars, States, Open
  <2>2. OnCPUs'
    BY <1>1 DEF LockInv, OnCPUs, OnCPU, Allocproc, At, Goto, Free, cvars, Locked,
           InSched, Resumed
  <2>3. OffCPUs'
    BY <1>1 DEF LockInv, OffCPUs, Allocproc, At, Goto, cvars
  <2>4. TickLock'
    BY <1>1 DEF LockInv, TickLock, Allocproc, At, Goto, cvars, TickLocked
  <2>5. SlotsOK'
    BY <1>1 DEF LockInv, SlotsOK, Allocproc, At, Goto, Free
  <2>6. ForksOK'
    BY Nulls, <1>1 DEF LockInv, TypeOK, ForksOK, Where, ForkPoints, Allocproc, Goto,
           Free
  <2> QED BY <2>1, <2>2, <2>3, <2>4, <2>5, <2>6 DEF LockInv
<1>2. CASE AllocprocFull(c, p)
  <2>1. TypeOK'
    BY <1>2 DEF LockInv, TypeOK, AllocprocFull, Goto, pvars, cvars, Open
  <2>2. OnCPUs'
    BY <1>2 DEF LockInv, OnCPUs, OnCPU, AllocprocFull, At, Goto, pvars, cvars, Locked,
           InSched, Resumed
  <2>3. OffCPUs'
    BY <1>2 DEF LockInv, OffCPUs, AllocprocFull, At, Goto, pvars, cvars
  <2>4. TickLock'
    BY <1>2 DEF LockInv, TickLock, AllocprocFull, At, Goto, cvars, TickLocked
  <2>5. SlotsOK'
    BY <1>2 DEF LockInv, SlotsOK, AllocprocFull, At, Goto, pvars
  <2>6. ForksOK'
    BY <1>2 DEF LockInv, ForksOK, Where, ForkPoints, AllocprocFull, At, Goto, pvars
  <2> QED BY <2>1, <2>2, <2>3, <2>4, <2>5, <2>6 DEF LockInv
<1>3. CASE AllocStack(c, p)
  <2>1. TypeOK'
    BY <1>3 DEF LockInv, TypeOK, AllocStack, cvars, Locked, Open, Resumed
  <2>2. OnCPUs'
    BY <1>3 DEF LockInv, TypeOK, OnCPUs, OnCPU, ForksOK, AllocStack, At, cvars, Locked,
           InSched, Resumed
  <2>3. OffCPUs'
    BY <1>3 DEF LockInv, TypeOK, OffCPUs, AllocStack, At, cvars, Resumed
  <2>4. TickLock'
    BY <1>3 DEF LockInv, TypeOK, OnCPUs, OnCPU, TickLock, ForksOK, AllocStack, At,
           cvars, TickLocked
  <2>5. SlotsOK'
    BY Nulls, <1>3 DEF LockInv, TypeOK, SlotsOK, ForksOK, AllocStack, At
  <2>6. ForksOK'
    BY <1>3 DEF LockInv, TypeOK, SlotsOK, ForksOK, Where, ForkPoints, AllocStack, At
  <2> QED BY <2>1, <2>2, <2>3, <2>4, <2>5, <2>6 DEF LockInv
<1>4. CASE AllocStackFails(c, p)
  <2>1. TypeOK'
    BY <1>4 DEF LockInv, TypeOK, AllocStackFails, Goto, cvars, Open, States
  <2>2. OnCPUs'
    BY <1>4 DEF LockInv, OnCPUs, OnCPU, ForksOK, AllocStackFails, At, Goto, cvars,
           Locked, InSched, Resumed
  <2>3. OffCPUs'
    BY <1>4 DEF LockInv, OffCPUs, AllocStackFails, At, Goto, cvars
  <2>4. TickLock'
    BY <1>4 DEF LockInv, TickLock, AllocStackFails, At, Goto, cvars, TickLocked
  <2>5. SlotsOK'
    BY Nulls, <1>4 DEF LockInv, SlotsOK, ForksOK, AllocStackFails, At, Goto
  <2>6. ForksOK'
    BY <1>4 DEF LockInv, TypeOK, ForksOK, Where, ForkPoints, AllocStackFails, Goto
  <2> QED BY <2>1, <2>2, <2>3, <2>4, <2>5, <2>6 DEF LockInv
<1>5. CASE CopyVm(c, p)
  <2>1. TypeOK'
    BY <1>5 DEF LockInv, TypeOK, CopyVm, Goto, cvars, Open
  <2>2. OnCPUs'
    BY <1>5 DEF LockInv, OnCPUs, OnCPU, CopyVm, At, Goto, cvars, Locked, InSched,
           Resumed
  <2>3. OffCPUs'
    BY <1>5 DEF LockInv, OffCPUs, CopyVm, At, Goto, cvars
  <2>4. TickLock'
    BY <1>5 DEF LockInv, TickLock, CopyVm, At, Goto, cvars, TickLocked
  <2>5. SlotsOK'
    BY <1>5 DEF LockInv, SlotsOK, CopyVm, At, Goto
  <2>6. ForksOK'
    BY <1>5 DEF LockInv, ForksOK, Where, ForkPoints, CopyVm, At, Goto
  <2> QED BY <2>1, <2>2, <2>3, <2>4, <2>5, <2>6 DEF LockInv
<1>6. CASE CopyVmFails(c, p)
  <2>1. TypeOK'
    BY <1>6 DEF LockInv, TypeOK, CopyVmFails, Goto, cvars, Open, States
  <2>2. OnCPUs'
    BY <1>6 DEF LockInv, OnCPUs, OnCPU, ForksOK, CopyVmFails, At, Goto, cvars, Locked,
           InSched, Resumed
  <2>3. OffCPUs'
    BY <1>6 DEF LockInv, OffCPUs, CopyVmFails, At, Goto, cvars
  <2>4. TickLock'
    BY <1>6 DEF LockInv, TickLock, CopyVmFails, At, Goto, cvars, TickLocked
  <2>5. SlotsOK'
    BY Nulls, <1>6 DEF LockInv, SlotsOK, ForksOK, CopyVmFails, At, Goto
  <2>6. ForksOK'
    BY <1>6 DEF LockInv, TypeOK, ForksOK, Where, ForkPoints, CopyVmFails, Goto
  <2> QED BY <2>1, <2>2, <2>3, <2>4, <2>5, <2>6 DEF LockInv
<1>7. CASE ForkReady(c, p)
  <2>1. TypeOK'
    BY <1>7 DEF LockInv, TypeOK, ForkReady, Goto, cvars, Open, States
  <2>2. OnCPUs'
    BY <1>7 DEF LockInv, OnCPUs, OnCPU, ForksOK, ForkReady, At, Goto, cvars, Locked,
           InSched, Resumed
  <2>3. OffCPUs'
    BY <1>7 DEF LockInv, OffCPUs, ForkReady, At, Goto, cvars
  <2>4. TickLock'
    BY <1>7 DEF LockInv, TickLock, ForkReady, At, Goto, cvars, TickLocked
  <2>5. SlotsOK'
    BY Nulls, <1>7 DEF LockInv, SlotsOK, ForksOK, Where, ForkReady, At, Goto
  <2>6. ForksOK'
    BY <1>7 DEF LockInv, TypeOK, ForksOK, Where, ForkPoints, ForkReady, Goto
  <2> QED BY <2>1, <2>2, <2>3, <2>4, <2>5, <2>6 DEF LockInv
<1> QED BY <1>1, <1>2, <1>3, <1>4, <1>5, <1>6, <1>7 DEF ForkStep

(* The steps of wait(). *)
LEMMA WaitInv == ASSUME LockInv, NEW c \in CPUs, NEW p \in Slots, WaitStep(c, p) PROVE LockInv'
<1>1. CASE WaitAcquire(c, p)
  <2>1. TypeOK'
    BY <1>1 DEF LockInv, TypeOK, WaitAcquire, Goto, pvars, cvars, Locked
  <2>2. OnCPUs'
    BY Nulls, <1>1 DEF LockInv, TypeOK, OnCPUs, OnCPU, WaitAcquire, At, Goto, pvars,
           cvars, Locked, InSched
  <2>3. OffCPUs'
    BY <1>1 DEF LockInv, OffCPUs, WaitAcquire, At, Goto, pvars, cvars
  <2>4. TickLock'
    BY <1>1 DEF LockInv, TickLock, WaitAcquire, At, Goto, cvars, TickLocked
  <2>5. SlotsOK'
    BY <1>1 DEF LockInv, SlotsOK, WaitAcquire, At, Goto, pvars
  <2>6. ForksOK'
    BY <1>1 DEF LockInv, ForksOK, Where, ForkPoints, WaitAcquire, At, Goto, pvars
  <2> QED BY <2>1, <2>2, <2>3, <2>4, <2>5, <2>6 DEF LockInv
<1>2. CASE Reap(c, p)
  <2>1. TypeOK'
    <3>1. PICK q \in Slots : /\ kstack' = [kstack EXCEPT ![q] = FALSE]
                             /\ pid'    = [pid EXCEPT ![q] = 0]
                             /\ parent' = [parent EXCEPT ![q] = NoProc]
                             /\ killed' = [killed EXCEPT ![q] = FALSE]
                             /\ state'  = [state EXCEPT ![q] = "UNUSED"]
      BY <1>2 DEF Reap, Zombies, Children
    <3> QED BY <1>2, <3>1 DEF LockInv, TypeOK, Reap, Goto, cvars, States, Open
  <2>2. OnCPUs'
    BY Nulls, <1>2 DEF LockInv, TypeOK, OnCPUs, OnCPU, Reap, At, Goto, Zombies, cvars,
           Locked, InSched, Resumed
  <2>3. OffCPUs'
    BY <1>2 DEF LockInv, OffCPUs, Reap, At, Goto, cvars
  <2>4. TickLock'
    BY <1>2 DEF LockInv, TickLock, Reap, At, Goto, cvars, TickLocked
  <2>5. SlotsOK'
    BY Nulls, <1>2 DEF LockInv, TypeOK, OnCPUs, OnCPU, OffCPUs, SlotsOK, Reap, At, Goto,
           Zombies, TickLocked, Open, Resumed
  <2>6. ForksOK'
    BY <1>2 DEF LockInv, ForksOK, Where, ForkPoints, Reap, At, Goto, Zombies
  <2> QED BY <2>1, <2>2, <2>3, <2>4, <2>5, <2>6 DEF LockInv
<1>3. CASE WaitFails(c, p)
  <2>1. TypeOK'
    BY <1>3 DEF LockInv, TypeOK, WaitFails, Goto, pvars, cvars, Open
  <2>2. OnCPUs'
    BY Nulls, <1>3 DEF LockInv, TypeOK, OnCPUs, OnCPU, WaitFails, At, Goto, pvars,
           cvars, Locked, InSched, Resumed
  <2>3. OffCPUs'
    BY <1>3 DEF LockInv, OffCPUs, WaitFails, At, Goto, pvars, cvars
  <2>4. TickLock'
    BY <1>3 DEF LockInv, TickLock, WaitFails, At, Goto, cvars, TickLocked
  <2>5. SlotsOK'
    BY <1>3 DEF LockInv, SlotsOK, WaitFails, At, Goto, pvars
  <2>6. ForksOK'
    BY <1>3 DEF LockInv, ForksOK, Where, ForkPoints, WaitFails, At, Goto, pvars
  <2> QED BY <2>1, <2>2, <2>3, <2>4, <2>5, <2>6 DEF LockInv
<1>4. CASE WaitSleep(c, p)
  <2>1. TypeOK'
    BY <1>4 DEF LockInv, TypeOK, WaitSleep, Goto, cvars, Locked, InSched, States
  <2>2. OnCPUs'
    BY <1>4 DEF LockInv, TypeOK, OnCPUs, OnCPU, WaitSleep, At, Goto, cvars, Locked,
           InSched
  <2>3. OffCPUs'
    BY <1>4 DEF LockInv, OffCPUs, WaitSleep, At, Goto, cvars
  <2>4. TickLock'
    BY <1>4 DEF LockInv, TickLock, WaitSleep, At, Goto, cvars, TickLocked
  <2>5. SlotsOK'
    BY <1>4 DEF LockInv, SlotsOK, WaitSleep, At, Goto
  <2>6. ForksOK'
    BY <1>4 DEF LockInv, OnCPUs, OnCPU, ForksOK, Where, ForkPoints, WaitSleep, At, Goto
  <2> QED BY <2>1, <2>2, <2>3, <2>4, <2>5, <2>6 DEF LockInv
<1>5. CASE Waited(c, p)
  <2>1. TypeOK'
    BY <1>5 DEF LockInv, TypeOK, Waited, Goto, cvars, Locked
  <2>2. OnCPUs'
    BY <1>5 DEF LockInv, OnCPUs, OnCPU, Waited, At, Goto, cvars, Locked, InSched,
           Resumed
  <2>3. OffCPUs'
    BY <1>5 DEF LockInv, OffCPUs, Waited, At, Goto, cvars
  <2>4. TickLock'
    BY <1>5 DEF LockInv, TickLock, Waited, At, Goto, cvars, TickLocked
  <2>5. SlotsOK'
    BY <1>5 DEF LockInv, SlotsOK, Waited, At, Goto
  <2>6. ForksOK'
    BY <1>5 DEF LockInv, ForksOK, Where, ForkPoints, Waited, At, Goto
  <2> QED BY <2>1, <2>2, <2>3, <2>4, <2>5, <2>6 DEF LockInv
<1> QED BY <1>1, <1>2, <1>3, <1>4, <1>5 DEF WaitStep

(* The steps of sys_sleep() and sleep(). *)
LEMMA SleepInv == ASSUME LockInv, NEW c \in CPUs, NEW p \in Slots, SleepStep(c, p) PROVE LockInv'
<1>1. CASE SleepStart(c, p)
  <2>1. TypeOK'
    BY <1>1 DEF LockInv, TypeOK, SleepStart, Goto, pvars, cvars, TickLocked
  <2>2. OnCPUs'
    BY <1>1 DEF LockInv, OnCPUs, OnCPU, SleepStart, At, Goto, pvars, cvars, Locked,
           InSched, Resumed
  <2>3. OffCPUs'
    BY <1>1 DEF LockInv, OffCPUs, SleepStart, At, Goto, pvars, cvars
  <2>4. TickLock'
    BY Nulls, <1>1 DEF LockInv, TypeOK, OnCPUs, OnCPU, TickLock, SleepStart, At, Goto,
           cvars, TickLocked
  <2>5. SlotsOK'
    BY <1>1 DEF LockInv, SlotsOK, SleepStart, At, Goto, pvars
  <2>6. ForksOK'
    BY <1>1 DEF LockInv, ForksOK, Where, ForkPoints, SleepStart, At, Goto, pvars
  <2> QED BY <2>1, <2>2, <2>3, <2>4, <2>5, <2>6 DEF LockInv
<1>2. CASE SleepDone(c, p)
  <2>1. TypeOK'
    BY <1>2 DEF LockInv, TypeOK, SleepDone, Goto, pvars, cvars, Open
  <2>2. OnCPUs'
    BY <1>2 DEF LockInv, OnCPUs, OnCPU, SleepDone, At, Goto, pvars, cvars, Locked,
           InSched, Resumed
  <2>3. OffCPUs'
    BY <1>2 DEF LockInv, OffCPUs, SleepDone, At, Goto, pvars, cvars
  <2>4. TickLock'
    BY Nulls, <1>2 DEF LockInv, TypeOK, TickLock, SleepDone, At, Goto, cvars, TickLocked
  <2>5. SlotsOK'
    BY <1>2 DEF LockInv, SlotsOK, SleepDone, At, Goto, pvars
  <2>6. ForksOK'
    BY <1>2 DEF LockInv, ForksOK, Where, ForkPoints, SleepDone, At, Goto, pvars
  <2> QED BY <2>1, <2>2, <2>3, <2>4, <2>5, <2>6 DEF LockInv
<1>3. CASE SleepMore(c, p)
  <2>1. TypeOK'
    BY <1>3 DEF LockInv, TypeOK, SleepMore, Goto, pvars, cvars, TickLocked
  <2>2. OnCPUs'
    BY <1>3 DEF LockInv, OnCPUs, OnCPU, SleepMore, At, Goto, pvars, cvars, Locked,
           InSched, Resumed
  <2>3. OffCPUs'
    BY <1>3 DEF LockInv, OffCPUs, SleepMore, At, Goto, pvars, cvars
  <2>4. TickLock'
    BY <1>3 DEF LockInv, TickLock, SleepMore, At, Goto, cvars, TickLocked
  <2>5. SlotsOK'
    BY <1>3 DEF LockInv, SlotsOK, SleepMore, At, Goto, pvars
  <2>6. ForksOK'
    BY <1>3 DEF LockInv, ForksOK, Where, ForkPoints, SleepMore, At, Goto, pvars
  <2> QED BY <2>1, <2>2, <2>3, <2>4, <2>5, <2>6 DEF LockInv
<1>4. CASE SleepOnTicks(c, p)
  <2>1. TypeOK'
    BY <1>4 DEF LockInv, TypeOK, SleepOnTicks, Goto, cvars, Locked, InSched, States
  <2>2. OnCPUs'
    BY Nulls, <1>4 DEF LockInv, TypeOK, OnCPUs, OnCPU, SleepOnTicks, At, Goto, cvars,
           Locked, InSched
  <2>3. OffCPUs'
    BY <1>4 DEF LockInv, OffCPUs, SleepOnTicks, At, Goto, cvars
  <2>4. TickLock'
    BY Nulls, <1>4 DEF LockInv, TypeOK, TickLock, SleepOnTicks, At, Goto, cvars,
           TickLocked
  <2>5. SlotsOK'
    BY <1>4 DEF LockInv, SlotsOK, SleepOnTicks, At, Goto
  <2>6. ForksOK'
    BY <1>4 DEF LockInv, OnCPUs, OnCPU, ForksOK, Where, ForkPoints, SleepOnTicks, At,
           Goto
  <2> QED BY <2>1, <2>2, <2>3, <2>4, <2>5, <2>6 DEF LockInv
<1>5. CASE Slept(c, p)
  <2>1. TypeOK'
    BY <1>5 DEF LockInv, TypeOK, Slept, Goto, cvars, Open
  <2>2. OnCPUs'
    BY Nulls, <1>5 DEF LockInv, TypeOK, OnCPUs, OnCPU, Slept, At, Goto, cvars, Locked,
           InSched, Resumed
  <2>3. OffCPUs'
    BY <1>5 DEF LockInv, OffCPUs, Slept, At, Goto, cvars
  <2>4. TickLock'
    BY <1>5 DEF LockInv, TickLock, Slept, At, Goto, cvars, TickLocked
  <2>5. SlotsOK'
    BY <1>5 DEF LockInv, SlotsOK, Slept, At, Goto
  <2>6. ForksOK'
    BY <1>5 DEF LockInv, ForksOK, Where, ForkPoints, Slept, At, Goto
  <2> QED BY <2>1, <2>2, <2>3, <2>4, <2>5, <2>6 DEF LockInv
<1>6. CASE SleepRelock(c, p)
  <2>1. TypeOK'
    BY <1>6 DEF LockInv, TypeOK, SleepRelock, Goto, pvars, cvars, TickLocked
  <2>2. OnCPUs'
    BY <1>6 DEF LockInv, OnCPUs, OnCPU, SleepRelock, At, Goto, pvars, cvars, Locked,
           InSched, Resumed
  <2>3. OffCPUs'
    BY <1>6 DEF LockInv, OffCPUs, SleepRelock, At, Goto, pvars, cvars
  <2>4. TickLock'
    BY Nulls, <1>6 DEF LockInv, TypeOK, OnCPUs, OnCPU, TickLock, SleepRelock, At, Goto,
           cvars, TickLocked
  <2>5. SlotsOK'
    BY <1>6 DEF LockInv, SlotsOK, SleepRelock, At, Goto, pvars
  <2>6. ForksOK'
    BY <1>6 DEF LockInv, ForksOK, Where, ForkPoints, SleepRelock, At, Goto, pvars
  <2> QED BY <2>1, <2>2, <2>3, <2>4, <2>5, <2>6 DEF LockInv
<1> QED BY <1>1, <1>2, <1>3, <1>4, <1>5, <1>6 DEF SleepStep

(* The steps of exit(). *)
LEMMA ExitInv == ASSUME LockInv, NEW c \in CPUs, NEW p \in Slots, Exit(c, p) PROVE LockInv'
<1>1. CASE Exit(c, p)
  <2>1. TypeOK'
    <3>1. state' \in [Slots -> States]
      BY DEF LockInv, TypeOK, Exit, AfterExit, Woken, States
    <3>2. parent' \in [Slots -> Slots \cup {NoProc}]
      BY DEF LockInv, TypeOK, Exit, Adopted, initproc, Slots
    <3>3. pc' \in [Slots -> Locked \cup TickLocked \cup Open]
      BY DEF LockInv, TypeOK, Exit, Goto, Locked, InSched
    <3> QED BY <3>1, <3>2, <3>3 DEF LockInv, TypeOK, Exit, cvars
  <2>2. OnCPUs'
    BY Nulls DEF LockInv, TypeOK, OnCPUs, OnCPU, Exit, AfterExit, Woken, At, Goto,
           cvars, Locked, InSched
  <2>3. OffCPUs'
    BY DEF LockInv, OffCPUs, Exit, AfterExit, Woken, At, Goto, cvars
  <2>4. TickLock'
    BY DEF LockInv, TickLock, Exit, At, Goto, cvars, TickLocked
  <2>5. SlotsOK'
    BY DEF LockInv, TypeOK, SlotsOK, Exit, AfterExit, Woken, At, Goto
  <2>6. ForksOK'
    BY DEF LockInv, TypeOK, SlotsOK, ForksOK, Where, ForkPoints, Exit, AfterExit, Woken,
           At, Goto
  <2> QED BY <2>1, <2>2, <2>3, <2>4, <2>5, <2>6 DEF LockInv
<1> QED BY <1>1

(* The steps of kill(). *)
LEMMA KillInv == ASSUME LockInv, NEW c \in CPUs, NEW p \in Slots, Kill(c, p) PROVE LockInv'
<1>1. CASE Kill(c, p)
  <2>1. TypeOK'
    <3>1. state' \in [Slots -> States]
      BY DEF LockInv, TypeOK, Kill, States
    <3> QED BY <3>1 DEF LockInv, TypeOK, Kill, Goto, cvars, Open
  <2>2. OnCPUs'
    BY DEF LockInv, TypeOK, OnCPUs, OnCPU, Kill, KillWakes, At, Goto, cvars, Locked,
           InSched, Resumed
  <2>3. OffCPUs'
    BY DEF LockInv, OffCPUs, Kill, At, Goto, cvars
  <2>4. TickLock'
    BY DEF LockInv, TickLock, Kill, At, Goto, cvars, TickLocked
  <2>5. SlotsOK'
    BY DEF LockInv, SlotsOK, Kill, KillWakes, At, Goto
  <2>6. ForksOK'
    BY DEF LockInv, TypeOK, ForksOK, Where, ForkPoints, Kill, KillWakes, At, Goto
  <2> QED BY <2>1, <2>2, <2>3, <2>4, <2>5, <2>6 DEF LockInv
<1> QED BY <1>1

(* User code, its traps and returns to it. *)
LEMMA UserInv ==
    ASSUME LockInv, NEW c \in CPUs, NEW p \in Slots, UserStep(c, p) \/ Sysret(c, p)
    PROVE  LockInv'
<1>1. CASE Syscall(c, p)
  <2>1. TypeOK'
    BY <1>1 DEF LockInv, TypeOK, Syscall, At, Goto, pvars, cvars, Open
  <2>2. OnCPUs'
    BY <1>1 DEF LockInv, OnCPUs, OnCPU, Syscall, At, Goto, pvars, cvars, Locked,
           InSched, Resumed
  <2>3. OffCPUs'
    BY <1>1 DEF LockInv, OffCPUs, Syscall, At, Goto, pvars, cvars
  <2>4. TickLock'
    BY <1>1 DEF LockInv, TickLock, Syscall, At, Goto, cvars, TickLocked
  <2>5. SlotsOK'
    BY <1>1 DEF LockInv, SlotsOK, Syscall, At, Goto, pvars
  <2>6. ForksOK'
    BY <1>1 DEF LockInv, ForksOK, Where, ForkPoints, Syscall, At, Goto, pvars
  <2> QED BY <2>1, <2>2, <2>3, <2>4, <2>5, <2>6 DEF LockInv
<1>2. CASE SyscallKilled(c, p)
  <2>1. TypeOK'
    BY <1>2 DEF LockInv, TypeOK, SyscallKilled, Goto, pvars, cvars, Open
  <2>2. OnCPUs'
    BY <1>2 DEF LockInv, OnCPUs, OnCPU, SyscallKilled, At, Goto, pvars, cvars, Locked,
           InSched, Resumed
  <2>3. OffCPUs'
    BY <1>2 DEF LockInv, OffCPUs, SyscallKilled, At, Goto, pvars, cvars
  <2>4. TickLock'
    BY <1>2 DEF LockInv, TickLock, SyscallKilled, At, Goto, cvars, TickLocked
  <2>5. SlotsOK'
    BY <1>2 DEF LockInv, SlotsOK, SyscallKilled, At, Goto, pvars
  <2>6. ForksOK'
    BY <1>2 DEF LockInv, ForksOK, Where, ForkPoints, SyscallKilled, At, Goto, pvars
  <2> QED BY <2>1, <2>2, <2>3, <2>4, <2>5, <2>6 DEF LockInv
<1>3. CASE Sysret(c, p)
  <2>1. TypeOK'
    BY <1>3 DEF LockInv, TypeOK, Sysret, Goto, pvars, cvars, Open
  <2>2. OnCPUs'
    BY <1>3 DEF LockInv, OnCPUs, OnCPU, Sysret, At, Goto, pvars, cvars, Locked, InSched,
           Resumed
  <2>3. OffCPUs'
    BY <1>3 DEF LockInv, OffCPUs, Sysret, At, Goto, pvars, cvars
  <2>4. TickLock'
    BY <1>3 DEF LockInv, TickLock, Sysret, At, Goto, cvars, TickLocked
  <2>5. SlotsOK'
    BY <1>3 DEF LockInv, SlotsOK, Sysret, At, Goto, pvars
  <2>6. ForksOK'
    BY <1>3 DEF LockInv, ForksOK, Where, ForkPoints, Sysret, At, Goto, pvars
  <2> QED BY <2>1, <2>2, <2>3, <2>4, <2>5, <2>6 DEF LockInv
<1> QED BY <1>1, <1>2, <1>3 DEF UserStep

(* The timer interrupt. *)
LEMMA IrqInv == ASSUME LockInv, NEW c \in CPUs, Timer(c) \/ TimerTick(c) PROVE LockInv'
<1>1. CASE Timer(c)
  <2>1. TypeOK'
    BY <1>1 DEF LockInv, TypeOK, Timer, pvars
  <2>2. OnCPUs'
    BY <1>1 DEF LockInv, OnCPUs, OnCPU, Timer, Interruptible, pvars
  <2>3. OffCPUs'
    BY <1>1 DEF LockInv, OffCPUs, Timer, pvars
  <2>4. TickLock'
    BY <1>1 DEF LockInv, TickLock, Timer, Interruptible
  <2>5. SlotsOK'
    BY <1>1 DEF LockInv, SlotsOK, Timer, pvars
  <2>6. ForksOK'
    BY <1>1 DEF LockInv, ForksOK, Where, Timer, pvars
  <2> QED BY <2>1, <2>2, <2>3, <2>4, <2>5, <2>6 DEF LockInv
<1>2. CASE TimerTick(c)
  <2>1. TypeOK'
    BY <1>2 DEF LockInv, TypeOK, TimerTick, Elapsed, pvars
  <2>2. OnCPUs'
    BY <1>2 DEF LockInv, OnCPUs, OnCPU, TimerTick, Interruptible, pvars
  <2>3. OffCPUs'
    BY <1>2 DEF LockInv, OffCPUs, TimerTick, pvars
  <2>4. TickLock'
    BY Nulls, <1>2 DEF LockInv, TypeOK, TickLock, TimerTick
  <2>5. SlotsOK'
    BY <1>2 DEF LockInv, SlotsOK, TimerTick, pvars
  <2>6. ForksOK'
    BY <1>2 DEF LockInv, ForksOK, Where, TimerTick, pvars
  <2> QED BY <2>1, <2>2, <2>3, <2>4, <2>5, <2>6 DEF LockInv
<1> QED BY <1>1, <1>2

(* The wakeup() of the timer handler. *)
LEMMA WakeInv == ASSUME LockInv, NEW c \in CPUs, TimerWake(c) PROVE LockInv'
<1>1. CASE TimerWake(c)
  <2>1. TypeOK'
    <3>1. state' \in [Slots -> States]
      BY DEF LockInv, TypeOK, TimerWake, Woken, States
    <3> QED BY <3>1 DEF LockInv, TypeOK, TimerWake
  <2>2. OnCPUs'
    BY DEF LockInv, TypeOK, OnCPUs, OnCPU, TimerWake, Woken
  <2>3. OffCPUs'
    BY DEF LockInv, OffCPUs, TimerWake, Woken
  <2>4. TickLock'
    BY Nulls DEF LockInv, TypeOK, OnCPUs, OnCPU, TickLock, TimerWake, TickLocked, Open
  <2>5. SlotsOK'
    BY DEF LockInv, SlotsOK, TimerWake, Woken
  <2>6. ForksOK'
    BY DEF LockInv, TypeOK, ForksOK, Where, TimerWake, Woken
  <2> QED BY <2>1, <2>2, <2>3, <2>4, <2>5, <2>6 DEF LockInv
<1> QED BY <1>1

(* The yield() of trap(). *)
LEMMA YieldInv ==
    ASSUME LockInv, NEW c \in CPUs, NEW p \in Slots, TimerKilled(c, p) \/ Yield(c, p)
    PROVE  LockInv'
<1>1. CASE TimerKilled(c, p)
  <2>1. TypeOK'
    BY <1>1 DEF LockInv, TypeOK, TimerKilled, Goto, pvars, Open
  <2>2. OnCPUs'
    BY <1>1 DEF LockInv, TypeOK, OnCPUs, OnCPU, TimerKilled, Goto, pvars, Locked,
           InSched, Resumed
  <2>3. OffCPUs'
    BY <1>1 DEF LockInv, OffCPUs, TimerKilled, Goto, pvars
  <2>4. TickLock'
    BY <1>1 DEF LockInv, TickLock, TimerKilled, Goto, TickLocked
  <2>5. SlotsOK'
    BY <1>1 DEF LockInv, SlotsOK, TimerKilled, Goto, pvars
  <2>6. ForksOK'
    BY <1>1 DEF LockInv, ForksOK, Where, ForkPoints, TimerKilled, Goto, pvars
  <2> QED BY <2>1, <2>2, <2>3, <2>4, <2>5, <2>6 DEF LockInv
<1>2. CASE Yield(c, p)
  <2>1. TypeOK'
    <3>1. pc[p] \in Open
      BY <1>2 DEF LockInv, OnCPUs, OnCPU, Yield, NoProc, Slots
    <3>2. pc' \in [Slots -> Locked \cup TickLocked \cup Open]
      BY <1>2 DEF LockInv, TypeOK, Yield, Goto, Locked, InSched
    <3> QED BY <1>2, <3>1, <3>2 DEF LockInv, TypeOK, Yield, States
  <2>2. OnCPUs'
    BY Nulls, <1>2 DEF LockInv, TypeOK, OnCPUs, OnCPU, Yield, Goto, Locked, InSched
  <2>3. OffCPUs'
    BY <1>2 DEF LockInv, OffCPUs, Yield, Goto
  <2>4. TickLock'
    BY <1>2 DEF LockInv, OnCPUs, OnCPU, TickLock, Yield, Goto, TickLocked, Open
  <2>5. SlotsOK'
    BY Nulls, <1>2 DEF LockInv, TypeOK, OnCPUs, OnCPU, SlotsOK, Yield, Goto
  <2>6. ForksOK'
    BY Nulls, <1>2 DEF LockInv, TypeOK, OnCPUs, OnCPU, ForksOK, Where, Yield, Goto, Open
  <2> QED BY <2>1, <2>2, <2>3, <2>4, <2>5, <2>6 DEF LockInv
<1> QED BY <1>1, <1>2

(* Every step of the system preserves the invariant. *)
LEMMA NextInv == LockInv /\ [Next]_vars => LockInv'
<1> SUFFICES ASSUME LockInv, [Next]_vars PROVE LockInv'
  OBVIOUS
<1>1. CASE UNCHANGED vars
  BY <1>1 DEF LockInv, TypeOK, OnCPUs, OnCPU, OffCPUs, TickLock, SlotsOK, ForksOK,
         Where, vars
<1>2. CASE Next
  <2>1. PICK c \in CPUs :
          \/ CPUStep(c) \/ Timer(c) \/ TimerTick(c)
          \/ \E p \in Slots : KernelStep(c, p) \/ UserStep(c, p)
    BY <1>2 DEF Next
  <2>2. CASE CPUStep(c)
    BY <2>2, SchedInv, WakeInv, YieldInv, SwitchInv DEF CPUStep, TimerStep
  <2>3. CASE Timer(c) \/ TimerTick(c)
    BY <2>3, IrqInv
  <2>4. ASSUME NEW p \in Slots, KernelStep(c, p) \/ UserStep(c, p) PROVE LockInv'
    BY <2>4, UserInv, ExitInv, KillInv, ForkInv, WaitInv, SleepInv DEF KernelStep
  <2> QED BY <2>1, <2>2, <2>3, <2>4
<1> QED BY <1>1, <1>2

(* LockInv holds in every reachable state, for any number of CPUs and      *)
(* processes: it is inductive.                                             *)
THEOREM Invariance == Spec => []LockInv
<1>1. Init => LockInv
  BY InitInv
<1>2. LockInv /\ [Next]_vars => LockInv'
  BY NextInv
<1> QED BY <1>1, <1>2, PTL DEF Spec

(* Every variable of the process table and the CPUs has its type.          *)
THEOREM Types == Spec => []TypeOK
<1>1. LockInv => TypeOK
  BY DEF LockInv
<1> QED BY <1>1, Invariance, PTL

(* No two CPUs share a kernel stack and no stack in use is freed, for any  *)
(* number of CPUs and processes.                                           *)
THEOREM Stacks == Spec => []StacksExclusive
<1>1. LockInv => StacksExclusive
  BY DEF LockInv, OnCPUs, OnCPU, StacksExclusive
<1> QED BY <1>1, Invariance, PTL

(* RUNNING processes are exactly those on CPUs, up to ptable.lock.         *)
THEOREM Running == Spec => []RunningIsOnCPU
<1>1. LockInv => RunningIsOnCPU
  BY DEF LockInv, OnCPUs, OnCPU, OffCPUs, RunningIsOnCPU, Locked
<1> QED BY <1>1, Invariance, PTL

(* The panics of sched() are unreachable.                                  *)
THEOREM SchedSafe == Spec => []SchedDiscipline
<1>1. LockInv => SchedDiscipline
  <2> SUFFICES ASSUME LockInv, NEW c \in CPUs, ctx[c] # NoProc, pc[ctx[c]] \in InSched
               PROVE  lock = c /\ tickslock # c /\ state[ctx[c]] # "RUNNING"
    BY DEF SchedDiscipline
  <2>1. OnCPU(c, ctx[c])
    BY DEF LockInv, OnCPUs
  <2>2. irq[c] # "wake" /\ pc[ctx[c]] \notin TickLocked
    BY <2>1 DEF OnCPU, InSched, Open, TickLocked
  <2> QED BY <2>1, <2>2 DEF OnCPU, LockInv, TickLock, Locked
<1> QED BY <1>1, Invariance, PTL

-----------------------------------------------------------------------------
(* Who executes outside sched() is RUNNING. *)
LEMMA OnCPURuns ==
    ASSUME LockInv, NEW c \in CPUs, NEW p \in Slots, ctx[c] = p, pc[p] \notin InSched
    PROVE  state[p] = "RUNNING"
BY Nulls DEF LockInv, OnCPUs, OnCPU

-----------------------------------------------------------------------------
(* Parents.  A step that leaves the parent fields alone, lets nobody die   *)
(* or be born and takes nobody to another point of fork() keeps them.      *)
LEMMA ParentsKept ==
    ASSUME LockInv, ParentsOK, parent' = parent,
           \A q \in Slots : /\ Alive(q) => Alive(q)'
                            /\ state[q] \in {"UNUSED", "EMBRYO"} => state'[q] = state[q]
                            /\ state'[q] = "UNUSED" => state[q] = "UNUSED"
                            /\ Where(q)' \in ForkPoints => Where(q)' = Where(q) /\ np'[q] = np[q]
    PROVE  ParentsOK'
<1>1. initproc \in Slots
  BY DEF initproc, Slots
<1>2. Alive(initproc)' /\ parent'[initproc] = NoProc
  BY <1>1 DEF ParentsOK
<1>3. ASSUME NEW p \in Slots PROVE
        /\ parent'[p] # p
        /\ state'[p] = "UNUSED" => parent'[p] = NoProc
        /\ Where(p)' \in {"fork_stack", "fork_vm"} => parent'[np'[p]] = NoProc
        /\ Where(p)' = "fork_ready" => parent'[np'[p]] = p
  BY <1>3 DEF ParentsOK, ForkPoints
<1>4. ASSUME NEW p \in Slots, p # initproc, state'[p] \notin {"UNUSED", "EMBRYO"}
      PROVE  parent'[p] # NoProc /\ Alive(parent[p])'
  <2>1. parent[p] # NoProc /\ Alive(parent[p])
    BY <1>4 DEF ParentsOK
  <2>2. parent[p] \in Slots
    BY <2>1 DEF LockInv, TypeOK
  <2> QED BY <2>1, <2>2 DEF Alive
<1> QED BY <1>2, <1>3, <1>4 DEF ParentsOK

LEMMA ParentsInit == Init => ParentsOK
BY DEF Init, ParentsOK, Alive, Where, initproc, NoProc, Slots

LEMMA ParentsSched ==
    ASSUME LockInv, ParentsOK, NEW c \in CPUs,
           SchedulerStep(c) \/ Timer(c) \/ TimerTick(c) \/ TimerWake(c)
    PROVE  ParentsOK'
<1>1. CASE SchedAcquire(c) \/ SchedReturn(c) \/ SchedRelease(c) \/ Timer(c) \/ TimerTick(c)
  BY <1>1, ParentsKept DEF SchedAcquire, SchedReturn, SchedRelease, Timer, TimerTick, pvars,
     Alive, Where
<1>2. CASE SchedPick(c)
  BY <1>2, ParentsKept DEF SchedPick, Ahead, Alive, Where, LockInv, TypeOK
<1>3. CASE TimerWake(c)
  BY <1>3, ParentsKept DEF TimerWake, Woken, Alive, Where, LockInv, TypeOK
<1> QED BY <1>1, <1>2, <1>3 DEF SchedulerStep

LEMMA ParentsSwitch ==
    ASSUME LockInv, ParentsOK, NEW c \in CPUs, NEW p \in Slots,
           SwitchStep(c, p) \/ TimerKilled(c, p) \/ Yield(c, p)
    PROVE  ParentsOK'
<1>1. CASE Forkret(c, p)
  BY <1>1, ParentsKept DEF Forkret, At, Goto, pvars, Alive, Where, ForkPoints, LockInv,
     TypeOK
<1>2. CASE Sched(c, p)
  <2>1. pc' = [pc EXCEPT ![p] = AfterSched[pc[p]]] /\ pc[p] \in InSched
        /\ UNCHANGED <<pvars, intr, np>>
    BY <1>2 DEF Sched, Goto
  <2>2. \A q \in Slots : Where(q)' \in ForkPoints => Where(q)' = Where(q)
    BY <2>1, Points DEF LockInv, TypeOK, Where, InSched, ForkPoints
  <2> QED BY <2>1, <2>2, ParentsKept DEF pvars, Alive
<1>3. CASE Yielded(c, p)
  <2>1. \A q \in Slots : Where(q)' \in ForkPoints => Where(q)' = Where(q)
    BY <1>3 DEF Yielded, At, Goto, LockInv, TypeOK, Where, ForkPoints, Open
  <2> QED BY <1>3, <2>1, ParentsKept DEF Yielded, pvars, Alive
<1>4. CASE TimerKilled(c, p)
  BY <1>4, ParentsKept DEF TimerKilled, Goto, pvars, Alive, Where, ForkPoints, LockInv,
     TypeOK
<1>5. CASE Yield(c, p)
  <2>1. pc[p] \in Open /\ state[p] = "RUNNING"
    BY <1>5, Nulls DEF Yield, LockInv, OnCPUs, OnCPU, InSched, Open
  <2>2. \A q \in Slots : Where(q)' \in ForkPoints => Where(q)' = Where(q)
    BY <1>5, <2>1 DEF Yield, Goto, LockInv, TypeOK, Where, Open
  <2> QED BY <1>5, <2>1, <2>2, ParentsKept DEF Yield, Alive, LockInv, TypeOK
<1> QED BY <1>1, <1>2, <1>3, <1>4, <1>5 DEF SwitchStep

LEMMA ParentsUser ==
    ASSUME LockInv, ParentsOK, NEW c \in CPUs, NEW p \in Slots,
           UserStep(c, p) \/ Sysret(c, p) \/ Kill(c, p) \/ SleepStep(c, p)
    PROVE  ParentsOK'
<1>1. CASE Syscall(c, p) \/ SyscallKilled(c, p) \/ Sysret(c, p)
  BY <1>1, ParentsKept DEF Syscall, SyscallKilled, Sysret, At, Goto, pvars, Alive,
     Where, ForkPoints, LockInv, TypeOK
<1>2. CASE Kill(c, p)
  BY <1>2, ParentsKept DEF Kill, KillWakes, At, Goto, Alive, Where, ForkPoints, LockInv,
     TypeOK
<1>3. CASE SleepStart(c, p) \/ SleepDone(c, p) \/ SleepMore(c, p) \/ Slept(c, p) \/ SleepRelock(c, p)
  BY <1>3, ParentsKept DEF SleepStart, SleepDone, SleepMore, Slept, SleepRelock, At, Goto,
     pvars,
     Alive, Where, ForkPoints, LockInv, TypeOK
<1>4. CASE SleepOnTicks(c, p)
  <2>1. state[p] = "RUNNING"
    BY <1>4, OnCPURuns DEF SleepOnTicks, At, InSched
  <2> QED BY <1>4, <2>1, ParentsKept DEF SleepOnTicks, At, Goto, Alive, Where, ForkPoints,
          LockInv, TypeOK
<1> QED BY <1>1, <1>2, <1>3, <1>4 DEF UserStep, SleepStep

(* A process inside fork(): the slot that it builds is its own and is      *)
(* nobody's parent.                                                        *)
LEMMA Building ==
    ASSUME LockInv, ParentsOK, NEW c \in CPUs, NEW p \in Slots, ctx[c] = p,
           pc[p] \in ForkPoints
    PROVE  /\ Where(p) = pc[p] /\ state[p] = "RUNNING"
           /\ np[p] \in Slots /\ np[p] # NoProc /\ np[p] # p /\ np[p] # initproc
           /\ state[np[p]] = "EMBRYO" /\ ~Alive(np[p]) /\ pc[np[p]] \in {"forkret", "dead"}
           /\ \A q \in Slots : np[q] = np[p] => q = p
<1>1. Where(p) = pc[p]
  BY DEF Where, ForkPoints
<1>2. state[p] = "RUNNING"
  BY OnCPURuns DEF ForkPoints, InSched
<1>3. np[p] \in Slots /\ np[p] # NoProc /\ state[np[p]] = "EMBRYO"
      /\ \A q \in Slots : np[q] = np[p] => q = p
  BY <1>1 DEF LockInv, ForksOK, TypeOK
<1>4. pc[np[p]] \in {"forkret", "dead"}
  BY <1>3 DEF LockInv, SlotsOK
<1> QED BY <1>1, <1>2, <1>3, <1>4 DEF Alive, ParentsOK

LEMMA ParentsAlloc ==
    ASSUME LockInv, ParentsOK, NEW c \in CPUs, NEW p \in Slots,
           Allocproc(c, p) \/ AllocprocFull(c, p)
    PROVE  ParentsOK'
<1>1. CASE Allocproc(c, p)
  <2>1. PICK q \in Slots : /\ state[q] = "UNUSED"
                           /\ state' = [state EXCEPT ![q] = "EMBRYO"]
                           /\ np' = [np EXCEPT ![p] = q]
    BY <1>1 DEF Allocproc, Free
  <2>2. pc' = [pc EXCEPT ![p] = "fork_stack"] /\ UNCHANGED <<parent, intr>>
    BY <1>1 DEF Allocproc, Goto
  <2>3. Alive(initproc)' /\ parent'[initproc] = NoProc
    BY <2>1, <2>2 DEF ParentsOK, Alive, LockInv, TypeOK
  <2>4. ASSUME NEW r \in Slots
        PROVE  /\ parent'[r] # r
               /\ state'[r] = "UNUSED" => parent'[r] = NoProc
               /\ r # initproc /\ state'[r] \notin {"UNUSED", "EMBRYO"} =>
                     parent'[r] # NoProc /\ Alive(parent[r])'
    BY <2>1, <2>2 DEF ParentsOK, Alive, LockInv, TypeOK
  <2>5. ASSUME NEW r \in Slots
        PROVE  /\ Where(r)' \in {"fork_stack", "fork_vm"} => parent'[np'[r]] = NoProc
               /\ Where(r)' = "fork_ready" => parent'[np'[r]] = r
    BY <2>1, <2>2 DEF ParentsOK, Where, LockInv, TypeOK
  <2> QED BY <2>2, <2>3, <2>4, <2>5 DEF ParentsOK
<1>2. CASE AllocprocFull(c, p)
  BY <1>2, ParentsKept DEF AllocprocFull, At, Goto, pvars, Alive, Where, ForkPoints,
     LockInv,
     TypeOK
<1> QED BY <1>1, <1>2

LEMMA ParentsBuild ==
    ASSUME LockInv, ParentsOK, NEW c \in CPUs, NEW p \in Slots,
           AllocStack(c, p) \/ CopyVm(c, p) \/ ForkReady(c, p)
    PROVE  ParentsOK'
<1>1. CASE AllocStack(c, p)
  <2>1. /\ ctx[c] = p /\ pc[p] = "fork_stack" /\ UNCHANGED <<state, parent, intr, np>>
        /\ pc' = [pc EXCEPT ![p] = "fork_vm", ![np[p]] = "forkret"]
    BY <1>1 DEF AllocStack, At
  <2>2. /\ Where(p) = "fork_stack" /\ Where(p)' = "fork_vm"
        /\ \A q \in Slots \ {p} : Where(q)' \in ForkPoints => Where(q)' = Where(q)
    BY <2>1, Building DEF LockInv, TypeOK, Where, ForkPoints
  <2> QED BY <2>1, <2>2 DEF ParentsOK, Alive, ForkPoints
<1>2. CASE CopyVm(c, p)
  <2>1. /\ ctx[c] = p /\ pc[p] = "fork_vm" /\ UNCHANGED <<state, intr, np>>
        /\ parent' = [parent EXCEPT ![np[p]] = p]
        /\ pc' = [pc EXCEPT ![p] = "fork_ready"]
    BY <1>2 DEF CopyVm, At, Goto
  <2>2. /\ Where(p) = "fork_vm" /\ Where(p)' = "fork_ready"
        /\ \A q \in Slots \ {p} : Where(q)' = Where(q)
    BY <2>1, Building DEF LockInv, TypeOK, Where, ForkPoints
  <2>3. /\ np[p] \in Slots /\ np[p] # p /\ np[p] # initproc /\ state[np[p]] = "EMBRYO"
        /\ \A q \in Slots : np[q] = np[p] => q = p
    BY <2>1, Building DEF ForkPoints
  <2>4. \A q \in Slots \ {np[p]} : parent'[q] = parent[q]
    BY <2>1, <2>3 DEF LockInv, TypeOK
  <2>5. parent'[np[p]] = p
    BY <2>1, <2>3 DEF LockInv, TypeOK
  <2>6. ASSUME NEW q \in Slots
        PROVE  /\ Where(q)' \in {"fork_stack", "fork_vm"} => parent'[np'[q]] = NoProc
               /\ Where(q)' = "fork_ready" => parent'[np'[q]] = q
    <3>1. CASE q = p
      BY <2>1, <2>2, <2>5, <3>1
    <3>2. CASE q # p /\ Where(q) \in ForkPoints
      <4>1. np[q] \in Slots \ {np[p]}
        BY <2>3, <3>2 DEF LockInv, ForksOK, TypeOK
      <4> QED BY <2>1, <2>2, <2>4, <3>2, <4>1 DEF ParentsOK
    <3>3. CASE q # p /\ Where(q) \notin ForkPoints
      BY <2>2, <3>3 DEF ForkPoints
    <3> QED BY <3>1, <3>2, <3>3
  <2>7. Alive(initproc)' /\ parent'[initproc] = NoProc
    BY <2>1, <2>3, <2>4 DEF ParentsOK, Alive, initproc, Slots
  <2>8. ASSUME NEW q \in Slots
        PROVE  /\ parent'[q] # q
               /\ state'[q] = "UNUSED" => parent'[q] = NoProc
               /\ q # initproc /\ state'[q] \notin {"UNUSED", "EMBRYO"} =>
                     parent'[q] # NoProc /\ Alive(parent[q])'
    BY <2>1, <2>3, <2>4, <2>5 DEF ParentsOK, Alive
  <2> QED BY <2>6, <2>7, <2>8 DEF ParentsOK
<1>3. CASE ForkReady(c, p)
  <2>1. /\ ctx[c] = p /\ pc[p] = "fork_ready" /\ UNCHANGED <<parent, intr>>
        /\ state' = [state EXCEPT ![np[p]] = "RUNNABLE"]
        /\ np' = [np EXCEPT ![p] = NoProc] /\ pc' = [pc EXCEPT ![p] = "sysret"]
    BY <1>3 DEF ForkReady, At, Goto
  <2>2. /\ Where(p) = "fork_ready" /\ Where(p)' = "sysret"
        /\ \A q \in Slots \ {p} : Where(q)' = Where(q) /\ np'[q] = np[q]
    BY <2>1, Building DEF LockInv, TypeOK, Where, ForkPoints
  <2>3. /\ np[p] \in Slots /\ np[p] # p /\ np[p] # initproc
        /\ state[p] = "RUNNING" /\ state[np[p]] = "EMBRYO" /\ parent[np[p]] = p
    BY <2>1, <2>2, Building DEF ForkPoints, ParentsOK
  <2>4. ASSUME NEW q \in Slots
        PROVE  /\ Where(q)' \in {"fork_stack", "fork_vm"} => parent'[np'[q]] = NoProc
               /\ Where(q)' = "fork_ready" => parent'[np'[q]] = q
    BY <2>1, <2>2 DEF ParentsOK
  <2>5. \A q \in Slots : Alive(q) => Alive(q)'
    BY <2>1, <2>3 DEF Alive, LockInv, TypeOK
  <2>6. Alive(initproc)' /\ parent'[initproc] = NoProc
    BY <2>1, <2>5 DEF ParentsOK, initproc, Slots
  <2>7. ASSUME NEW q \in Slots
        PROVE  /\ parent'[q] # q
               /\ state'[q] = "UNUSED" => parent'[q] = NoProc
               /\ q # initproc /\ state'[q] \notin {"UNUSED", "EMBRYO"} =>
                     parent'[q] # NoProc /\ Alive(parent[q])'
    <3>1. CASE q = np[p]
      BY <2>1, <2>3, <2>5, <3>1 DEF Alive, LockInv, TypeOK, NoProc, Slots
    <3>2. CASE q # np[p]
      <4>1. state'[q] = state[q] /\ parent'[q] = parent[q]
        BY <2>1, <2>3, <3>2 DEF LockInv, TypeOK
      <4>2. parent[q] \in Slots /\ Alive(parent[q]) => Alive(parent[q])'
        BY <2>1, <2>5 DEF Alive
      <4> QED BY <2>1, <4>1, <4>2 DEF ParentsOK, LockInv, TypeOK
    <3> QED BY <3>1, <3>2
  <2> QED BY <2>4, <2>6, <2>7 DEF ParentsOK
<1> QED BY <1>1, <1>2, <1>3

(* A fork() that fails gives back a slot that has no parent yet. *)
LEMMA ParentsUnbuild ==
    ASSUME LockInv, ParentsOK, NEW c \in CPUs, NEW p \in Slots,
           AllocStackFails(c, p) \/ CopyVmFails(c, p)
    PROVE  ParentsOK'
<1>1. /\ ctx[c] = p /\ pc[p] \in {"fork_stack", "fork_vm"} /\ UNCHANGED <<parent, intr>>
      /\ state' = [state EXCEPT ![np[p]] = "UNUSED"]
      /\ np' = [np EXCEPT ![p] = NoProc] /\ pc' = [pc EXCEPT ![p] = "sysret"]
  BY DEF AllocStackFails, CopyVmFails, At, Goto
<1>2. /\ Where(p) = pc[p] /\ Where(p)' = "sysret"
      /\ \A q \in Slots \ {p} : Where(q)' = Where(q) /\ np'[q] = np[q]
  BY <1>1, Building DEF LockInv, TypeOK, Where, ForkPoints
<1>3. /\ np[p] \in Slots /\ np[p] # initproc
      /\ ~Alive(np[p]) /\ parent[np[p]] = NoProc
  BY <1>1, <1>2, Building DEF ForkPoints, ParentsOK
<1>4. ASSUME NEW q \in Slots
      PROVE  /\ Where(q)' \in {"fork_stack", "fork_vm"} => parent'[np'[q]] = NoProc
             /\ Where(q)' = "fork_ready" => parent'[np'[q]] = q
  BY <1>1, <1>2 DEF ParentsOK
<1>5. \A q \in Slots : Alive(q) => Alive(q)'
  BY <1>1, <1>3 DEF Alive, LockInv, TypeOK
<1>6. Alive(initproc)' /\ parent'[initproc] = NoProc
  BY <1>1, <1>5 DEF ParentsOK, initproc, Slots
<1>7. ASSUME NEW q \in Slots
      PROVE  /\ parent'[q] # q
             /\ state'[q] = "UNUSED" => parent'[q] = NoProc
             /\ q # initproc /\ state'[q] \notin {"UNUSED", "EMBRYO"} =>
                   parent'[q] # NoProc /\ Alive(parent[q])'
  <2>1. CASE q = np[p]
    BY <1>1, <1>3, <2>1 DEF ParentsOK, LockInv, TypeOK
  <2>2. CASE q # np[p]
    <3>1. state'[q] = state[q] /\ parent'[q] = parent[q]
      BY <1>1, <1>3, <2>2 DEF LockInv, TypeOK
    <3>2. parent[q] \in Slots /\ Alive(parent[q]) => Alive(parent[q])'
      BY <1>1, <1>5 DEF Alive
    <3> QED BY <1>1, <3>1, <3>2 DEF ParentsOK, LockInv, TypeOK
  <2> QED BY <2>1, <2>2
<1> QED BY <1>4, <1>6, <1>7 DEF ParentsOK

(* exit() hands its children to init, which lives; nobody else had the     *)
(* process that exits as a parent.                                         *)
LEMMA ParentsExit ==
    ASSUME LockInv, ParentsOK, NEW c \in CPUs, NEW p \in Slots, Exit(c, p)
    PROVE  ParentsOK'
<1>1. /\ ctx[c] = p /\ pc[p] = "exit" /\ p # initproc /\ UNCHANGED <<intr, np>>
      /\ parent' = Adopted(p) /\ state' = AfterExit(p)
      /\ pc' = [pc EXCEPT ![p] = "sched_exit"]
  BY DEF Exit, At, Goto
<1>2. /\ state[p] = "RUNNING" /\ initproc \in Slots
      /\ state \in [Slots -> States] /\ parent \in [Slots -> Slots \cup {NoProc}]
  <2>1. state[p] = "RUNNING"
    BY <1>1, OnCPURuns DEF InSched
  <2> QED BY <2>1 DEF initproc, Slots, LockInv, TypeOK
<1>3. /\ state'[p] = "ZOMBIE"
      /\ \A q \in Slots \ {p} : \/ state'[q] = state[q]
                                \/ state[q] = "SLEEPING" /\ state'[q] = "RUNNABLE"
  BY <1>1, <1>2 DEF AfterExit, Woken
<1>4. \A q \in Slots : parent'[q] = IF parent[q] = p THEN initproc ELSE parent[q]
  BY <1>1, <1>2 DEF Adopted, Children
<1>5. \A q \in Slots \ {p} : Alive(q) => Alive(q)'
  BY <1>3 DEF Alive
<1>6. Alive(initproc)' /\ parent'[initproc] = NoProc
  BY <1>1, <1>2, <1>4, <1>5 DEF ParentsOK, NoProc, Slots
<1>7. ASSUME NEW q \in Slots
      PROVE  /\ parent'[q] # q
             /\ state'[q] = "UNUSED" => parent'[q] = NoProc
             /\ q # initproc /\ state'[q] \notin {"UNUSED", "EMBRYO"} =>
                   parent'[q] # NoProc /\ Alive(parent[q])'
  <2>1. CASE parent[q] = p
    <3>1. q # initproc /\ state[q] # "UNUSED" /\ parent'[q] = initproc
      BY <1>4, <2>1 DEF ParentsOK, NoProc, Slots
    <3> QED BY <1>3, <1>6, <3>1 DEF Alive, NoProc, initproc
  <2>2. CASE parent[q] # p
    <3>1. parent'[q] = parent[q]
      BY <1>4, <2>2
    <3>2. state'[q] \in {"UNUSED", "EMBRYO"} <=> state[q] \in {"UNUSED", "EMBRYO"}
      BY <1>2, <1>3
    <3>3. state'[q] = "UNUSED" => state[q] = "UNUSED"
      BY <1>2, <1>3
    <3>4. parent[q] # NoProc => parent[q] \in Slots \ {p}
      BY <1>2, <2>2
    <3> QED BY <1>5, <3>1, <3>2, <3>3, <3>4 DEF ParentsOK, Alive
  <2> QED BY <2>1, <2>2
<1>8. ASSUME NEW q \in Slots
      PROVE  /\ Where(q)' \in {"fork_stack", "fork_vm"} => parent'[np'[q]] = NoProc
             /\ Where(q)' = "fork_ready" => parent'[np'[q]] = q
  <2>1. CASE q = p
    BY <1>1, <2>1 DEF Where, LockInv, TypeOK
  <2>2. CASE q # p /\ Where(q) \in ForkPoints
    <3>1. np[q] \in Slots /\ Where(q)' = Where(q) /\ parent[np[q]] # p
      BY <1>1, <2>2 DEF LockInv, ForksOK, TypeOK, Where, ForkPoints, ParentsOK, NoProc,
         Slots
    <3> QED BY <1>1, <1>4, <2>2, <3>1 DEF ParentsOK
  <2>3. CASE q # p /\ Where(q) \notin ForkPoints
    BY <1>1, <2>3 DEF LockInv, TypeOK, Where, ForkPoints
  <2> QED BY <2>1, <2>2, <2>3
<1> QED BY <1>6, <1>7, <1>8 DEF ParentsOK

(* wait() reaps a ZOMBIE, which is nobody's parent.                        *)
LEMMA ParentsWait ==
    ASSUME LockInv, ParentsOK, NEW c \in CPUs, NEW p \in Slots, WaitStep(c, p)
    PROVE  ParentsOK'
<1>1. CASE WaitAcquire(c, p) \/ WaitFails(c, p) \/ Waited(c, p)
  BY <1>1, ParentsKept DEF WaitAcquire, WaitFails, Waited, At, Goto, pvars, Alive, Where,
     ForkPoints, LockInv, TypeOK
<1>2. CASE WaitSleep(c, p)
  <2>1. state[p] = "RUNNING"
    BY <1>2, OnCPURuns DEF WaitSleep, At, InSched
  <2> QED BY <1>2, <2>1, ParentsKept DEF WaitSleep, At, Goto, Alive, Where, ForkPoints,
          LockInv, TypeOK
<1>3. CASE Reap(c, p)
  <2>1. PICK z \in Slots : /\ state[z] = "ZOMBIE" /\ parent[z] = p
                           /\ parent' = [parent EXCEPT ![z] = NoProc]
                           /\ state' = [state EXCEPT ![z] = "UNUSED"]
    BY <1>3 DEF Reap, Zombies, Children
  <2>2. /\ ctx[c] = p /\ pc[p] = "wait_loop" /\ UNCHANGED <<intr, np>>
        /\ pc' = [pc EXCEPT ![p] = "sysret"]
    BY <1>3 DEF Reap, At, Goto
  <2>3. /\ state \in [Slots -> States] /\ parent \in [Slots -> Slots \cup {NoProc}]
        /\ initproc \in Slots /\ z # initproc
    BY <2>1 DEF LockInv, TypeOK, initproc, Slots, ParentsOK, Alive
  <2>4. \A q \in Slots \ {z} : parent'[q] = parent[q] /\ state'[q] = state[q]
    BY <2>1, <2>3
  <2>5. parent'[z] = NoProc /\ state'[z] = "UNUSED" /\ ~Alive(z)
    BY <2>1, <2>3 DEF Alive
  <2>6. Alive(initproc)' /\ parent'[initproc] = NoProc
    BY <2>3, <2>4 DEF ParentsOK, Alive
  <2>7. ASSUME NEW q \in Slots
        PROVE  /\ parent'[q] # q
               /\ state'[q] = "UNUSED" => parent'[q] = NoProc
               /\ q # initproc /\ state'[q] \notin {"UNUSED", "EMBRYO"} =>
                     parent'[q] # NoProc /\ Alive(parent[q])'
    <3>1. CASE q = z
      BY <2>5, <3>1 DEF NoProc, Slots
    <3>2. CASE q # z
      <4>1. parent[q] # NoProc /\ Alive(parent[q]) => Alive(parent[q])'
        BY <2>3, <2>4, <2>5, <3>2 DEF Alive
      <4> QED BY <2>4, <3>2, <4>1 DEF ParentsOK
    <3> QED BY <3>1, <3>2
  <2>8. ASSUME NEW q \in Slots
        PROVE  /\ Where(q)' \in {"fork_stack", "fork_vm"} => parent'[np'[q]] = NoProc
               /\ Where(q)' = "fork_ready" => parent'[np'[q]] = q
    <3>1. Where(q)' \in ForkPoints => Where(q)' = Where(q)
      BY <2>2 DEF LockInv, TypeOK, Where, ForkPoints
    <3>2. Where(q) \in ForkPoints => np[q] \in Slots \ {z}
      BY <2>1 DEF LockInv, ForksOK, TypeOK
    <3> QED BY <2>2, <2>4, <3>1, <3>2 DEF ParentsOK, ForkPoints
  <2> QED BY <2>6, <2>7, <2>8 DEF ParentsOK
<1> QED BY <1>1, <1>2, <1>3 DEF WaitStep

LEMMA ParentsNext == LockInv /\ ParentsOK /\ [Next]_vars => ParentsOK'
<1> SUFFICES ASSUME LockInv, ParentsOK, [Next]_vars PROVE ParentsOK'
  OBVIOUS
<1>1. CASE UNCHANGED vars
  BY <1>1, ParentsKept DEF vars, Alive, Where
<1>2. CASE Next
  <2>1. PICK c \in CPUs :
          \/ CPUStep(c) \/ Timer(c) \/ TimerTick(c)
          \/ \E p \in Slots : KernelStep(c, p) \/ UserStep(c, p)
    BY <1>2 DEF Next
  <2>2. CASE CPUStep(c) \/ Timer(c) \/ TimerTick(c)
    BY <2>2, ParentsSched, ParentsSwitch DEF CPUStep, TimerStep
  <2>3. ASSUME NEW p \in Slots, KernelStep(c, p) \/ UserStep(c, p) PROVE ParentsOK'
    BY <2>3, ParentsUser, ParentsAlloc, ParentsBuild, ParentsUnbuild, ParentsExit,
       ParentsWait
       DEF KernelStep, ForkStep
  <2> QED BY <2>1, <2>2, <2>3
<1> QED BY <1>1, <1>2

-----------------------------------------------------------------------------
(* Ticks.  A step that does not touch the clock and sends nobody to sleep  *)
(* on it.                                                                  *)
LEMMA TicksKept ==
    ASSUME TicksOK, left' = left,
           (\A c \in CPUs : irq'[c] # "wake") => (\A c \in CPUs : irq[c] # "wake"),
           \A q \in Slots : /\ pc'[q] = "sleep_lock" => pc[q] = "sleep_lock"
                            /\ state'[q] = "SLEEPING" /\ chan'[q] = TickChan =>
                                  state[q] = "SLEEPING" /\ chan[q] = TickChan
    PROVE  TicksOK'
BY DEF TicksOK, TickNotMissed

LEMMA TicksInit == Init => TicksOK
BY DEF Init, TicksOK, TickNotMissed

LEMMA TicksSched ==
    ASSUME LockInv, TicksOK, NEW c \in CPUs, SchedulerStep(c) \/ Timer(c)
    PROVE  TicksOK'
<1>1. CASE SchedAcquire(c) \/ SchedReturn(c) \/ SchedRelease(c)
  BY <1>1, TicksKept DEF SchedAcquire, SchedReturn, SchedRelease, pvars
<1>2. CASE SchedPick(c)
  BY <1>2, TicksKept DEF SchedPick, Ahead, LockInv, TypeOK
<1>3. CASE Timer(c)
  BY <1>3, TicksKept DEF Timer, Interruptible, pvars, LockInv, TypeOK
<1> QED BY <1>1, <1>2, <1>3 DEF SchedulerStep

(* The timer counts the tick while nobody is on the way to sleep, who would *)
(* hold tickslock, and wakes everybody before it lets go of the lock.      *)
LEMMA TicksTimer ==
    ASSUME LockInv, TicksOK, NEW c \in CPUs, TimerTick(c) \/ TimerWake(c)
    PROVE  TicksOK'
<1>1. CASE TimerTick(c)
  <2>1. irq'[c] = "wake" /\ tickslock = NoCPU /\ pc' = pc
    BY <1>1 DEF TimerTick, LockInv, TypeOK
  <2>2. ASSUME NEW q \in Slots, pc[q] = "sleep_lock" PROVE FALSE
    <3>1. PICK d \in CPUs : ctx[d] = q
      BY <2>2 DEF LockInv, OffCPUs, Resumed
    <3>2. tickslock = d
      BY <2>2, <3>1, Nulls DEF LockInv, TickLock, TickLocked
    <3> QED BY <2>1, <3>2, Nulls
  <2> QED BY <2>1, <2>2 DEF TicksOK, TickNotMissed
<1>2. CASE TimerWake(c)
  <2>1. \A q \in Slots : ~(state'[q] = "SLEEPING" /\ chan'[q] = TickChan)
    BY <1>2 DEF TimerWake, Woken
  <2> QED BY <1>2, <2>1 DEF TimerWake, TicksOK, TickNotMissed
<1> QED BY <1>1, <1>2

LEMMA TicksSwitch ==
    ASSUME LockInv, TicksOK, NEW c \in CPUs, NEW p \in Slots,
           SwitchStep(c, p) \/ TimerKilled(c, p) \/ Yield(c, p)
    PROVE  TicksOK'
<1>1. CASE Forkret(c, p)
  BY <1>1, TicksKept DEF Forkret, Goto, pvars, cvars, LockInv, TypeOK
<1>2. CASE Sched(c, p)
  BY <1>2, Points, TicksKept DEF Sched, Goto, pvars, InSched, LockInv, TypeOK
<1>3. CASE Yielded(c, p)
  BY <1>3, TicksKept DEF Yielded, Goto, pvars, cvars, LockInv, TypeOK, Open
<1>4. CASE TimerKilled(c, p) \/ Yield(c, p)
  BY <1>4, TicksKept DEF TimerKilled, Yield, Goto, pvars, LockInv, TypeOK
<1> QED BY <1>1, <1>2, <1>3, <1>4 DEF SwitchStep

LEMMA TicksUser ==
    ASSUME LockInv, TicksOK, NEW c \in CPUs, NEW p \in Slots,
           UserStep(c, p) \/ Sysret(c, p) \/ Kill(c, p) \/ Exit(c, p)
    PROVE  TicksOK'
<1>1. CASE Syscall(c, p) \/ SyscallKilled(c, p) \/ Sysret(c, p)
  BY <1>1, TicksKept DEF Syscall, SyscallKilled, Sysret, Goto, pvars, cvars, LockInv, TypeOK
<1>2. CASE Kill(c, p)
  BY <1>2, TicksKept DEF Kill, Goto, cvars, LockInv, TypeOK
<1>3. CASE Exit(c, p)
  BY <1>3, TicksKept DEF Exit, AfterExit, Woken, Goto, cvars, LockInv, TypeOK
<1> QED BY <1>1, <1>2, <1>3 DEF UserStep

LEMMA TicksFork ==
    ASSUME LockInv, TicksOK, NEW c \in CPUs, NEW p \in Slots, ForkStep(c, p)
    PROVE  TicksOK'
<1>1. CASE Allocproc(c, p)
  BY <1>1, TicksKept DEF Allocproc, Free, Goto, cvars, LockInv, TypeOK
<1>2. CASE AllocprocFull(c, p)
  BY <1>2, TicksKept DEF AllocprocFull, Goto, pvars, cvars, LockInv, TypeOK
<1>3. CASE AllocStack(c, p)
  BY <1>3, TicksKept DEF AllocStack, cvars, LockInv, TypeOK
<1>4. CASE CopyVm(c, p)
  BY <1>4, TicksKept DEF CopyVm, Goto, cvars, LockInv, TypeOK
<1>5. CASE AllocStackFails(c, p) \/ CopyVmFails(c, p) \/ ForkReady(c, p)
  BY <1>5, TicksKept DEF AllocStackFails, CopyVmFails, ForkReady, Goto, cvars, LockInv,
     TypeOK
<1> QED BY <1>1, <1>2, <1>3, <1>4, <1>5 DEF ForkStep

LEMMA TicksWait ==
    ASSUME LockInv, TicksOK, NEW c \in CPUs, NEW p \in Slots, WaitStep(c, p)
    PROVE  TicksOK'
<1>1. CASE WaitAcquire(c, p) \/ WaitFails(c, p)
  BY <1>1, TicksKept DEF WaitAcquire, WaitFails, Goto, pvars, cvars, LockInv, TypeOK
<1>2. CASE Reap(c, p)
  BY <1>2, TicksKept DEF Reap, Goto, cvars, LockInv, TypeOK
<1>3. CASE WaitSleep(c, p)
  <2>1. p # TickChan
    BY DEF TickChan, Slots
  <2> QED BY <1>3, <2>1, TicksKept DEF WaitSleep, Goto, cvars, LockInv, TypeOK
<1>4. CASE Waited(c, p)
  <2>1. NoChan # TickChan
    BY DEF NoChan, TickChan
  <2> QED BY <1>4, <2>1, TicksKept DEF Waited, Goto, cvars, LockInv, TypeOK
<1> QED BY <1>1, <1>2, <1>3, <1>4 DEF WaitStep

LEMMA TicksSleep ==
    ASSUME LockInv, TicksOK, NEW c \in CPUs, NEW p \in Slots, SleepStep(c, p)
    PROVE  TicksOK'
<1>1. CASE SleepStart(c, p) \/ SleepDone(c, p)
  <2>1. state[p] = "RUNNING"
    BY <1>1, OnCPURuns DEF SleepStart, SleepDone, At, InSched
  <2>2. /\ \A q \in Slots \ {p} : left'[q] = left[q] /\ pc'[q] = pc[q]
        /\ pc'[p] # "sleep_lock" /\ UNCHANGED <<state, chan, irq>>
    BY <1>1 DEF SleepStart, SleepDone, Goto, pvars, cvars, LockInv, TypeOK
  <2> QED BY <2>1, <2>2 DEF TicksOK, TickNotMissed
<1>2. CASE SleepMore(c, p)
  BY <1>2 DEF SleepMore, Goto, pvars, cvars, LockInv, TypeOK, TicksOK, TickNotMissed
<1>3. CASE SleepOnTicks(c, p)
  <2>1. left[p] > 0
    BY <1>3 DEF SleepOnTicks, At, TicksOK
  <2> QED BY <1>3, <2>1 DEF SleepOnTicks, Goto, cvars, LockInv, TypeOK, TicksOK,
             TickNotMissed
<1>4. CASE Slept(c, p)
  <2>1. NoChan # TickChan
    BY DEF NoChan, TickChan
  <2> QED BY <1>4, <2>1, TicksKept DEF Slept, Goto, cvars, LockInv, TypeOK
<1>5. CASE SleepRelock(c, p)
  BY <1>5, TicksKept DEF SleepRelock, Goto, pvars, cvars, LockInv, TypeOK
<1> QED BY <1>1, <1>2, <1>3, <1>4, <1>5 DEF SleepStep

LEMMA TicksNext == LockInv /\ TicksOK /\ [Next]_vars => TicksOK'
<1> SUFFICES ASSUME LockInv, TicksOK, [Next]_vars PROVE TicksOK'
  OBVIOUS
<1>1. CASE UNCHANGED vars
  BY <1>1, TicksKept DEF vars
<1>2. CASE Next
  <2>1. PICK c \in CPUs :
          \/ CPUStep(c) \/ Timer(c) \/ TimerTick(c)
          \/ \E p \in Slots : KernelStep(c, p) \/ UserStep(c, p)
    BY <1>2 DEF Next
  <2>2. CASE CPUStep(c) \/ Timer(c) \/ TimerTick(c)
    BY <2>2, TicksSched, TicksTimer, TicksSwitch DEF CPUStep, TimerStep
  <2>3. ASSUME NEW p \in Slots, KernelStep(c, p) \/ UserStep(c, p) PROVE TicksOK'
    BY <2>3, TicksUser, TicksFork, TicksWait, TicksSleep DEF KernelStep
  <2> QED BY <2>1, <2>2, <2>3
<1> QED BY <1>1, <1>2

-----------------------------------------------------------------------------
(* Sleepers in wait().  A step that moves no child and makes no ZOMBIE.    *)
LEMMA WaitersKept ==
    ASSUME WaitersOK, parent' = parent,
           \A q \in Slots : /\ state'[q] = "ZOMBIE" => state[q] = "ZOMBIE"
                            /\ state'[q] = "SLEEPING" /\ chan'[q] = q =>
                                  /\ state[q] = "SLEEPING" /\ chan[q] = q
                                  /\ killed[q] \in BOOLEAN /\ killed'[q] = killed[q]
    PROVE  WaitersOK'
BY DEF WaitersOK, Children, Zombies

LEMMA WaitersInit == Init => WaitersOK
BY DEF Init, WaitersOK

LEMMA WaitersSched ==
    ASSUME LockInv, WaitersOK, NEW c \in CPUs,
           SchedulerStep(c) \/ Timer(c) \/ TimerTick(c) \/ TimerWake(c)
    PROVE  WaitersOK'
<1>1. CASE SchedAcquire(c) \/ SchedReturn(c) \/ SchedRelease(c) \/ Timer(c) \/ TimerTick(c)
  BY <1>1, WaitersKept DEF SchedAcquire, SchedReturn, SchedRelease, Timer, TimerTick, pvars,
     LockInv, TypeOK
<1>2. CASE SchedPick(c)
  BY <1>2, WaitersKept DEF SchedPick, Ahead, LockInv, TypeOK
<1>3. CASE TimerWake(c)
  BY <1>3, WaitersKept DEF TimerWake, Woken, LockInv, TypeOK
<1> QED BY <1>1, <1>2, <1>3 DEF SchedulerStep

LEMMA WaitersSwitch ==
    ASSUME LockInv, WaitersOK, NEW c \in CPUs, NEW p \in Slots,
           SwitchStep(c, p) \/ TimerKilled(c, p) \/ Yield(c, p) \/ UserStep(c, p) \/ Sysret(c, p)
    PROVE  WaitersOK'
<1>1. CASE Forkret(c, p) \/ Sched(c, p) \/ Yielded(c, p) \/ TimerKilled(c, p)
  BY <1>1, WaitersKept DEF Forkret, Sched, Yielded, TimerKilled, pvars, LockInv, TypeOK
<1>2. CASE Yield(c, p)
  BY <1>2, WaitersKept DEF Yield, LockInv, TypeOK
<1>3. CASE Syscall(c, p) \/ SyscallKilled(c, p) \/ Sysret(c, p)
  BY <1>3, WaitersKept DEF Syscall, SyscallKilled, Sysret, pvars, LockInv, TypeOK
<1> QED BY <1>1, <1>2, <1>3 DEF SwitchStep, UserStep

LEMMA WaitersSleep ==
    ASSUME LockInv, WaitersOK, NEW c \in CPUs, NEW p \in Slots, SleepStep(c, p)
    PROVE  WaitersOK'
<1>1. CASE SleepStart(c, p) \/ SleepDone(c, p) \/ SleepMore(c, p) \/ SleepRelock(c, p)
  BY <1>1, WaitersKept DEF SleepStart, SleepDone, SleepMore, SleepRelock, pvars, LockInv,
     TypeOK
<1>2. CASE SleepOnTicks(c, p)
  <2>1. p # TickChan
    BY DEF TickChan, Slots
  <2> QED BY <1>2, <2>1, WaitersKept DEF SleepOnTicks, LockInv, TypeOK
<1>3. CASE Slept(c, p)
  <2>1. p # NoChan
    BY DEF NoChan, Slots
  <2> QED BY <1>3, <2>1, WaitersKept DEF Slept, LockInv, TypeOK
<1> QED BY <1>1, <1>2, <1>3 DEF SleepStep

(* kill() wakes whom it marks. *)
LEMMA WaitersKill ==
    ASSUME LockInv, WaitersOK, NEW c \in CPUs, NEW p \in Slots, Kill(c, p)
    PROVE  WaitersOK'
<1>1. PICK k \in KillPids :
        LET Hit == {q \in Slots : pid[q] = k}
            First == {q \in Hit : \A r \in Hit : q <= r}
        IN  /\ killed' = [q \in Slots |-> killed[q] \/ q \in First]
            /\ state' = [q \in Slots |->
                           IF q \in First /\ KillWakes(state[q]) THEN "RUNNABLE" ELSE state[q]]
  BY DEF Kill
<1>2. ASSUME NEW q \in Slots, state'[q] = "SLEEPING"
      PROVE  state[q] = "SLEEPING" /\ killed[q] \in BOOLEAN /\ killed'[q] = killed[q]
  BY <1>1, <1>2 DEF KillWakes, LockInv, TypeOK
<1>3. \A q \in Slots : state'[q] = "ZOMBIE" => state[q] = "ZOMBIE"
  BY <1>1
<1> QED BY <1>2, <1>3, WaitersKept DEF Kill

(* A fork() gives a parent to a slot that has none: nobody loses a child.  *)
LEMMA WaitersFork ==
    ASSUME LockInv, ParentsOK, WaitersOK, NEW c \in CPUs, NEW p \in Slots, ForkStep(c, p)
    PROVE  WaitersOK'
<1>1. CASE Allocproc(c, p)
  BY <1>1, WaitersKept DEF Allocproc, Free, LockInv, TypeOK
<1>2. CASE AllocprocFull(c, p) \/ AllocStack(c, p)
  BY <1>2, WaitersKept DEF AllocprocFull, AllocStack, pvars, LockInv, TypeOK
<1>3. CASE AllocStackFails(c, p) \/ CopyVmFails(c, p) \/ ForkReady(c, p)
  BY <1>3, WaitersKept DEF AllocStackFails, CopyVmFails, ForkReady, LockInv, TypeOK
<1>4. CASE CopyVm(c, p)
  <2>1. /\ np[p] \in Slots /\ state[np[p]] = "EMBRYO" /\ parent[np[p]] = NoProc
    BY <1>4, Building DEF CopyVm, At, ForkPoints, ParentsOK
  <2>2. /\ parent' = [parent EXCEPT ![np[p]] = p] /\ UNCHANGED <<state, chan, killed>>
    BY <1>4 DEF CopyVm
  <2>3. ASSUME NEW q \in Slots
        PROVE  Children(q) \subseteq Children(q)' /\ Zombies(q)' \subseteq Zombies(q)
    BY <2>1, <2>2, Nulls DEF LockInv, TypeOK, Children, Zombies
  <2> QED BY <2>2, <2>3 DEF WaitersOK
<1> QED BY <1>1, <1>2, <1>3, <1>4 DEF ForkStep

(* exit() wakes the parent, and init if it gets a ZOMBIE.                  *)
LEMMA WaitersExit ==
    ASSUME LockInv, ParentsOK, WaitersOK, NEW c \in CPUs, NEW p \in Slots, Exit(c, p)
    PROVE  WaitersOK'
<1>1. /\ parent' = Adopted(p) /\ state' = AfterExit(p) /\ UNCHANGED <<chan, killed>>
      /\ p # initproc
  BY DEF Exit
<1>2. /\ state \in [Slots -> States] /\ parent \in [Slots -> Slots \cup {NoProc}]
      /\ initproc \in Slots
  BY DEF LockInv, TypeOK, initproc, Slots
<1>3. /\ state'[p] = "ZOMBIE" /\ parent[p] # p
      /\ \A q \in Slots \ {p} : /\ state'[q] = "SLEEPING" => state[q] = "SLEEPING"
                                /\ state'[q] = "ZOMBIE" => state[q] = "ZOMBIE"
  BY <1>1, <1>2 DEF AfterExit, Woken, ParentsOK
<1>4. \A q \in Slots : parent'[q] = IF parent[q] = p THEN initproc ELSE parent[q]
  BY <1>1, <1>2 DEF Adopted, Children
<1>5. SUFFICES ASSUME NEW r \in Slots, state'[r] = "SLEEPING", chan'[r] = r
               PROVE  Children(r)' # {} /\ Zombies(r)' = {} /\ ~killed'[r]
  BY DEF WaitersOK
<1>6. /\ r # p /\ state[r] = "SLEEPING" /\ chan[r] = r
      /\ Children(r) # {} /\ Zombies(r) = {} /\ ~killed[r]
  BY <1>1, <1>3, <1>5 DEF WaitersOK
<1>7. Children(r)' # {}
  BY <1>4, <1>6 DEF Children
<1>8. parent[p] # r
  BY <1>1, <1>2, <1>5, <1>6 DEF AfterExit, Woken
<1>9. ASSUME NEW q \in Slots, parent'[q] = r, state'[q] = "ZOMBIE" PROVE FALSE
  <2>1. CASE q = p
    BY <1>3, <1>4, <1>8, <1>9, <2>1
  <2>2. CASE q # p /\ parent[q] = r
    BY <1>3, <1>6, <1>9, <2>2 DEF Zombies, Children
  <2>3. CASE q # p /\ parent[q] # r
    <3>1. parent[q] = p /\ r = initproc /\ state[q] = "ZOMBIE"
      BY <1>3, <1>4, <1>9, <2>3
    <3>2. \E x \in Children(p) : state[x] = "ZOMBIE"
      BY <3>1 DEF Children
    <3> QED BY <1>1, <1>2, <1>5, <1>6, <3>1, <3>2 DEF AfterExit, Woken
  <2> QED BY <2>1, <2>2, <2>3
<1> QED BY <1>1, <1>6, <1>7, <1>9 DEF Zombies, Children

LEMMA WaitersWait ==
    ASSUME LockInv, WaitersOK, NEW c \in CPUs, NEW p \in Slots, WaitStep(c, p)
    PROVE  WaitersOK'
<1>1. CASE WaitAcquire(c, p) \/ WaitFails(c, p)
  BY <1>1, WaitersKept DEF WaitAcquire, WaitFails, pvars, LockInv, TypeOK
<1>2. CASE Waited(c, p)
  <2>1. p # NoChan
    BY DEF NoChan, Slots
  <2> QED BY <1>2, <2>1, WaitersKept DEF Waited, LockInv, TypeOK
<1>3. CASE WaitSleep(c, p)
  <2>1. /\ Children(p) # {} /\ Zombies(p) = {} /\ ~killed[p]
        /\ UNCHANGED <<parent, killed>>
        /\ chan' = [chan EXCEPT ![p] = p] /\ state' = [state EXCEPT ![p] = "SLEEPING"]
    BY <1>3 DEF WaitSleep
  <2>2. \A q \in Slots : Children(q)' = Children(q) /\ Zombies(q)' \subseteq Zombies(q)
    BY <2>1 DEF Children, Zombies, LockInv, TypeOK
  <2>3. \A q \in Slots \ {p} : state'[q] = state[q] /\ chan'[q] = chan[q]
    BY <2>1 DEF LockInv, TypeOK
  <2> QED BY <2>1, <2>2, <2>3 DEF WaitersOK
<1>4. CASE Reap(c, p)
  <2>1. state[p] = "RUNNING"
    BY <1>4, OnCPURuns DEF Reap, At, InSched
  <2>2. PICK z \in Slots : /\ state[z] = "ZOMBIE" /\ parent[z] = p
                           /\ parent' = [parent EXCEPT ![z] = NoProc]
                           /\ killed' = [killed EXCEPT ![z] = FALSE]
                           /\ state' = [state EXCEPT ![z] = "UNUSED"]
    BY <1>4 DEF Reap, Zombies, Children
  <2>3. \A q \in Slots \ {z} : /\ parent'[q] = parent[q] /\ state'[q] = state[q]
                               /\ killed'[q] = killed[q]
    BY <2>2 DEF LockInv, TypeOK
  <2>4. parent'[z] = NoProc /\ state'[z] = "UNUSED" /\ chan' = chan
    BY <1>4, <2>2 DEF LockInv, TypeOK, Reap
  <2>5. ASSUME NEW r \in Slots, r # p
        PROVE  Children(r)' = Children(r) /\ Zombies(r)' = Zombies(r)
    BY <2>2, <2>3, <2>4, <2>5, Nulls DEF Children, Zombies
  <2>6. \A r \in Slots : state'[r] = "SLEEPING" => r # p /\ r # z
    BY <2>1, <2>2, <2>3, <2>4
  <2> QED BY <2>3, <2>4, <2>5, <2>6 DEF WaitersOK
<1> QED BY <1>1, <1>2, <1>3, <1>4 DEF WaitStep

LEMMA WaitersNext == LockInv /\ ParentsOK /\ WaitersOK /\ [Next]_vars => WaitersOK'
<1> SUFFICES ASSUME LockInv, ParentsOK, WaitersOK, [Next]_vars PROVE WaitersOK'
  OBVIOUS
<1>1. CASE UNCHANGED vars
  BY <1>1, WaitersKept DEF vars, LockInv, TypeOK
<1>2. CASE Next
  <2>1. PICK c \in CPUs :
          \/ CPUStep(c) \/ Timer(c) \/ TimerTick(c)
          \/ \E p \in Slots : KernelStep(c, p) \/ UserStep(c, p)
    BY <1>2 DEF Next
  <2>2. CASE CPUStep(c) \/ Timer(c) \/ TimerTick(c)
    BY <2>2, WaitersSched, WaitersSwitch DEF CPUStep, TimerStep
  <2>3. ASSUME NEW p \in Slots, KernelStep(c, p) \/ UserStep(c, p) PROVE WaitersOK'
    BY <2>3, WaitersSwitch, WaitersKill, WaitersFork, WaitersExit, WaitersWait, WaitersSleep
       DEF KernelStep
  <2> QED BY <2>1, <2>2, <2>3
<1> QED BY <1>1, <1>2

-----------------------------------------------------------------------------
(* ProcInv holds in every reachable state, for any number of CPUs and      *)
(* processes.                                                              *)
THEOREM ProcInvariance == Spec => []ProcInv
<1>1. Init => ProcInv
  BY InitInv, ParentsInit, TicksInit, WaitersInit DEF ProcInv
<1>2. ProcInv /\ [Next]_vars => ProcInv'
  BY NextInv, ParentsNext, TicksNext, WaitersNext DEF ProcInv
<1> QED BY <1>1, <1>2, PTL DEF Spec

(* Every process but init has a parent that lives, and a slot that fork()  *)
(* builds has one fork().                                                  *)
THEOREM Families == Spec => []FamilyOK
<1>1. ProcInv => FamilyOK
  BY DEF ProcInv, LockInv, ForksOK, ParentsOK, Alive, FamilyOK
<1> QED BY <1>1, ProcInvariance, PTL

(* A process sleeps on ticks only as long as it has ticks to wait for: the *)
(* tick that ends its sleep does not come before it sleeps.                *)
THEOREM NoLostTick == Spec => []TickNotMissed
<1>1. ProcInv => TickNotMissed
  BY DEF ProcInv, TicksOK
<1> QED BY <1>1, ProcInvariance, PTL

(* A process sleeps in wait() only as long as it has children, none of     *)
(* them a ZOMBIE, and nobody has killed it.                                *)
THEOREM NoLostExit == Spec => []ExitNotMissed
<1>1. ProcInv => ExitNotMissed
  BY DEF ProcInv, WaitersOK, ExitNotMissed
<1> QED BY <1>1, ProcInvariance, PTL
=============================================================================
