# OS_2024: a verification project

The repository holds four copies of xv6 (the x86 teaching kernel), each extended
by one assignment of an operating systems course. They are separate kernels:

| directory | what it adds to xv6 |
|---|---|
| `src/xv6-public_pa2` | nice values and a weighted fair scheduler (PA1, PA2) |
| `src/pa3/xv6-public` | mmap, munmap and a page fault handler (PA3) |
| `src/xv6-public` | an earlier state of PA3; its file system is the original one |
| `src/pa5_sklt_xv6` | page replacement and swapping, unfinished (PA4, PA5); its `proc.c` is the original one |

What a copy does not change is modelled once, from the copy named in
`PROJECT.json`: the process table from `pa5_sklt_xv6`; the log, the buffer cache,
pipes, files and inodes from `xv6-public` (`log.c`, `bio.c`, `ide.c`, `pipe.c` are the
same files in all four).

## 1. Inventory

### Components, state, operations, interaction

* **Process table** (`proc.c`). State: `ptable` (64 slots with state, pid, parent,
  chan, killed, kernel stack), one lock for all of it, and for each CPU the
  current process and the scheduler's context. Operations: fork, exit, wait,
  kill, sleep, wakeup, yield, and `sched`/`scheduler`/`forkret`, which switch
  between the kernel thread of a process and the scheduler of a CPU with
  `ptable.lock` *held across the switch*. Everything else that waits in the
  kernel waits through its sleep and wakeup.
* **Timer and trap entry** (`trap.c`, `sys_sleep`). State: `ticks` under
  `tickslock`. The interrupt arrives on each CPU in user code or in the kernel
  with interrupts on; CPU 0 counts and wakes sleepers; every CPU yields.
* **Spinlocks** (`spinlock.c`). A lock, its CPU, and a nesting count of interrupt
  disabling per CPU.
* **Fair scheduler** (PA2). State: nice, vruntime, time_slice of each process.
  The timer charges the running process, the scheduler picks the least vruntime,
  wakeup places a process next to the least RUNNABLE one, fork inherits.
* **Mappings** (PA3). State: the global table `marea` of 64 areas with *no lock*,
  page tables, the free list. mmap records an area and may populate it, the
  fault handler maps a page on first access, munmap frees pages and clears the
  area, fork copies areas and pages.
* **Physical pages** (`kalloc.c`). A free list under a lock, a counter of free
  pages outside it.
* **Log** (`log.c`). State: outstanding calls, committing, the in-memory header;
  on disk the log area and its header. begin_op/end_op bracket a file system
  call, log_write notes a block, the last end_op commits, initlog recovers.
* **Buffer cache** (`bio.c`), **IDE driver** (`ide.c`), **sleep locks**. State: a list of
  buffers in the order of their last use, each with block, count, flags and a
  sleep lock; a queue of requests, the first of which is on the disk. bget finds
  or recycles a buffer under `bcache.lock` and locks it *after* giving that lock
  back; iderw queues and sleeps; the interrupt completes, wakes, starts the next.
* **Pipes and files** (`pipe.c`, `file.c`, part of `sysfile.c`). State: `ftable` with a
  count per file, descriptors of each process, a ring with two counters that
  wrap. pipe, dup, close, fork and exit move references; read and write sleep on
  two channels, kill wakes either.
* **Inodes, directories, names** (`fs.c`, the rest of `sysfile.c`). State: on disk the
  inodes with their link counts, the bitmap, directory entries; in memory the
  inode cache with a reference count under `icache.lock` and a lock per inode.
  Path lookup, create, link and unlink hold at most two inode locks and go from
  one to the next in between.
* **exec, system call decoding**. Sequential clients of the above.
* **Swapping** (PA4/PA5: `kalloc.c`, `vm.c`, `fs.c`). An LRU list of pages, a
  bitmap of swap blocks; kalloc evicts when the free list is empty.
* **Console, boot, user programs, mkfs**. Devices, set-up, clients.

### What is hard, and what makes it correct

* The table's correctness is in hand-overs: a lock acquired by one thread and
  released by another, a process that declares itself dead while it still runs
  on the stack its parent is about to free, a wakeup that may come before the
  sleeper sleeps, a kill that races with both. Correct means: one CPU per kernel
  stack, no lost wakeup, no lost orphan, nobody RUNNABLE for ever.
* The fair scheduler's correctness is a bound on the distance between
  vruntimes over any history of sleeping, waking and forking.
* The mapping code runs unlocked on several CPUs and is preempted anywhere: what
  must hold all the same is that no page is freed twice, freed while mapped, or
  mapped twice.
* A buffer stays the buffer of its block only because it is counted, and the disk
  may interrupt before the caller sleeps. Correct means: the cache, the locks and
  the queue together look like a set of blocks, each with one owner at a time.
* References to files and inodes are counted in one place and dropped in
  another, by processes that fork, exit and are killed at any moment: nothing is
  freed under a user, and nothing that nobody uses is kept. Calls on names lock
  a directory, then an entry, then sometimes the directory again.
* The log must make calls atomic over a crash at any disk write, including
  those of recovery, must not run out of the space it has promised, and must
  wake everybody who waits for space.

`PROJECT.json` lists 39 hazards at their lines, each with the properties that
cover it or with the reason why none does.

## 2. Modules

| module | models | checked by |
|---|---|---|
| `Proc` | the process table, sleep/wakeup, timer, on several CPUs | `ProcSafe`, `ProcLive` |
| `ProcProof` | proofs about `Proc` | tlapm |
| `Mmap`, `MCMmap` | mmap, faults, munmap and fork of mappings over kalloc | `MmapPages`, `MmapFork`, `MmapMunmap` |
| `MmapProof` | proofs about `Mmap` | tlapm |
| `Cfs`, `MCCfs` | the PA2 scheduler's virtual time | `CfsShare` |
| `CfsProof` | proofs about `Cfs` | tlapm |
| `Transactions` | abstract: atomic group commit | through `Log` |
| `Log`, `MCLog` | the redo log over the cache, with crashes | `LogCrash` |
| `LogProof` | proofs about `Log` | tlapm |
| `BlockStore` | abstract: blocks with one owner at a time | through `Buffer` |
| `Buffer`, `MCBuffer` | the buffer cache, sleep locks, the IDE driver | `BufferCache` |
| `BufferProof` | proofs about `Buffer` | tlapm |
| `Channel` | abstract: a bounded first-in first-out queue with two ends | through `Pipe` |
| `Pipe`, `MCPipe` | pipes, the file table, descriptors over fork and exit | `PipeFiles` |
| `PipeProof` | proofs about `Pipe` | tlapm |
| `PipeChannelProof` | proof that `Pipe` implements `Channel` | tlapm |
| `Inode`, `MCInode` | the inode cache, names, link counts, blocks, calls on names | `InodeNames`, `InodeLeak`, `InodeDeadlock` |
| `InodeProof` | proofs about `Inode` | tlapm |

Three modules implement an abstract one, each checked as a property: `Log`
implements `Transactions` (`AtomicSpec`), `Buffer` implements `BlockStore` (`StoreSpec`),
`Pipe` implements a `Channel` for each pipe (`ChannelSpec`); all three are also proved. The layers
rest on each other by these promises: `Log` is written over what `BlockStore`
says of bread, bwrite and brelse, and `Inode` changes disk inodes, bitmap and
entries in single steps because `Transactions` says a crash sees all or nothing
and `BlockStore` that a locked block changes under nobody's feet. All of them sleep
and wake as `Proc` shows: sleep() gives up the caller's lock and sleeps in one step.

The MC modules hold what only TLC needs: symmetry, small sets of requests and
weights, a view, and in `MCMmap` a bound on the calls and the constraint `Sound`. A definition
named `Bug...` is a plausible mistake in the definition that follows it; no action
uses it. Each property is tested by substituting one.

### Proc: state and actions

`state, pid, killed, parent, chan, kstack` are the fields of `struct proc`, `ctx[c]`
is the thread CPU `c` executes (a process, or its scheduler), `cproc[c]` is
`c->proc`, `lock` and `tickslock` hold the CPU that holds the lock, `pc` is the place
of each process in the kernel. A critical section that starts and ends in one
thread is one action guarded by the lock being free; the sections that the
switch splits are several actions that carry the lock: `Yield`, `WaitSleep`,
`SleepOnTicks` and `Exit` take or keep it and change the state, `Sched` switches
to the scheduler, `SchedReturn` goes on with the scan, `SchedPick` switches to a
process, and `Forkret`, `Yielded`, `Waited`, `Slept` release it in the process. What
fork does without the lock (stack, copy of memory, each of which may fail) is
one step each. A timer interrupt (`Timer`, `TimerTick`, `TimerWake`, `TimerKilled`,
`Yield`, `Yielded`) starts wherever interrupts are on and resumes where it was
(`intr`). `left[p]` is `n - (ticks - ticks0)` of a process in `sys_sleep`. init only
forks and waits (`Syscall`), as its program does.

### Mmap: state and actions

`area` is `marea`, `pt[p]` the present mmap entries of each page table and `wr[p]` which
of them have PTE_W, `free[f]` how
often page `f` is on the free list (more than once is the bug to look for), `mem[p]` the
page a fault handler has in its hand, `loc`
the local variables of the call a process is in. Each table read on which the
code acts later is a step of its own: an entry seen unused (`Mmap`, `ForkArea`),
an area found (`Fault`, `Munmap`) and its use, and each page of each loop. So is each
store to a field of an entry, in the order of the code (`MmapStore`, `ForkStore`,
`MunmapClear`): others find the entry half filled, half copied or half cleared, and two that
have found the same one unused fill it together. Of the eight fields five are there;
`f`, `offset` and `flags` decide nothing that is modelled.

trap() passes every page fault to the handler (trap.c:82), so that `Faults` is an access to
a page that is not present, or a write to one whose entry has no PTE_W. `Fault` looks for the
area and allocates, `FaultMap` reads the permission again, from whatever the entry is by
then, and goes through mappages(), as do `Populate` and `ForkPage`: on a
present entry it panics, and the process stays at `panic`. munmap() makes itself the owner of every
entry it looks at (`TakeOver`), found or not. An entry that is cleared to address 0 while
fork() copies it makes fork() walk the pages of the program itself (`Program`). `shared` is
history: some process has forked while it had a page of a mapping present.

### Log: state and actions

A step is a section under `log.lock` or one disk write. `buf`/`dirty` are the cache,
`home`/`logd`/`hdr` the disk, `lh` and `outstanding` and `committing` those of `struct log`.
`Crash` is enabled in every state: it keeps the disk, empties memory and puts
the boot thread at `read_head`. The same `InstallTrans` and `Erase` serve commit and
recovery, as in the code. The refinement maps `now[b]` to what a read returns
and `saved[b]` to what a restart would find; every step of a commit but
`WriteHead` leaves both alone, and `WriteHead` changes `saved` to `now` at once.

### Buffer: state and actions

`mru` is the list from `bcache.head`, `blockno, refcnt, valid, dirty, data` the fields of
each `struct buf`, `lock[b]` its sleep lock; `idequeue`, `state` and `disk` the driver and
the disk, `sent` what a write request took along. `pc[p]` is where caller `p` is: between
`BgetHit` or `BgetMiss` (under `bcache.lock`) and `AcquireSleep` others run; after
`Iderw` it sleeps until `Ideintr` wakes it and `IderwWakes` looks at the flags again.
`Bwrite` changes and writes; `LogWrite` changes and leaves the buffer dirty, for
whoever writes it later, any buffer and as many as there are. `ReleaseSleep` and `Brelse`
are the two halves of brelse(). `Killed` is kill(), which wakes who sleeps for the disk or for a
sleep lock before it is time: both look again, find nothing changed and sleep on.

A caller has one buffer at a time. In the code commit() has two, a log block, which
nobody else uses, and a cached one: it counts as two callers. The refinement maps block `k` to the
contents of its valid buffer, or to the disk if there is none, and its owner to
the holder of that buffer's lock, so that a read is taken at the end of the
disk's work, and a recycled buffer or a finished write changes nothing.

### Pipe: state and actions

`file` is `ftable.file`, `ofile` the descriptors, `pipe` the pages that hold a pipe.
A step is a section under `ftable.lock` or a pipe's lock. What a call has copied
before it gives a lock back is in `cur` (fileclose's `ff`, the file of a read or
write) and `closing`; `left` is how much a transfer has still to do. `PipeStart`,
`PipeSecond`, `PipeReady`, `PipeNoPage` are pipealloc with its failures, `Fileclose` and
`Pipeclose` the two halves of a last close, `ForkFile` and `ExitFile` one descriptor
each. `Piperead` and `Pipewrite` run from one sleep to the next; kill takes neither
lock, so that `Sleep` is a step of its own. `cut` is history: a killed writer filled
the pipe and returned without waking the readers (pipe.c:86).

### Inode: state and actions

`icache` is the inode cache, `dinode`, `bitmap` and `entry` the disk. A process's call is in
`loc`: `ip`, `dp` and the place `at` of namex as in the source, and what is still to be
put. `IputFree` and `IputRef` are the two critical sections of iput(), between which the
inode is unlocked and the reference still counted. Every step from one inode lock to
the next is an action: `Namex` is one path element, `CreateLookup`, `CreateFound`,
`IallocIget`, `CreateNew`, `Created` are create(), and likewise for link and unlink.
`Pointer` names the seven places in which a process can hold a reference: an open file,
four variables of a call, and two that are still to be put.

### Cfs: state and actions

`vruntime` is a number modulo `Width`; a tick adds `Delta[nice]`. The two yields of
one timer interrupt (when the slice is used up and at its end) are `Charge` and
`Yield`, `again[p]` says that `p` was switched away between them. `past` is history:
whether a process ever slept, and whether each wakeup placed it next to others
(a `sleeper`) or next to nobody (a `stray`). So is `due`: the vruntime a process would have
if fork() had copied its parent's last. It is that of the process, but for a child whose parent is charged
between the copy and RUNNABLE, any number of times: the child is due what its parent has reached,
until its own vruntime has caught up.

## 3. Runs, bounds, results

| run | configuration | shows |
|---|---|---|
| `proc_safe` | 2 CPUs, 3 slots, 3 pids, all calls, sleep(1), kill of 0, 2 and 3 | type and safety properties of the table, parenthood; the inductive invariant `ProcInv` |
| `proc_live` | 1 CPU, 3 slots, all calls, sleep(1), kill of 2, fairness | nobody starves, zombies are reaped, killed processes die |
| `mmap_pages` | 2 processes, 2 areas, 2 virtual and 2 physical pages, 5 calls | page safety of the unlocked code until pages are shared (`MemSafe`); after that, pages are conserved and no present entry is overwritten |
| `mmap_fork` | the same | violated: a shared page |
| `mmap_munmap` | the same | violated: somebody else's area |
| `log_crash` | 3 callers, 3 blocks, 2 values, log of 4 blocks with its header, 2 reserved per call, 1 written | refinement of `Transactions`, durability, pinning, no panic, no lost waiter |
| `cfs_share` | 1 CPU, 3 processes, weights 2:1 | fair shares, bounded credit of sleepers |
| `buffer` | 2 callers, 4 blocks, 3 buffers, any of them pinned | a buffer stays with its block, no lost completion, no panic before all buffers are taken, refinement of `BlockStore` |
| `pipe` | 2 processes, 1 pipe of 2 bytes, counters modulo 4, 3 files, 2 descriptors, transfers of 1 and 3 | counts, open ends, no lost wakeup, refinement of `Channel` |
| `inode` | 2 processes, 3 inodes, 3 cache entries, 2 blocks, 2 names, 9 calls | counts, cache, link counts, blocks |
| `inode_leak` | the same | violated: an inode that nobody will free |
| `inode_deadlock` | the same | violated: two processes wait for each other's inode lock |

Why the bounds are enough to be interesting. Two CPUs and three slots put every
pair of operations side by side, with a third process as their parent, child or
victim; pids for two forks let a slot be reused, by a second child after the
first was reaped or after a fork that failed and spent its pid. (With three
slots a process that dies leaving both a live and a dead child behind, other
than init, does not occur.) For liveness one CPU is the harder case: three slots on it are
more processes than CPUs, so that who waits depends on the order of the scan, and the third
is a child that can lose its parent and pass to init. What one CPU cannot show is a kill
between the last test and the sleep in sys_sleep(), where its interrupts are off; `proc_safe`
has that, in `TickNotMissed`. Two areas and two pages make the table and the memory
run out; the two requests, a read-only mapping of both pages and a writable one of the second,
overlap, start at different addresses, and have a page that may be read and not written, so that
mappages() meets present entries on each of its ways but one (`ForkPage`, which needs a third
entry for two overlapping areas of one parent; the proof has it). Five calls are two torn
entries, a fork and what uses them. Three blocks and three callers make calls
overlap in a block (absorption) and in time. A log of 4 blocks with 2 reserved for each call
lets two callers in and makes the third wait; the header leaves room for 3, and log_write()
panics at the third: one caller let in too many reaches that (it is the mutant of `NoPanic`). In
`cfs_share` `Horizon` (5) is larger than the bounds that are checked (2 and 4), which
are tight: both fail when lowered by one tick. Three buffers for four blocks and
two callers make every miss recycle, and with two pinned the second caller finds none: bget()
panics there, and nowhere else (`NoEarlyPanic`). Counters modulo 4 over two bytes wrap after four bytes; a
transfer of 3 sleeps half way and a second file fails for want of an entry.
Nine calls on a file in the root, a directory and a file in it are the fewest in
which each call meets each other one on the same inode, the same name, and as
parent and child; the cache is as large as the disk, so that iget() never panics.

Bounds are named: `MaxPid`, `KillPids`, `SleepTicks`, `NVA`, `Pages`, `MaxCalls`, `OpBlocks`, `Horizon`,
`Sizes`, `MaxLinks`, `Requests`.
Processes are symmetric where no slot is chosen by order; `MCInode` also identifies
states that differ in what unused cache entries hold, which nothing reads: a
reused entry is marked invalid and read again. `mmap_pages` goes no further than the
first page that is free and mapped, or free twice (constraint `Sound`): the free list
is threaded through the pages, and from there on the program may do anything.

Deadlock is checked where a system that runs cannot stop (`Proc`: an idle CPU
always scans; `Log`: it can always crash; `Buffer`: an idle caller can always start). It
is not where it can: in `Mmap` and `Pipe` after the last process exits, in `Cfs` when all
have exited, and in `Inode`, whose calls do deadlock (`inode_deadlock`) or panic.

### Fairness (`Proc!Fairness`)

A CPU that can execute does so: its scheduler with the switches, its timer, and each process
each get a condition of their own. The xchg loop of `acquire` lets every CPU in
eventually; a pending timer interrupt is delivered when interrupts are next on;
a tick lasts longer than one step of kernel code. These make the conditions
strong: a scheduler that is interrupted again and again while it scans, and a process that is
run again and again, get their next step done. Programs owe nothing, except init, whose source is an endless loop
around `wait()` (init.c also exits if its fork fails, which is not modelled). Under these
`RunnableRuns`, `ZombiesReaped` and `KilledDies` hold. `ZombiesReaped` is about zombies whose
parent is init or gone: a program may live on and never wait for its children. Two CPUs with
three slots are too large for TLC's liveness check.
Liveness is not claimed for the log: a caller in `begin_op` may lose its race
with others for ever.

### Disagreements found

* PA3's fork maps the parent's page, not the copy it made (`mmap_fork`, `PrivatePages`).
* PA3's munmap assigns where it means to compare (`mmap_munmap`, `MunmapOwn`).
* iput() tests the count and decrements it in two critical sections (fs.c:337, 350):
  two last puts each see the other's reference, and an inode without links
  stays allocated (`inode_leak`, `OrphansFreed`).
* create() and sys_unlink() put the directory, which locks it again, before they
  unlock the entry's inode (sysfile.c:280, 225); an unlink that has the
  directory waits for the inode (`inode_deadlock`, `NoDeadlock`).

The passing runs take the code as it is, with these steps in it.

### Observed, without a run of its own

* kill(0) marks UNUSED slots, and allocproc() does not clear the mark: a child may
  be born killed (`Proc` has the step).
* The log area is one block shorter than begin_op() believes: mkfs gives it LOGSIZE
  blocks *with* the header (mkfs.c), begin_op() reserves LOGSIZE without it, and
  log_write() panics at `log.size - 1`. Only calls that use their whole reservation
  could reach that: `LogProof!NeverPanics` is for calls that leave one block of it
  (`OpBlocks` below `MAXOPBLOCKS`), and filewrite() keeps to 7 of 10.
* bget()'s panic is reachable with the constants of param.h: NBUF is 30, the log may pin up to 29
  blocks, and there are 64 processes. `NoEarlyPanic` says that nothing less reaches it.
* PA3's mappages() panics ("remap") at a write to a present page of a mapping whose entry has no
  PTE_W but whose area allows writing (two overlapping areas, or an entry that was refilled): trap()
  passes every page fault to the handler, which asks the area, not the entry.
* mmap() that fails half way through MAP_POPULATE leaves its area and its pages, fork() that fails
  in the page loop its child in EMBRYO for ever (`Mmap` has both steps; nothing promises otherwise).
* PA2's scheduler never picks a vruntime of exactly 2^32-1 (`Selectable`), and fairness
  is lost when vruntimes wrap.
* In PA2 neither bound holds of vruntimes alone if ticks come between fork's copy of the vruntime
  and its end (proc.c:241-256): the child is behind by all of them, as far as they go, and
  while it is, a wakeup next to it is placed a tick lower still. `FairShare` and `SleepCredit`
  count what the child is `due`, and who is placed next to one that is still behind is a
  `stray` (`NextTo`): with that both hold for every number of slots and of ticks.
* A killed writer that has filled a pipe wakes no reader (pipe.c:86; `cut` in
  `SleepersAwait`), and a kill between the test of `killed` and the sleep
  (pipe.c:107-111) wakes nobody: the victim sleeps until the other end acts.
* create() or link() that finds its directory removed meanwhile enters a name where
  nobody can find it; the inode keeps its link for ever (sysfile.c:249).
* After a read error ideintr() marks the buffer valid all the same (ide.c:118-123).
* unlink() removes a directory that is somebody's current one or that a child's ".."
  names; a later lookup through it panics in ilock(). `link(old, "d/.")` locks d twice
  (fs.c:559-561). Dots are not in `Inode`: these are read off the source.

## 4. Proofs

All are for every value of the constants.

**`ProcProof`**: `Invariance` (`Spec => []LockInv`), and from it `Types`, `Stacks`, `Running` and
`SchedSafe`. None of the last three is inductive: whether a CPU may free a stack
depends on who holds `ptable.lock`, which depends on where in the kernel every
other thread is. `LockInv` says it in parts: `OnCPUs` (a process on a CPU is the
CPU's current one, holds the lock exactly at the places in `Locked`, and is
RUNNING except on its way into `sched`), `OffCPUs` (a process on no CPU is parked
just after `sched`, with a stack, and not RUNNING), `TickLock` (the same for
`tickslock`), `SlotsOK` (what each state says about the stack and the parent) and
`ForksOK` (a slot under construction belongs to one fork). There is one lemma
per group of actions, with one case per action and under it one step per part.

Its second half is `ProcInvariance` (`Spec => []ProcInv`), and from it `Families`
(`FamilyOK`), `NoLostTick` (`TickNotMissed`) and `NoLostExit` (`ExitNotMissed`). `ProcInv`
adds to `LockInv` what the three need. `ParentsOK`: init lives, the parent of whoever
was born lives, an unused slot has no parent, nor has one under construction until
fork sets it, so that exit() finds every child it has to hand to init. `TicksOK`: who
is about to sleep on `ticks` still has time left, because it holds `tickslock` between
the test and the sleep. `WaitersOK`: who sleeps in wait() has a child, none of
them a zombie, and was not killed, *whoever* has `ptable.lock`: Exit wakes the parent in the step that makes
the zombie, wakes init when it hands over one, and kill makes its victim RUNNABLE in the
step that marks it.

**`MmapProof`**: `MemInvariance` (`Spec => []MemSafe`), and from it `FreeSafe` and
`PagesPrivate`, which hold until some process forks with a page mapped (`~shared`). The
two need each other, and both need to know where a page is that a fault handler
has allocated and not yet mapped (`HandsOK`) and that who forks has nothing mapped
(`ForkersEmpty`). That they hold with no lock
at all on `marea`, over entries that are half filled, half cleared or filled by two at once, is
the interesting result: pages are found through the page
table of the running process, never through the table of areas, and a torn entry can
misplace a mapping but not a page.
What survives sharing is `LocalInv`: table indices and the bounds of a page loop stay in range
whatever the entry they were read from holds by now, a fault handler has a page and the fault
as the processor raised it, its entry absent or present without PTE_W (`PlaceOK`), only present
entries have PTE_W (`WritablePresent`), and a fork has a child of its own that nobody runs
(`ForksOK`). From it, with no condition: `Types`, `NeverRemaps` (`NoRemap`: a present entry keeps its
page, and its write permission, until munmap() or wait() removes it) and
`PagesConserved` (`Conserved`), which counts three finite sets. Each step moves one page
from one to another or leaks it, but wait(), which frees a whole page table at once:
there the entries of each page are numbered, which maps what is listed anew one to
one to what was mapped.

**`BufferProof`**: `Invariance` (`Spec => []CacheInv`), from it `Stays` (`BufferStays`),
`Pending` (`IoPending`), `PanicsOnlyFull` (`NoEarlyPanic`), `Types`, and `Implements` (`Spec => StoreSpec`), the
refinement of `BlockStore`, for any finite number of callers and any number of
blocks and buffers. `CacheInv` ties the four mechanisms together: the count of a
buffer is the number of its users (`RefsOK`), so that a recycled buffer has none;
its sleep lock is with the one user that works on it (`LocksOK`); a valid clean buffer is
what is on disk (`ContentsOK`); the queue holds the buffers of the callers asleep in
iderw(), each once, and the disk has been given what the first one holds
(`QueueOK`), also when kill() wakes one of them early. `NoEarlyPanic` then is counting: a buffer
that bget() cannot recycle has a caller between bget() and brelse(), or is pinned, so that
fewer of these than buffers leave one. Nothing is assumed about how many buffers there
are. For the
refinement there is a lemma per action: all are stutters but the four that take,
change or give back a block, and recycling is one because a clean buffer without
users holds what is on disk. `Types` says also that the list holds each buffer once: moving
one to the front is a permutation, as a list that has none twice has all of them.

**`LogProof`**: `Invariance` (`Spec => []LogInv`), from it `Durability` (`Durable`),
`Types`, `Pinning` (`PinnedUntilInstalled`), `Waking` (`NoLostWaiter`), `NeverPanics` (`NoPanic`), and
`Implements` (`Spec => AtomicSpec`), the refinement of `Transactions`: atomicity over a
crash at any step, for every number of callers, file system and size of the log.
`LogInv` says who may be where (`PhasesOK`: one process commits, after the last call
ended, and the log is empty between a commit and the next call), what is on the
disk at each point of a commit or of recovery (`DiskOK`: which log blocks are copied,
which are installed, and that the header is there exactly while they are), that a
dirty buffer is logged and a clean one is what is at home (`CacheOK`), and that the
space for what open calls may still write is there (`CreditOK`). `Credit` counts
the blocks still reserved as pairs of a call and a number, so that a step takes
pairs away and no sum is needed. `CreditOK` has a second part for a call that is open
alone, without which the log could be thought to fill up to its last block, where
log_write() panics. In the refinement the write of the header is the one step
that saves; installing and erasing are stutters because what moves to its home
is what a restart would have read from the log. Assumed (`LogFits`, checked by TLC in
`log_crash`): `OpBlocks < MAXOPBLOCKS < LOGSIZE <= NLOG`.

**`PipeProof`**: `Invariance` (`Spec => []PipeInv`), and from it `FilesCounted`
(`RefCounts`), `Ends` (`EndsOpen`), `NoLostWakeup` (`SleepersAwait`) and `Types`, for any
finite number of processes and a pipe of any size. The argument goes from the counts
up. A reference is a descriptor or a call, so that a file with one reference that
a call holds has no descriptor, and fileclose() takes it from nobody. Hence each
end is in one file or with one closer (`EndsUnique`), and who reads or writes has a
descriptor of its end (`CallersOK`): pipeclose() never closes the end of somebody who
sleeps on it, and never frees the page under it. With that, a sleeper of the other
kind is woken, and `SleepersAwait` follows once `AwaitOK` says what holds between
the test and the sleep, where the pipe is locked, and that a pipe is never overfull;
so the bytes in it are the difference of two counters that wrap. `PhasesOK`, `ForksOK` and
`FilesOK` say what a call holds at each point, which child a fork fills, and that a file
pipealloc() has just taken is in nobody else's hands. Assumed, and checked by TLC in
`pipe`: a pipe is smaller than the range of its counters (`RingAssumption`, which also
has PIPESIZE divide that range: only the next proof needs that).

**`PipeChannelProof`**: `Implements` (`Spec => ChannelSpec`), from `PipeInv`. Four actions
change a page, each one page: pipealloc() opens the channel, pipeclose() closes an end
(which `EndsOpen` says is open), piperead() takes, pipewrite() puts (`CallersOK`: the end of
the caller is open); a transfer of no bytes is a stutter, and so is everything else. What
is left is the ring. The place of a byte is a counter that wraps modulo `Counts`, taken
modulo PIPESIZE, and because PIPESIZE divides `Counts` the wrap does not show (`RingIs`);
reading n bytes moves every other byte n places to the front (`StreamRead`), and the places
written differ from those not yet read, as less than PIPESIZE lie between
them (`StreamWrite`).

**`CfsProof`**: `Invariance`, and from it `Fairness` (`FairShare`), and `CreditInvariance`, from it
`Credit` (`SleepCredit`), on one CPU (`OneCPU`) for any
number of processes, any weights and any number of ticks up to the one at which a
vruntime would wrap (`Horizon < Width - 1`: the horizon is a bound of TLC's run, not of the
theorem). A tick charges who was picked as the least, once for each time it is picked, so
that it ends at most one tick above what the others are due: `PickedOK`. The exception is fork(),
which copies the vruntime before the child is RUNNABLE: ticks in between, however many, leave the
child behind its parent, and that is what `due` is for. While fork() runs the child is due what
its parent has (`ForksOK`), and nobody is due less than it has (`DueOK`): once
RUNNABLE it catches up, and gains no more than it missed. Nothing about wakeups is needed, as who slept is compared with nobody here.
For the sleepers it is `ChainOK`: from each of them up to where hogs are, whoever waits
for the CPU has somebody who waits at most a tick above. A wakeup places a process a
tick below one that waits, and of those who wait only the least is ever taken away, so
that no gap opens behind it. `AheadOK` says the same of a hog that runs uncharged, one tick
further. Were a sleeper more than one tick for each other slot below a hog, there would be
more processes on the way than slots (a pigeonhole argument). Here the vruntimes must stay
where wakeup1() does not read them as negative (`HalfWidth`).
`Types` holds on any number of CPUs: the vruntime of a woken process is in the range of an
unsigned integer. Assumed: one nice value costs most (`WeightAssumption`).

**`InodeProof`**: `Invariance` (`Spec => []InodeInv`), and from it `RefsCounted` (`RefCounts`),
`NoFreeInodeUsed` (`RefAllocated`), `Coherence` (`CacheCoherent`), `NamesCounted`
(`LinksCovered`), `OneOwner` (`BlocksOwned`) and `TypeCorrect`, for any finite number of
processes and names, any number of inodes, cache entries and blocks, and any set of
calls. There is a lemma for each action. `InodeInv` starts from the place of a call: which
pointers it has there (`CallOK`) and which lock (`LockOK`). What a pointer leads to is
allocated, and a directory where the code takes it for one (`PointerOK`). The exception
to sharing is `FreshOK`: an inode that ialloc() has just taken has one pointer, its
creator's, and no name, so that what create() writes into it nobody else has
read. `LinksCovered` is not inductive. unlink() clears the entry of an inode,
puts the directory and only then counts the link down, link() counts first and names later, and both may
be passed in between by another call on the same inode. `LinksHeld` therefore charges the
count with all that will still be taken from it: the names, the ".." of
subdirectories, and the `Credits` of calls that have counted a link they have not named,
or unnamed one they still count. With that, an inode whose count is zero has no name, and
no call that could give it one; with one reference as well (`RefCounts`) nobody but
iput() can reach it, and its block is free to go. `UnlinkOK` says that the entry
unlink() has found is still there when it clears it, as the directory is locked from the
lookup on. Nothing in this needs the deadlocks or the leak of `inode_leak` to be absent: both
are behaviours of `Spec`, and the invariants hold through them. Assumed: there are
finitely many processes and names.

Only model-checked: liveness. Temporal
properties under fairness are beyond the prover, and so is what a recursive
definition computes for every input.

## 5. Not modelled

* **Swapping** (PA4/PA5). The code cannot run as far as its algorithm: `pages[].pgdir`
  is never set, so that the first reclaim follows a null page directory;
  clearpteu() indexes `pages[]` with a virtual address, guard pages leave the LRU
  list twice, copyuvm() writes the child's swap block into the parent's entry, a
  swapped entry loses PTE_U so that its bit is never cleared, and the locks are
  commented out. A model would be of a program that somebody has yet to write.
* **In `Mmap`**: the file behind a mapping, its offset and flags; memory below MMAPBASE, and
  munmap() of an address there; a scan of the table of areas, and the two fields that bound a
  page loop, are read at one moment; a CPU that goes on using an entry it has cached.
* **In the modelled parts**: contents of pages and files behind mappings; current
  directories, dots, relative paths, indirect blocks, readi and file offsets; the disk
  in memory (`memide.c`); errors of the disk; the freemem counter; growproc.
* **x86 detail**: paging structures, segments, TLB; memory ordering (the spinlocks
  are taken to be correct, their instructions are below a step).
* **Console, keyboard, serial line, boot, interrupt controllers, exec, system call
  decoding, mkfs, user programs**: devices, set-up, sequential code, clients.

## 6. Plan

Done: `Proc` and its proofs, `Mmap` and its proofs, `Log` refining `Transactions`
with its proofs, `Cfs` and the proofs of its bounds, `Buffer` refining `BlockStore` with its proofs, `Pipe` refining
`Channel` with its proofs, `Inode` and its proofs.

Every safety property of the passing runs is proved. Left: the leads-to properties of
`ProcLive` stay with TLC.
