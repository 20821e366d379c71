-------------------------------- MODULE Log --------------------------------
(***************************************************************************)
(* The redo log of the file system (xv6-public/log.c) over the buffer      *)
(* cache (bio.c), with crashes and recovery.                               *)
(*                                                                         *)
(* A step is a section of code under log.lock, or the write of one disk    *)
(* block, which is atomic and after which bwrite() returns.  A caller      *)
(* changes a block while it holds the lock of its buffer, from bread() to  *)
(* brelse(), and calls log_write() in between: that is one step.  Buffers  *)
(* of the log area are not modelled: they are written at once.             *)
(***************************************************************************)
EXTENDS Integers, Sequences, FiniteSets

CONSTANTS
    Procs,         \* processes that make file system calls
    Boot,          \* the process that runs initlog() at boot
    Home,          \* blocks outside the log
    Data, Blank,   \* contents of a block, and those of a new file system
    NotCached,     \* no buffer holds the block
    LOGSIZE,       \* blocks that begin_op() shares out
    MAXOPBLOCKS,   \* blocks that begin_op() reserves for a call
    NLOG,          \* blocks of the log area on disk, header included (sb.nlog)
    OpBlocks       \* BOUND: different blocks that one call writes

ASSUME LogAssumption ==
    /\ LOGSIZE \in Nat /\ MAXOPBLOCKS \in Nat /\ NLOG \in Nat /\ OpBlocks \in Nat
    /\ IsFiniteSet(Procs) /\ Boot \notin Procs
    /\ Blank \in Data /\ NotCached \notin Data

(* The log has room for more than one call (param.h), mkfs gives it no     *)
(* fewer than LOGSIZE blocks with its header, and no call writes as many   *)
(* blocks as begin_op() reserves for it (filewrite: 7 of 10).              *)
ASSUME LogFits ==
    OpBlocks < MAXOPBLOCKS /\ MAXOPBLOCKS < LOGSIZE /\ LOGSIZE <= NLOG

VARIABLES
    pc,            \* pc[t]: where thread t is
    tail,          \* tail[t]: the loop index of write_log and install_trans
    wrote,         \* wrote[p]: the blocks that the open call of p has written
    outstanding, committing, lh,       \* log.outstanding, .committing, .lh
    buf, dirty,    \* the cached contents of a home block, its B_DIRTY flag
    home, logd, hdr     \* on disk: home blocks, log blocks, log header

procs   == <<pc, tail, wrote>>
log     == <<outstanding, committing, lh>>
cache   == <<buf, dirty>>
disk    == <<home, logd, hdr>>
vars    == <<procs, log, cache, disk>>

Threads == Procs \cup {Boot}

(* Memory as the kernel finds it at boot. *)
Booting  == [t \in Threads |-> IF t = Boot THEN "read_head" ELSE "begin"]
Starts   == [t \in Threads |-> 1]
Nothing  == [p \in Procs |-> {}]
Empty    == [b \in Home |-> NotCached]
Clean    == [b \in Home |-> FALSE]

Init ==
    /\ pc = Booting /\ tail = Starts /\ wrote = Nothing
    /\ outstanding = 0 /\ committing = FALSE /\ lh = <<>>
    /\ buf = Empty /\ dirty = Clean
    /\ home = [b \in Home |-> Blank]
    /\ logd = [i \in 1 .. LOGSIZE |-> Blank]
    /\ hdr = <<>>

Goto(t, l) == pc' = [pc EXCEPT ![t] = l]

(* wakeup(&log) *)
BugNotWoken(l) == l                                    \* mutant: wakeup forgotten
Woken(l) == [t \in Threads |-> IF l[t] = "asleep" THEN "begin" ELSE l[t]]

(* What bread() of a home block returns. *)
Read(b) == IF buf[b] = NotCached THEN home[b] ELSE buf[b]

Up == pc[Boot] = "up"

-----------------------------------------------------------------------------
(* begin_op(): reserve log space, or sleep until there is some.            *)

BugReserved == Len(lh) + outstanding * MAXOPBLOCKS     \* mutant: not for itself
Reserved == Len(lh) + (outstanding + 1) * MAXOPBLOCKS

BugMayBegin == Reserved <= LOGSIZE                     \* mutant: joins a commit
MayBegin == ~committing /\ Reserved <= LOGSIZE

BeginOp(p) ==
    /\ Up /\ pc[p] = "begin" /\ MayBegin
    /\ outstanding' = outstanding + 1
    /\ Goto(p, "op")
    /\ UNCHANGED <<tail, wrote, committing, lh, cache, disk>>

BeginWaits(p) ==
    /\ Up /\ pc[p] = "begin" /\ ~MayBegin
    /\ Goto(p, "asleep")
    /\ UNCHANGED <<tail, wrote, log, cache, disk>>

(* log_write() of a block that the caller has changed: the block is        *)
(* appended unless it is there (absorption), its buffer pinned.            *)
BugLogged == {}                                        \* mutant: no absorption
Logged == {lh[i] : i \in 1 .. Len(lh)}

BugPinned(b) == dirty                                  \* mutant: evictable
Pinned(b) == [dirty EXCEPT ![b] = TRUE]

LogWrite(p) ==
    /\ pc[p] = "op"
    /\ \E b \in Home, d \in Data :
          /\ Cardinality(wrote[p] \cup {b}) <= OpBlocks
          /\ d # Read(b)
          /\ buf' = [buf EXCEPT ![b] = d]
          /\ lh' = IF b \in Logged THEN lh ELSE Append(lh, b)
          /\ dirty' = Pinned(b)
          /\ wrote' = [wrote EXCEPT ![p] = @ \cup {b}]
    /\ Len(lh) < LOGSIZE /\ Len(lh) < NLOG - 1         \* else panic
    /\ UNCHANGED <<pc, tail, outstanding, committing, disk>>

(* end_op(): the last open call commits, another one wakes the waiters.    *)
EndOp(p) ==
    /\ pc[p] = "op"
    /\ ~committing                                     \* else panic
    /\ outstanding' = outstanding - 1
    /\ wrote' = [wrote EXCEPT ![p] = {}]
    /\ \/ /\ outstanding = 1
          /\ committing' = TRUE
          /\ tail' = [tail EXCEPT ![p] = 1]
          /\ Goto(p, IF lh = <<>> THEN "done" ELSE "write_log")
       \/ /\ outstanding # 1
          /\ pc' = Woken([pc EXCEPT ![p] = "begin"])
          /\ UNCHANGED <<tail, committing>>
    /\ UNCHANGED <<lh, cache, disk>>

-----------------------------------------------------------------------------
(* commit(): copy the logged blocks to the log area, write the header,     *)
(* install the blocks at home, erase the header.                           *)

WriteLog(p) ==
    /\ pc[p] = "write_log"
    /\ IF tail[p] <= Len(lh)
       THEN /\ logd' = [logd EXCEPT ![tail[p]] = Read(lh[tail[p]])]
            /\ tail' = [tail EXCEPT ![p] = @ + 1]
            /\ pc' = pc
       ELSE /\ Goto(p, "write_head")
            /\ UNCHANGED <<logd, tail>>
    /\ UNCHANGED <<wrote, log, cache, home, hdr>>

WriteHead(p) ==
    /\ pc[p] = "write_head"
    /\ hdr' = lh
    /\ tail' = [tail EXCEPT ![p] = 1]
    /\ Goto(p, "install")
    /\ UNCHANGED <<wrote, log, cache, home, logd>>

(* install_trans(), of a commit or at boot: bwrite() leaves the buffer     *)
(* clean.                                                                  *)
InstallTrans(t) ==
    /\ pc[t] = "install"
    /\ IF tail[t] <= Len(lh)
       THEN LET b == lh[tail[t]] IN
            /\ home' = [home EXCEPT ![b] = logd[tail[t]]]
            /\ buf' = [buf EXCEPT ![b] = logd[tail[t]]]
            /\ dirty' = [dirty EXCEPT ![b] = FALSE]
            /\ tail' = [tail EXCEPT ![t] = @ + 1]
            /\ pc' = pc
       ELSE /\ Goto(t, "erase")
            /\ UNCHANGED <<home, cache, tail>>
    /\ UNCHANGED <<wrote, log, logd, hdr>>

Erase(t) ==
    /\ pc[t] = "erase"
    /\ lh' = <<>> /\ hdr' = <<>>
    /\ Goto(t, IF t = Boot THEN "up" ELSE "done")
    /\ UNCHANGED <<tail, wrote, outstanding, committing, cache, home, logd>>

(* The end of end_op() after a commit. *)
CommitDone(p) ==
    /\ pc[p] = "done"
    /\ committing' = FALSE
    /\ pc' = Woken([pc EXCEPT ![p] = "begin"])
    /\ UNCHANGED <<tail, wrote, outstanding, lh, cache, disk>>

-----------------------------------------------------------------------------
(* initlog() at boot: read the header; install_trans and Erase follow.     *)

BugFound == <<>>             \* mutant: recovery forgets the header
Found == hdr

ReadHead ==
    /\ pc[Boot] = "read_head"
    /\ lh' = Found
    /\ tail' = [tail EXCEPT ![Boot] = 1]
    /\ Goto(Boot, "install")
    /\ UNCHANGED <<wrote, outstanding, committing, cache, disk>>

(* The buffer cache: a block is read, and a buffer not in use is recycled  *)
(* for another one unless its B_DIRTY flag is set (bget).                  *)
Cache(b) ==
    /\ buf[b] = NotCached
    /\ buf' = [buf EXCEPT ![b] = home[b]]
    /\ UNCHANGED <<procs, log, dirty, disk>>

Recycle(b) ==
    /\ buf[b] # NotCached /\ ~dirty[b]
    /\ buf' = [buf EXCEPT ![b] = NotCached]
    /\ UNCHANGED <<procs, log, dirty, disk>>

(* Power failure: memory is lost, the disk is kept, the kernel boots.      *)
Crash ==
    /\ pc' = Booting /\ tail' = Starts /\ wrote' = Nothing
    /\ outstanding' = 0 /\ committing' = FALSE /\ lh' = <<>>
    /\ buf' = Empty /\ dirty' = Clean
    /\ UNCHANGED disk

-----------------------------------------------------------------------------
CommitStep(p) == WriteLog(p) \/ WriteHead(p) \/ CommitDone(p)
CallStep(p)   == BeginOp(p) \/ BeginWaits(p) \/ LogWrite(p) \/ EndOp(p)
LogStep(t)    == InstallTrans(t) \/ Erase(t)

Next ==
    \/ \E p \in Procs : CallStep(p) \/ CommitStep(p)
    \/ \E t \in Threads : LogStep(t)
    \/ ReadHead \/ Crash
    \/ \E b \in Home : Cache(b) \/ Recycle(b)

Spec == Init /\ [][Next]_vars

-----------------------------------------------------------------------------
Committer == {"write_log", "write_head", "install", "erase", "done"}

(* A log header names each block once. *)
Header == {h \in Seq(Home) : Len(h) <= LOGSIZE /\
              \A i, j \in 1 .. Len(h) : h[i] = h[j] => i = j}

(* Type invariant. *)
TypeOK ==
    /\ pc \in [Threads -> {"begin", "asleep", "op", "read_head", "up"} \cup Committer]
    /\ \A p \in Procs : pc[p] \notin {"read_head", "up"}
    /\ pc[Boot] \in {"read_head", "install", "erase", "up"}
    /\ tail \in [Threads -> 1 .. LOGSIZE + 1]
    /\ wrote \in [Procs -> SUBSET Home]
    /\ outstanding \in Nat /\ committing \in BOOLEAN
    /\ lh \in Header /\ hdr \in Header
    /\ buf \in [Home -> Data \cup {NotCached}]
    /\ dirty \in [Home -> BOOLEAN]
    /\ home \in [Home -> Data] /\ logd \in [1 .. LOGSIZE -> Data]

(* None of the panics of log_write() and end_op() is reachable: a call     *)
(* that begin_op() let in finds log space for whatever it writes, beside   *)
(* what the calls that ended before the commit have left there, and is     *)
(* never open while another process commits.                               *)
NoPanic == \A p \in Procs : pc[p] = "op" =>
    ~committing /\ outstanding >= 1 /\ Len(lh) < LOGSIZE /\ Len(lh) < NLOG - 1

(* A block whose cached contents are not on disk at home stays in the      *)
(* cache: "prevent eviction" (log.c, log_write).                           *)
PinnedUntilInstalled ==
    Up => \A b \in Home : buf[b] # NotCached /\ buf[b] # home[b] => dirty[b] /\ b \in Logged

(* A caller asleep in begin_op() has somebody who will wake it up.         *)
NoLostWaiter ==
    (\E p \in Procs : pc[p] = "asleep") =>
        \E p \in Procs : pc[p] = "op" \/ pc[p] \in Committer

-----------------------------------------------------------------------------
(* What a restart would find. *)
Recovered(b) ==
    IF \E i \in 1 .. Len(hdr) : hdr[i] = b
    THEN logd[CHOOSE i \in 1 .. Len(hdr) : hdr[i] = b]
    ELSE home[b]

(* When no call is open and no commit runs, everything that was written    *)
(* would survive a crash: the end_op() that commits returns after the      *)
(* blocks of all the calls are safe.                                       *)
Durable ==
    Up /\ outstanding = 0 /\ ~committing => \A b \in Home : Read(b) = Recovered(b)

(* The log implements Transactions: group commits are atomic, whatever     *)
(* the crash, one during recovery included.                                *)
Open  == {p \in Procs : pc[p] = "op"}
Now   == [b \in Home |-> IF Up THEN Read(b) ELSE Recovered(b)]
Saved == [b \in Home |-> Recovered(b)]

Atomic == INSTANCE Transactions WITH open <- Open, now <- Now, saved <- Saved

AtomicSpec == Atomic!Spec

-----------------------------------------------------------------------------
(* The inductive invariant behind these properties, in parts.              *)

Redoing(t) == pc[t] \in {"install", "erase"}
Copied(p, i) == \/ pc[p] = "write_log" /\ i < tail[p]
                \/ pc[p] \in {"write_head", "install", "erase"}
Installed(t, i) == Redoing(t) /\ (i < tail[t] \/ pc[t] = "erase")

(* One process commits, after the last open call has ended; the log is     *)
(* empty between a commit and the next call.                               *)
PhasesOK ==
    /\ outstanding = Cardinality(Open)
    /\ \A p \in Procs : pc[p] # "op" => wrote[p] = {}
    /\ ~Up => ~committing /\ \A p \in Procs : pc[p] = "begin"
    /\ committing => Open = {} /\ \E p \in Procs : pc[p] \in Committer
    /\ \A p \in Procs : pc[p] \in Committer => committing
    /\ \A p, q \in Procs : pc[p] \in Committer /\ pc[q] \in Committer => p = q
    /\ Up /\ Open = {} /\ ~committing => lh = <<>>
    /\ \A t \in Threads : pc[t] \in {"done", "read_head"} => lh = <<>>

(* The disk: a header is there while its blocks are installed, the blocks  *)
(* in the log are those in the cache, and what is installed is at home.    *)
DiskOK ==
    /\ \A t \in Threads : Redoing(t) => hdr = lh
    /\ Up /\ (\A p \in Procs : ~Redoing(p)) => hdr = <<>>
    /\ \A p \in Procs, i \in 1 .. Len(lh) :
          Copied(p, i) => logd[i] = Read(lh[i])
    /\ \A t \in Threads, i \in 1 .. Len(lh) :
          Installed(t, i) => home[lh[i]] = logd[i] /\ ~dirty[lh[i]]

(* A buffer that differs from its block is dirty, a dirty one is cached    *)
(* and logged.                                                             *)
CacheOK ==
    \A b \in Home :
       /\ buf[b] # NotCached /\ buf[b] # home[b] => dirty[b]
       /\ dirty[b] => buf[b] # NotCached /\ b \in Logged /\ Up

(* What the open calls may still use of their reservations is there.  If   *)
(* one call is open alone, then one that has ended gave a block back or    *)
(* the log holds only what this one wrote.                                 *)
Credit == {r \in Procs \X (1 .. MAXOPBLOCKS) :
              pc[r[1]] = "op" /\ r[2] > Cardinality(wrote[r[1]])}

CreditOK ==
    /\ \A p \in Procs : /\ IsFiniteSet(wrote[p]) /\ Cardinality(wrote[p]) <= OpBlocks
                        /\ wrote[p] \subseteq Logged
    /\ Len(lh) + Cardinality(Credit) <= LOGSIZE
    /\ outstanding = 1 => \/ Len(lh) + Cardinality(Credit) < LOGSIZE
                          \/ \A p \in Open : Logged = wrote[p]

LogInv == TypeOK /\ PhasesOK /\ DiskOK /\ CacheOK /\ CreditOK /\ NoLostWaiter
=============================================================================
