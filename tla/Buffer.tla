------------------------------- MODULE Buffer -------------------------------
(***************************************************************************)
(* The buffer cache (xv6-public/bio.c), the sleep locks of its buffers     *)
(* (sleeplock.c) and the disk driver under it (ide.c).                     *)
(*                                                                         *)
(* A step is a section of code under one spinlock: bcache.lock, the        *)
(* spinlock of a sleep lock, or idelock.  sleep() gives the lock back and  *)
(* sleeps in one step, which Proc shows.  The disk works on one request at *)
(* a time and interrupts when it is done.                                  *)
(*                                                                         *)
(* Callers have one buffer at a time.  They change it and write it at once *)
(* (bwrite), or change it and set B_DIRTY as log_write() does, in which    *)
(* case it stays in the cache until somebody writes it.                    *)
(***************************************************************************)
EXTENDS Integers, Sequences, FiniteSets

CONSTANTS
    Procs,         \* callers
    Blocks,        \* blocks of the disk
    Data,          \* contents of a block
    NBUF,          \* buffers
    None           \* no process; no block

Bufs == 1 .. NBUF

ASSUME BufferAssumption ==
    /\ IsFiniteSet(Procs) /\ NBUF \in Nat \ {0}
    /\ None \notin Procs /\ None \notin Blocks

VARIABLES
    pc,            \* pc[p]: where caller p is
    want,          \* want[p]: the block that p asked for last
    mine,          \* mine[p]: the buffer that bget() found for p
    mru,           \* the list of the buffers, the one used last first
    blockno, refcnt, valid, dirty, data,    \* the fields of each buffer
    lock,          \* lock[b]: the process that has the sleep lock of buffer b
    idequeue,      \* the requests: buffers, the first one is on the disk
    state, sent,   \* the disk: "idle", "busy", "done"; the data it was given
    disk           \* what is on it

procs  == <<pc, want, mine>>
fields == <<blockno, valid, dirty, data>>
bcache == <<mru, refcnt, fields>>
ide    == <<idequeue, state, sent, disk>>
vars   == <<procs, bcache, lock, ide>>

(* binit() puts each buffer in front of the list. *)
Binit ==
    /\ mru = [i \in Bufs |-> NBUF + 1 - i]
    /\ blockno = [b \in Bufs |-> None] /\ refcnt = [b \in Bufs |-> 0]
    /\ valid = [b \in Bufs |-> FALSE] /\ dirty = [b \in Bufs |-> FALSE]
    /\ data \in [Bufs -> Data]
    /\ \A b, c \in Bufs : data[b] = data[c]

Initsleeplock == lock = [b \in Bufs |-> None]

Ideinit ==
    /\ idequeue = <<>> /\ state = "idle"
    /\ disk \in [Blocks -> Data]
    /\ sent \in Data
    /\ \A k, l \in Blocks, b \in Bufs : disk[k] = disk[l] /\ sent = disk[k] /\ data[b] = disk[k]

Init ==
    /\ pc = [p \in Procs |-> "idle"]
    /\ want = [p \in Procs |-> None]
    /\ mine = [p \in Procs |-> 1]
    /\ Binit /\ Initsleeplock /\ Ideinit

Goto(p, l) == pc' = [pc EXCEPT ![p] = l]

-----------------------------------------------------------------------------
(* bget(): find the buffer of block k or recycle one, and count the        *)
(* reference, under bcache.lock; the sleep lock is taken after that lock   *)
(* is released.                                                            *)

Cached(k) == {b \in Bufs : blockno[b] = k}

BugUnused == {b \in Bufs : refcnt[b] = 0}                 \* mutant: dirty ones too
BugSpare == {b \in Bufs : lock[b] = None /\ ~dirty[b]}    \* mutant: unlocked is unused
Unused == {b \in Bufs : refcnt[b] = 0 /\ ~dirty[b]}

(* The last one in the list of those; none if there is none. *)
Oldest == {b \in Unused : \E i \in Bufs : /\ mru[i] = b
                                         /\ \A j \in Bufs : j > i => mru[j] \notin Unused}

BgetHit(p, k) ==
    /\ pc[p] = "idle"
    /\ \E b \in Cached(k) :
          /\ mine' = [mine EXCEPT ![p] = b]
          /\ refcnt' = [refcnt EXCEPT ![b] = @ + 1]
    /\ want' = [want EXCEPT ![p] = k]
    /\ Goto(p, "lock")
    /\ UNCHANGED <<mru, fields, lock, ide>>

BgetMiss(p, k) ==
    /\ pc[p] = "idle" /\ Cached(k) = {}
    /\ \E b \in Oldest :                                  \* else panic
          /\ mine' = [mine EXCEPT ![p] = b]
          /\ blockno' = [blockno EXCEPT ![b] = k]
          /\ valid' = [valid EXCEPT ![b] = FALSE]
          /\ dirty' = [dirty EXCEPT ![b] = FALSE]
          /\ refcnt' = [refcnt EXCEPT ![b] = 1]
    /\ want' = [want EXCEPT ![p] = k]
    /\ Goto(p, "lock")
    /\ UNCHANGED <<mru, data, lock, ide>>

(* acquiresleep(), and the test of B_VALID in bread().                     *)
LockFree(b) == lock[b] = None

AcquireSleep(p) ==
    /\ pc[p] = "lock" /\ LockFree(mine[p])
    /\ lock' = [lock EXCEPT ![mine[p]] = p]
    /\ Goto(p, IF valid[mine[p]] THEN "held" ELSE "iderw")
    /\ UNCHANGED <<want, mine, bcache, ide>>

SleepOnLock(p) ==
    /\ pc[p] = "lock" /\ ~LockFree(mine[p])
    /\ Goto(p, "locksleep")
    /\ UNCHANGED <<want, mine, bcache, lock, ide>>

-----------------------------------------------------------------------------
(* What a caller does with the buffer it has locked.                       *)

Bwrite(p, d) ==
    /\ pc[p] = "held"
    /\ data' = [data EXCEPT ![mine[p]] = d]
    /\ dirty' = [dirty EXCEPT ![mine[p]] = TRUE]
    /\ Goto(p, "iderw")
    /\ UNCHANGED <<want, mine, mru, refcnt, blockno, valid, lock, ide>>

LogWrite(p, d) ==
    /\ pc[p] = "held"
    /\ data' = [data EXCEPT ![mine[p]] = d]
    /\ dirty' = [dirty EXCEPT ![mine[p]] = TRUE]
    /\ UNCHANGED <<procs, mru, refcnt, blockno, valid, lock, ide>>

(* brelse(): releasesleep(), then the reference under bcache.lock.         *)
Woken(b) == [p \in Procs |-> IF pc[p] = "locksleep" /\ mine[p] = b
                             THEN "lock" ELSE pc[p]]

ReleaseSleep(p) ==
    /\ pc[p] = "held"
    /\ lock' = [lock EXCEPT ![mine[p]] = None]
    /\ pc' = [Woken(mine[p]) EXCEPT ![p] = "brelse"]
    /\ UNCHANGED <<want, mine, bcache, ide>>

PlaceOf(b) == CHOOSE i \in Bufs : mru[i] = b

BugToFront(b) == [mru EXCEPT ![1] = b]                    \* mutant: not unlinked
ToFront(b) ==
    [i \in Bufs |-> IF i = 1 THEN b ELSE IF i <= PlaceOf(b) THEN mru[i - 1] ELSE mru[i]]

BugUnreferenced(b) == refcnt                              \* mutant: never given back
Unreferenced(b) == [refcnt EXCEPT ![b] = @ - 1]

Brelse(p) ==
    /\ pc[p] = "brelse"
    /\ refcnt' = Unreferenced(mine[p])
    /\ mru' = IF refcnt[mine[p]] = 1 THEN ToFront(mine[p]) ELSE mru
    /\ mine' = [mine EXCEPT ![p] = 1] /\ want' = [want EXCEPT ![p] = None]
    /\ Goto(p, "idle")
    /\ UNCHANGED <<fields, lock, ide>>

-----------------------------------------------------------------------------
(* iderw(): queue the buffer, start the disk if it is the first one, sleep *)
(* until it is valid and clean.                                            *)

(* idestart(b): a write takes the data with it. *)
Idestart(b) ==
    /\ state' = "busy"
    /\ sent' = IF dirty[b] THEN data[b] ELSE sent

Iderw(p) ==
    /\ pc[p] = "iderw"
    /\ idequeue' = Append(idequeue, mine[p])
    /\ IF idequeue = <<>> THEN Idestart(mine[p]) ELSE UNCHANGED <<state, sent>>
    /\ Goto(p, "iosleep")
    /\ UNCHANGED <<want, mine, bcache, lock, disk>>

(* kill() wakes whoever sleeps, with the disk or the lock as they were.    *)
Killed(p) ==
    /\ \/ pc[p] = "iosleep" /\ Goto(p, "iowoken")
       \/ pc[p] = "locksleep" /\ Goto(p, "lock")
    /\ UNCHANGED <<want, mine, bcache, lock, ide>>

(* The loop around sleep(). *)
Complete(b) == valid[b] /\ ~dirty[b]

IderwWakes(p) ==
    /\ pc[p] = "iowoken"
    /\ Goto(p, IF Complete(mine[p]) THEN "held" ELSE "iosleep")
    /\ UNCHANGED <<want, mine, bcache, lock, ide>>

(* The disk finishes the request that it was given. *)
DiskDone ==
    /\ state = "busy"
    /\ state' = "done"
    /\ disk' = IF dirty[Head(idequeue)]
               THEN [disk EXCEPT ![blockno[Head(idequeue)]] = sent] ELSE disk
    /\ UNCHANGED <<procs, bcache, lock, idequeue, sent>>

(* ideintr(), on the interrupt of the disk: the data of a read is copied,  *)
(* the caller woken, the next request started.                             *)
BugIowoken(b) == pc                                       \* mutant: wakeup forgotten
Iowoken(b) == [p \in Procs |-> IF pc[p] = "iosleep" /\ mine[p] = b
                               THEN "iowoken" ELSE pc[p]]

ReadIn(b) == IF dirty[b] THEN data ELSE [data EXCEPT ![b] = disk[blockno[b]]]

Ideintr ==
    /\ state = "done"
    /\ LET b == Head(idequeue) IN
          /\ idequeue' = Tail(idequeue)
          /\ data' = ReadIn(b)
          /\ valid' = [valid EXCEPT ![b] = TRUE]
          /\ dirty' = [dirty EXCEPT ![b] = FALSE]
          /\ pc' = Iowoken(b)
    /\ IF Tail(idequeue) # <<>> THEN Idestart(idequeue[2])
       ELSE state' = "idle" /\ UNCHANGED sent
    /\ UNCHANGED <<want, mine, mru, refcnt, blockno, lock, disk>>

-----------------------------------------------------------------------------
BreadStep(p) ==
    \/ \E k \in Blocks : BgetHit(p, k) \/ BgetMiss(p, k)
    \/ AcquireSleep(p) \/ SleepOnLock(p)

HolderStep(p) == \/ ReleaseSleep(p) \/ Brelse(p)
                 \/ \E d \in Data : Bwrite(p, d) \/ LogWrite(p, d)

IdeStep(p) == Iderw(p) \/ Killed(p) \/ IderwWakes(p)

Next == \/ \E p \in Procs : BreadStep(p) \/ HolderStep(p) \/ IdeStep(p)
        \/ DiskDone \/ Ideintr

Spec == Init /\ [][Next]_vars

-----------------------------------------------------------------------------
Waiting == {"locksleep", "lock"}
Io      == {"iderw", "iosleep", "iowoken"}

(* Type invariant: the fields of the state, and the list, which holds each *)
(* buffer once.                                                            *)
FieldsOK ==
    /\ pc \in [Procs -> {"idle", "held", "brelse"} \cup Waiting \cup Io]
    /\ want \in [Procs -> Blocks \cup {None}]
    /\ mine \in [Procs -> Bufs]
    /\ blockno \in [Bufs -> Blocks \cup {None}]
    /\ refcnt \in [Bufs -> Nat]
    /\ valid \in [Bufs -> BOOLEAN] /\ dirty \in [Bufs -> BOOLEAN]
    /\ data \in [Bufs -> Data] /\ disk \in [Blocks -> Data] /\ sent \in Data
    /\ lock \in [Bufs -> Procs \cup {None}]
    /\ idequeue \in Seq(Bufs) /\ state \in {"idle", "busy", "done"}

ListOK == mru \in [Bufs -> Bufs] /\ \A i, j \in Bufs : mru[i] = mru[j] => i = j

TypeOK == FieldsOK /\ ListOK

(* A block has one buffer ("only one copy of a disk block cached", bio.c), *)
(* and from the moment bget() releases bcache.lock to the end of brelse()  *)
(* the buffer that it chose is that of the block asked for, whatever other *)
(* callers do while this one waits for the sleep lock or for the disk.     *)
BufferStays ==
    /\ \A b, c \in Bufs : blockno[b] = blockno[c] /\ blockno[b] # None => b = c
    /\ \A p \in Procs : pc[p] # "idle" => want[p] # None /\ blockno[mine[p]] = want[p]

(* Buffers that log_write() has pinned: dirty, and nobody is writing them. *)
Using   == {p \in Procs : pc[p] # "idle"}
Writing == {mine[p] : p \in {q \in Procs : pc[q] \in {"iderw", "iosleep", "iowoken"}}}
Pinned  == {b \in Bufs : dirty[b]} \ Writing

(* bget() panics, "no buffers", at no fewer than NBUF: as long as the      *)
(* callers between bget() and the end of brelse() and the pinned buffers   *)
(* number less than that, there is one to recycle.  No reference is lost,  *)
(* and no buffer stays dirty unless log_write() pinned it.                 *)
NoEarlyPanic ==
    Cardinality(Using) + Cardinality(Pinned) < NBUF => Unused # {}

(* A caller asleep in iderw(), or woken too early, is on the queue with    *)
(* its buffer, and the disk works on the queue or has interrupted: no      *)
(* completion is lost, however early the interrupt comes.                  *)
Unserved(p) == pc[p] = "iosleep" \/ (pc[p] = "iowoken" /\ ~Complete(mine[p]))

IoPending ==
    /\ \A p \in Procs : Unserved(p) => \E i \in DOMAIN idequeue : idequeue[i] = mine[p]
    /\ idequeue # <<>> <=> state # "idle"

-----------------------------------------------------------------------------
(* The inductive invariant behind these.                                   *)

Holding(p) == pc[p] \in {"held"} \cup Io
Users(b) == {p \in Procs : pc[p] # "idle" /\ mine[p] = b}

(* The count of a buffer is the number of callers that are between bget()  *)
(* and brelse() with it, its sleep lock is with the one that works on it.  *)
RefsOK  == \A b \in Bufs : refcnt[b] = Cardinality(Users(b))
LocksOK == \A b \in Bufs, p \in Procs : lock[b] = p <=> Holding(p) /\ mine[p] = b

(* What a buffer holds: B_VALID before anybody sees it, the block that is  *)
(* on disk unless it is dirty.                                             *)
ContentsOK ==
    /\ \A p \in Procs : /\ pc[p] = "held" => valid[mine[p]]
                        /\ pc[p] \in {"iderw", "iosleep"} => ~Complete(mine[p])
    /\ \A b \in Bufs : /\ dirty[b] => valid[b]
                       /\ valid[b] => blockno[b] # None
                       /\ valid[b] /\ ~dirty[b] => data[b] = disk[blockno[b]]

(* The request queue holds the buffers of the callers whose requests are   *)
(* not served, each once, and what the disk has been given is what the     *)
(* first one holds.                                                        *)
QueueOK ==
    /\ \A i \in 1 .. Len(idequeue) :
          \E p \in Procs : Unserved(p) /\ mine[p] = idequeue[i]
    /\ \A i, j \in 1 .. Len(idequeue) : idequeue[i] = idequeue[j] => i = j
    /\ state # "idle" /\ dirty[Head(idequeue)] =>
          /\ state = "busy" => sent = data[Head(idequeue)]
          /\ state = "done" => disk[blockno[Head(idequeue)]] = data[Head(idequeue)]

CacheInv == /\ FieldsOK /\ RefsOK /\ LocksOK /\ BufferStays
            /\ ContentsOK /\ QueueOK /\ IoPending

-----------------------------------------------------------------------------
(* Buffers implement the blocks of BlockStore: a block belongs to the      *)
(* process that has the sleep lock of its buffer, once it has been read.   *)
Valid(k) == {b \in Cached(k) : valid[b]}
StoreVal   == [k \in Blocks |-> IF Valid(k) = {} THEN disk[k]
                                ELSE data[CHOOSE b \in Valid(k) : TRUE]]
StoreOwner == [k \in Blocks |-> IF Valid(k) = {} THEN None
                                ELSE lock[CHOOSE b \in Valid(k) : TRUE]]

Store == INSTANCE BlockStore WITH Free <- None, val <- StoreVal, owner <- StoreOwner

StoreSpec == Store!Spec
=============================================================================
