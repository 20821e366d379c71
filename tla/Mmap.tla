-------------------------------- MODULE Mmap --------------------------------
(***************************************************************************)
(* Memory mappings of the PA3 kernel: mmap, munmap, the page fault handler *)
(* and the part of fork that copies mappings (pa3/xv6-public/proc.c), over *)
(* the physical page allocator (kalloc.c).                                 *)
(*                                                                         *)
(* None of this code takes a lock around the mmap_area table, system calls *)
(* run on several CPUs and are preempted by the timer: every read that is  *)
(* acted on later is a step of its own, and so is every store to a field   *)
(* of an entry, in the order of the code: others meet entries half filled, *)
(* half copied or half cleared, and mixed by two who fill the same one.    *)
(* (A scan over the table, and the bounds of a loop, see it at one moment.)*)
(*                                                                         *)
(* Page numbers stand for addresses from MMAPBASE on; of an entry, f,      *)
(* offset and flags are left out, as are page contents, page table pages   *)
(* and the memory below MMAPBASE; kalloc and kfree hold the allocator's    *)
(* lock and are atomic.                                                    *)
(***************************************************************************)
EXTENDS Integers, FiniteSets

CONSTANTS
    NPROC,        \* process slots
    NAREA,        \* entries of marea
    NVA,          \* BOUND: pages of virtual memory above MMAPBASE
    Pages,        \* the physical pages the allocator has to give
    Requests      \* BOUND: what processes ask mmap for

Procs == 1 .. NPROC
Areas == 1 .. NAREA
VAs   == 0 .. NVA - 1
None  == 0               \* no process, no area, no page
Low   == -1              \* address 0, below MMAPBASE

ASSUME SizeAssumption ==
    /\ NPROC \in Nat /\ NAREA \in Nat /\ NVA \in Nat
    /\ IsFiniteSet(Pages) /\ None \notin Pages
    /\ Requests \subseteq [va : VAs, end : 1 .. NVA, write : BOOLEAN]
    /\ \A r \in Requests : r.va < r.end

VARIABLES
    life,    \* life[p]: "unused", "embryo", "alive" or "zombie"
    area,    \* the mmap_area table marea
    pt,      \* pt[p][va]: the page a present entry of p's page table names
    wr,      \* wr[p]: the addresses whose entry in it has PTE_W
    free,    \* free[f]: how often page f is on the free list
    at,      \* at[p]: where p is in the kernel
    mem,     \* mem[p]: the page page_fault_handler() has in its hand
    loc,     \* loc[p]: the local variables of the service p is in
    shared   \* history: some process has forked with mapped pages present

vars == <<life, area, pt, wr, free, at, mem, loc, shared>>

NoArea == [used |-> FALSE, addr |-> Low, len |-> 0, write |-> FALSE, p |-> None]

(* Table indices, the next field to store, the loop over pages from va to  *)
(* end, whether writing is asked for, and fork()'s child.                  *)
NoLocals == [slot |-> None, to |-> None, field |-> 1, va |-> 0, end |-> 0,
             write |-> FALSE, child |-> None]

(* What p records to map len pages from va on, with or without PROT_WRITE. *)
Request(p, va, len, w) == [used |-> TRUE, addr |-> va, len |-> len, write |-> w, p |-> p]

(* mmap()'s local variables at the start, i being the entry it found.      *)
Asked(r, i) ==
    [NoLocals EXCEPT !.slot = i, !.va = r.va, !.end = r.end, !.write = r.write]

(* Entry a once its k-th field has been set to that of b.                  *)
NFIELD == 5
Stored(a, b, k) ==
    CASE k = 1 -> [a EXCEPT !.used  = b.used]
      [] k = 2 -> [a EXCEPT !.addr  = b.addr]
      [] k = 3 -> [a EXCEPT !.len   = b.len]
      [] k = 4 -> [a EXCEPT !.write = b.write]
      [] k = 5 -> [a EXCEPT !.p     = b.p]

(* The pages the loops over entry a visit.  An area below MMAPBASE has     *)
(* none of the modelled ones, and pages from NVA on are never present.     *)
From(a) == IF a.addr = Low THEN 0 ELSE a.addr
To(a)   == IF a.addr = Low THEN 0 ELSE IF a.addr + a.len <= NVA THEN a.addr + a.len ELSE NVA

Init ==
    /\ life = [p \in Procs |-> IF p = 1 THEN "alive" ELSE "unused"]
    /\ area = [i \in Areas |-> NoArea]
    /\ pt   = [p \in Procs |-> [va \in VAs |-> None]]
    /\ wr   = [p \in Procs |-> {}]
    /\ free = [f \in Pages |-> 1]
    /\ at   = [p \in Procs |-> "user"]
    /\ mem  = [p \in Procs |-> None]
    /\ loc  = [p \in Procs |-> NoLocals]
    /\ shared = FALSE

At(p, a) == life[p] = "alive" /\ at[p] = a

Goto(p, a)   == at' = [at EXCEPT ![p] = a]
SetLoc(p, l) == loc' = [loc EXCEPT ![p] = l]
Return(p)    == Goto(p, "user") /\ SetLoc(p, NoLocals)
NextPage(p)  == SetLoc(p, [loc[p] EXCEPT !.va = @ + 1])
NextField(p) == SetLoc(p, [loc[p] EXCEPT !.field = @ + 1])

LastField(p) == loc[p].field = NFIELD

(* p stores the field it is at, of b, in entry i. *)
Store(p, i, b) == area' = [area EXCEPT ![i] = Stored(@, b, loc[p].field)]

(* What a loop over the table that stops at the first entry of S finds.    *)
First(S) == {i \in S : \A j \in S : i <= j}

Unused == {i \in Areas : ~area[i].used}

(* kalloc() takes a page off the list, kfree() puts one on it, mappages()  *)
(* fills an entry that must not be present.                                *)
Avail == {f \in Pages : free[f] > 0}
BugKallocEmpty(f) == free' = [free EXCEPT ![f] = @ - 1]     \* mutant: list not checked
BugKallocKeeps(f) == free[f] > 0 /\ free' = free            \* mutant: page not taken off

Kalloc(f) == free[f] > 0 /\ free' = [free EXCEPT ![f] = @ - 1]
Kfree(f)  == free' = [free EXCEPT ![f] = @ + 1]

(* mappages() looks whether the entry is present, and panics ("remap") if  *)
(* so: *pte = pa | perm | PTE_P otherwise.                                 *)
BugPresent(q, va) == FALSE                           \* mutant: does not look
Present(q, va)    == pt[q][va] # None

SetPte(q, va, f, w) ==
    /\ pt' = [pt EXCEPT ![q][va] = f]
    /\ wr' = [wr EXCEPT ![q] = IF w THEN @ \cup {va} ELSE @ \ {va}]

Panic(p) == Goto(p, "panic") /\ UNCHANGED <<pt, wr, loc>>

(* mappages() in the page loop of p, for the page table of q. *)
Mappages(p, q, va, f, w) ==
    \/ ~Present(q, va) /\ SetPte(q, va, f, w) /\ NextPage(p) /\ at' = at
    \/ Present(q, va) /\ Panic(p)

-----------------------------------------------------------------------------
(* mmap(): look for an unused entry, fill it in field by field, then map   *)
(* the pages if MAP_POPULATE was given.  A full table goes unnoticed.      *)

Mmap(p) ==
    /\ At(p, "user")
    /\ \E r \in Requests :
          \/ /\ \E i \in First(Unused) : SetLoc(p, Asked(r, i))
             /\ Goto(p, "mmap")
          \/ /\ Unused = {} /\ SetLoc(p, Asked(r, None))
             /\ Goto(p, "populate")
    /\ UNCHANGED <<life, area, pt, wr, free, mem>>

MmapStore(p) ==
    LET l == loc[p] IN
    /\ At(p, "mmap")
    /\ Store(p, l.slot, Request(p, l.va, l.end - l.va, l.write))
    /\ \/ ~LastField(p) /\ NextField(p) /\ at' = at
       \/ LastField(p) /\ Return(p)
       \/ /\ LastField(p) /\ Goto(p, "populate")
          /\ SetLoc(p, [l EXCEPT !.slot = None, !.field = 1])
    /\ UNCHANGED <<life, pt, wr, free, mem>>

(* One round of the populate loop.                                         *)
Populate(p) ==
    LET va == loc[p].va IN
    /\ At(p, "populate") /\ va < loc[p].end
    /\ \E f \in Pages : Kalloc(f) /\ Mappages(p, p, va, f, loc[p].write)
    /\ UNCHANGED <<life, area, mem>>

PopulateEnds(p) ==
    /\ At(p, "populate")
    /\ loc[p].va = loc[p].end \/ Avail = {}
    /\ Return(p)
    /\ UNCHANGED <<life, area, pt, wr, free, mem>>

(* mappages() finds no memory for a page table page: mem is not freed.     *)
PopulateNoTable(p) ==
    /\ At(p, "populate") /\ loc[p].va < loc[p].end
    /\ \E f \in Pages : Kalloc(f)
    /\ Return(p)
    /\ UNCHANGED <<life, area, pt, wr, mem>>

-----------------------------------------------------------------------------
(* page_fault_handler(): trap() calls it for every page fault, so for an   *)
(* access to a page that is not present and for a write to one whose entry *)
(* has no PTE_W.                                                           *)

Faults(p, va, write) == ~Present(p, va) \/ (write /\ va \notin wr[p])

Covers(a, p, va) ==
    a.used /\ a.p = p /\ a.addr # Low /\ a.addr <= va /\ va < a.addr + a.len

FaultArea(p, va) == First({i \in Areas : Covers(area[i], p, va)})

Fault(p) ==
    /\ At(p, "user")
    /\ \E va \in VAs, w \in BOOLEAN, f \in Pages : \E i \in FaultArea(p, va) :
          /\ Faults(p, va, w) /\ (w => area[i].write)
          /\ Kalloc(f)
          /\ mem' = [mem EXCEPT ![p] = f]
          /\ SetLoc(p, [NoLocals EXCEPT !.slot = i, !.va = va, !.end = va + 1, !.write = w])
    /\ Goto(p, "fault")
    /\ UNCHANGED <<life, area, pt, wr>>

(* The permission is that of the entry as it is now, which another process *)
(* may have cleared or filled anew; mappages() panics with mem in hand.    *)
FaultMap(p) ==
    LET l == loc[p] IN
    /\ At(p, "fault")
    /\ \/ /\ ~Present(p, l.va)
          /\ SetPte(p, l.va, mem[p], l.write \/ area[l.slot].write)
          /\ mem' = [mem EXCEPT ![p] = None]
          /\ Return(p)
       \/ Present(p, l.va) /\ Panic(p) /\ mem' = mem
    /\ UNCHANGED <<life, area, free>>

(* The handler kills: no area, one that does not allow the write, or no    *)
(* memory.                                                                 *)
FaultKills(p) ==
    /\ At(p, "user")
    /\ \E va \in VAs, w \in BOOLEAN :
          /\ Faults(p, va, w)
          /\ Avail # {} => \A i \in FaultArea(p, va) : w /\ ~area[i].write
    /\ life' = [life EXCEPT ![p] = "zombie"]
    /\ UNCHANGED <<area, pt, wr, free, at, mem, loc>>

(* mappages() finds no memory for a page table page: mem is lost, p killed. *)
FaultNoTable(p) ==
    /\ At(p, "fault")
    /\ life' = [life EXCEPT ![p] = "zombie"]
    /\ mem' = [mem EXCEPT ![p] = None]
    /\ Return(p)
    /\ UNCHANGED <<area, pt, wr, free>>

-----------------------------------------------------------------------------
(* munmap(): every entry that starts at the address, used or not, is taken *)
(* over (marea[i].p = curproc) up to the first used one; its pages are     *)
(* freed one by one, then the entry is cleared field by field.  With no    *)
(* used one munmap fails after that.                                       *)

StartsAt(va) == First({i \in Areas : area[i].used /\ area[i].addr = va})

TakeOver(p, va, S) ==
    area' = [i \in Areas |-> IF i \in S /\ area[i].addr = va
                             THEN [area[i] EXCEPT !.p = p] ELSE area[i]]

Munmap(p) ==
    /\ At(p, "user")
    /\ \E va \in VAs : \E i \in StartsAt(va) :
          /\ TakeOver(p, va, 1 .. i)
          /\ SetLoc(p, [NoLocals EXCEPT !.slot = i, !.va = va, !.end = To(area[i])])
    /\ Goto(p, "munmap")
    /\ UNCHANGED <<life, pt, wr, free, mem>>

MunmapFails(p) ==
    /\ At(p, "user")
    /\ \E va \in VAs : StartsAt(va) = {} /\ TakeOver(p, va, Areas)
    /\ UNCHANGED <<life, pt, wr, free, at, mem, loc>>

MunmapPage(p) ==
    LET va == loc[p].va IN
    /\ At(p, "munmap") /\ va < loc[p].end
    /\ \/ ~Present(p, va) /\ UNCHANGED <<pt, wr, free>>
       \/ Present(p, va) /\ Kfree(pt[p][va]) /\ SetPte(p, va, None, FALSE)
    /\ NextPage(p)
    /\ UNCHANGED <<life, area, at, mem>>

MunmapClear(p) ==
    /\ At(p, "munmap") /\ loc[p].va = loc[p].end
    /\ Store(p, loc[p].slot, NoArea)
    /\ IF LastField(p) THEN Return(p) ELSE NextField(p) /\ at' = at
    /\ UNCHANGED <<life, pt, wr, free, mem>>

-----------------------------------------------------------------------------
(* fork(): every area of the parent is copied to an unused entry, and each *)
(* page present in it is entered in the child's page table.                *)

Fork(p) ==
    /\ At(p, "user")
    /\ \E q \in Procs :
          /\ life[q] = "unused"
          /\ life' = [life EXCEPT ![q] = "embryo"]
          /\ SetLoc(p, [NoLocals EXCEPT !.slot = 1, !.child = q])
    /\ Goto(p, "fork")
    /\ UNCHANGED <<area, pt, wr, free, mem>>

(* The outer loop at entry slot: if it is one of the parent's, look for an *)
(* unused entry to copy it to; with none, or when done, go to the next.    *)
ForkArea(p) ==
    LET i == loc[p].slot  mine == area[i].used /\ area[i].p = p IN
    /\ At(p, "fork") /\ i <= NAREA
    /\ \/ /\ mine
          /\ \E t \in First(Unused) : SetLoc(p, [loc[p] EXCEPT !.to = t])
          /\ Goto(p, "fork_copy")
       \/ /\ ~mine \/ Unused = {}
          /\ SetLoc(p, [loc[p] EXCEPT !.slot = i + 1])
          /\ at' = at
    /\ UNCHANGED <<life, area, pt, wr, free, mem>>

(* Each field is copied as it is now, which another process may have       *)
(* changed since the last one, and then the loop bounds are read.          *)
ForkStore(p) ==
    LET l == loc[p] IN
    /\ At(p, "fork_copy") /\ l.field <= NFIELD
    /\ Store(p, l.to, [area[l.slot] EXCEPT !.p = l.child])
    /\ NextField(p)
    /\ UNCHANGED <<life, pt, wr, free, at, mem>>

(* An entry with address 0 and a length: its pages are the program itself, *)
(* which parent and child have.                                            *)
Program(a) == a.addr = Low /\ a.len > 0

ForkBounds(p) ==
    LET l == loc[p]  a == area[l.slot] IN
    /\ At(p, "fork_copy") /\ l.field > NFIELD /\ ~Program(a)
    /\ SetLoc(p, [l EXCEPT !.to = None, !.field = 1, !.va = From(a), !.end = To(a)])
    /\ Goto(p, "fork_pages")
    /\ UNCHANGED <<life, area, pt, wr, free, mem>>

(* mappages() panics at the first page of the program.                     *)
ForkLow(p) ==
    /\ At(p, "fork_copy") /\ loc[p].field > NFIELD /\ Program(area[loc[p].slot])
    /\ \E f \in Pages : Kalloc(f)
    /\ Panic(p)
    /\ UNCHANGED <<life, area, mem>>

(* One round of the page loop.  A page is allocated and filled, but what   *)
(* is entered in the child's page table is the parent's page.              *)
ForkPage(p) ==
    LET l == loc[p]  va == l.va IN
    /\ At(p, "fork_pages") /\ va < l.end
    /\ \/ ~Present(p, va) /\ NextPage(p) /\ UNCHANGED <<pt, wr, free, at>>
       \/ /\ Present(p, va)
          /\ \E f \in Pages : Kalloc(f)
          /\ Mappages(p, l.child, va, pt[p][va], area[l.slot].write \/ va \in wr[p])
    /\ UNCHANGED <<life, area, mem>>

(* kalloc() fails: fork returns 0 in the parent, the child stays EMBRYO.   *)
ForkNoPage(p) ==
    /\ \/ At(p, "fork_pages") /\ loc[p].va < loc[p].end /\ Present(p, loc[p].va)
       \/ At(p, "fork_copy") /\ loc[p].field > NFIELD /\ Program(area[loc[p].slot])
    /\ Avail = {}
    /\ Return(p)
    /\ UNCHANGED <<life, area, pt, wr, free, mem>>

ForkAreaDone(p) ==
    /\ At(p, "fork_pages") /\ loc[p].va = loc[p].end
    /\ Goto(p, "fork")
    /\ SetLoc(p, [NoLocals EXCEPT !.slot = loc[p].slot + 1, !.child = loc[p].child])
    /\ UNCHANGED <<life, area, pt, wr, free, mem>>

ForkReady(p) ==
    /\ At(p, "fork") /\ loc[p].slot = NAREA + 1
    /\ life' = [life EXCEPT ![loc[p].child] = "alive"]
    /\ Return(p)
    /\ UNCHANGED <<area, pt, wr, free, mem>>

-----------------------------------------------------------------------------
(* exit() leaves the memory and the areas alone; wait() frees the pages    *)
(* (freevm), and nobody ever clears the areas.                             *)

Exit(p) ==
    /\ At(p, "user")
    /\ life' = [life EXCEPT ![p] = "zombie"]
    /\ UNCHANGED <<area, pt, wr, free, at, mem, loc>>

(* The entries of p's page table that name page f. *)
Entries(p, f) == {va \in VAs : pt[p][va] = f}

BugCleared(p) == pt[p]            \* mutant: the page table survives the process

Cleared(p) == [va \in VAs |-> None]

Reap(p) ==
    /\ life[p] = "zombie"
    /\ free' = [f \in Pages |-> free[f] + Cardinality(Entries(p, f))]
    /\ pt' = [pt EXCEPT ![p] = Cleared(p)]
    /\ wr' = [wr EXCEPT ![p] = {}]
    /\ life' = [life EXCEPT ![p] = "unused"]
    /\ UNCHANGED <<area, at, mem, loc>>

-----------------------------------------------------------------------------
MmapStep(p)   == Mmap(p) \/ MmapStore(p) \/ Populate(p) \/ PopulateEnds(p) \/ PopulateNoTable(p)
FaultStep(p)  == Fault(p) \/ FaultMap(p) \/ FaultKills(p) \/ FaultNoTable(p)
MunmapStep(p) == Munmap(p) \/ MunmapFails(p) \/ MunmapPage(p) \/ MunmapClear(p)
ForkStep(p)   == Fork(p) \/ ForkArea(p) \/ ForkStore(p) \/ ForkBounds(p) \/ ForkLow(p)
                         \/ ForkPage(p) \/ ForkNoPage(p) \/ ForkAreaDone(p) \/ ForkReady(p)

(* Process p has a page mapped. *)
HasPages(p) == \E va \in VAs : pt[p][va] # None

Next ==
    /\ \E p \in Procs :
          MmapStep(p) \/ FaultStep(p) \/ MunmapStep(p) \/ ForkStep(p) \/ Exit(p) \/ Reap(p)
    /\ shared' = (shared \/ \E p \in Procs :
                      at[p] = "user" /\ at'[p] = "fork" /\ HasPages(p))

Spec == Init /\ [][Next]_vars

-----------------------------------------------------------------------------
AreaType == [used : BOOLEAN, addr : VAs \cup {Low}, len : 0 .. NVA, write : BOOLEAN,
             p : Procs \cup {None}]
LocType  == [slot : 0 .. NAREA + 1, to : 0 .. NAREA, field : 1 .. NFIELD + 1,
             va : 0 .. NVA, end : 0 .. NVA, write : BOOLEAN, child : Procs \cup {None}]
PtType   == [Procs -> [VAs -> Pages \cup {None}]]
AtType   == {"user", "mmap", "populate", "fault", "munmap", "fork", "fork_copy",
             "fork_pages", "panic"}

(* Type invariant. *)
TypeOK ==
    /\ life \in [Procs -> {"unused", "embryo", "alive", "zombie"}]
    /\ area \in [Areas -> AreaType]
    /\ pt   \in PtType
    /\ wr   \in [Procs -> SUBSET VAs]
    /\ free \in [Pages -> Nat]
    /\ at   \in [Procs -> AtType]
    /\ mem  \in [Procs -> Pages \cup {None}]
    /\ loc  \in [Procs -> LocType]
    /\ shared \in BOOLEAN

(* A physical page is on the free list at most once, and never while a     *)
(* page table names it (kalloc.c, kfree: "should have been returned by a   *)
(* call to kalloc()").                                                     *)
NoUseAfterFree ==
    /\ \A f \in Pages : free[f] <= 1
    /\ \A p \in Procs, va \in VAs : pt[p][va] # None => free[pt[p][va]] = 0

(* A physical page is mapped by one process, at one address: what fork     *)
(* promises by "copy parent's pages" (proc.c).                             *)
PrivatePages ==
    \A p, q \in Procs, va, vb \in VAs :
        pt[p][va] # None /\ pt[p][va] = pt[q][vb] => p = q /\ va = vb

(* What a process needs where it is, with or without shared pages: the     *)
(* table indices, a page loop inside the modelled addresses, and for a     *)
(* fault handler a page in its hand and the fault as it was raised, on an  *)
(* entry absent or present without PTE_W.                                  *)
PlaceOK(p) ==
    /\ life[p] # "alive" => at[p] = "user"
    /\ loc[p].va <= loc[p].end
    /\ at[p] \in {"mmap", "fault", "munmap", "fork_copy", "fork_pages"} => loc[p].slot \in Areas
    /\ at[p] = "fork" => loc[p].slot # None
    /\ at[p] = "fork_copy" => loc[p].to \in Areas
    /\ at[p] \in {"mmap", "munmap"} => loc[p].field <= NFIELD
    /\ at[p] \in {"mmap", "fault"} => loc[p].va < loc[p].end
    /\ at[p] = "fault" => mem[p] # None /\ Faults(p, loc[p].va, loc[p].write)
    /\ mem[p] # None => at[p] \in {"fault", "panic"}

(* A fork has a child of its own that nobody runs. *)
Forking == {"fork", "fork_copy", "fork_pages"}

ForksOK == \A p \in Procs : at[p] \in Forking =>
    /\ loc[p].child # None /\ life[loc[p].child] = "embryo"
    /\ \A q \in Procs : at[q] \in Forking /\ loc[q].child = loc[p].child => q = p

(* Only a present entry has PTE_W. *)
WritablePresent == \A p \in Procs : \A va \in wr[p] : Present(p, va)

LocalInv == TypeOK /\ WritablePresent /\ (\A p \in Procs : PlaceOK(p)) /\ ForksOK

(* The inductive invariant behind the two: a page in the hand of a fault   *)
(* handler is nowhere else, and nobody forks with pages mapped.            *)
HandsOK == \A p \in Procs :
    mem[p] # None =>
        /\ free[mem[p]] = 0
        /\ \A q \in Procs : mem[q] = mem[p] => q = p
        /\ \A q \in Procs, va \in VAs : pt[q][va] # mem[p]

ForkersEmpty == \A p \in Procs : at[p] \in Forking => \A va \in VAs : pt[p][va] = None

MemInv == LocalInv /\ NoUseAfterFree /\ PrivatePages /\ HandsOK /\ ForkersEmpty

(* All of that holds until some process forks with a page mapped: mmap,    *)
(* munmap, the fault handler, exit and wait, interleaved in any way, never *)
(* free a page twice, give out one that is in use, or share one.           *)
MemSafe == ~shared => MemInv

(* Pages are conserved: those on the free list, counted as often as they   *)
(* are there, those mapped, counted as often as they are mapped, and those *)
(* in a fault handler's hand are never more than the allocator was given.  *)
(* fork maps a page a second time only after taking another one off the    *)
(* list (proc.c, fork), so what a child frees was paid for.                *)
Listed == UNION {{f} \X (1 .. free[f]) : f \in Pages}
Mapped == {e \in Procs \X VAs : pt[e[1]][e[2]] # None}
InHand == {p \in Procs : mem[p] # None}

Conserved == Cardinality(Listed) + Cardinality(Mapped) + Cardinality(InHand) <= Cardinality(Pages)

(* A present entry keeps its page, and may not become writable, until it   *)
(* is removed: what a second fault on it, overlapping areas or an area     *)
(* changed under a fault handler bring to mappages() ends in its panic     *)
(* ("remap"), never in an entry that loses its page or its protection.     *)
NoRemap ==
    [][\A p \in Procs, va \in VAs :
          pt[p][va] # None =>
              \/ pt'[p][va] = None
              \/ pt'[p][va] = pt[p][va] /\ (va \in wr'[p] <=> va \in wr[p])]_vars

(* munmap works on an area of the calling process: "If there is no         *)
(* mmap_area of process starting with the address, return -1" (proc.c).    *)
MunmapOwn ==
    [][\A p \in Procs : Munmap(p) => area[loc'[p].slot].p = p]_vars
=============================================================================
