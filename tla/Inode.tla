------------------------------- MODULE Inode -------------------------------
(***************************************************************************)
(* The inode layer (xv6-public/fs.c) and the system calls that work on     *)
(* names (sysfile.c): the cache of inodes with its reference counts and    *)
(* sleep locks, allocation and freeing of inodes and blocks, directories,  *)
(* path lookup, and open, close, write, link, unlink, mkdir, mknod.        *)
(*                                                                         *)
(* A step is a section under icache.lock, or what a process does from the  *)
(* moment it has the lock of an inode until it needs another lock or gives *)
(* it back.  Blocks and the disk copy of an inode are read and changed     *)
(* under the lock of a buffer (Buffer), and are on disk together or not at *)
(* all (Log).  An inode has one block at most, which holds the entries of  *)
(* a directory.  Paths are absolute and without dots.                      *)
(***************************************************************************)
EXTENDS Integers, Sequences, FiniteSets

CONSTANTS
    Procs,        \* processes
    NINODES,      \* inodes on disk (sb.ninodes)
    NINODE,       \* entries of the inode cache
    NBLOCKS,      \* blocks for content
    NFILE,        \* entries of the table of open files
    Names,        \* names of directory entries
    MaxLinks,     \* BOUND: links of an inode that link() adds to
    Requests,     \* BOUND: the calls that processes make, with their paths
    None          \* no process

Inums  == 1 .. NINODES
Slots  == 1 .. NINODE
Blocks == 1 .. NBLOCKS
ROOTINO == 1
Cwd     == 1      \* the entry of the root, which is the current directory of init
Types  == {"file", "dir", "dev"}
Calls  == {"open", "create", "mkdir", "mknod", "unlink", "link"}

ASSUME InodeAssumption ==
    /\ NINODES \in Nat \ {0} /\ NINODE \in Nat \ {0} /\ NBLOCKS \in Nat \ {0}
    /\ NFILE \in Nat /\ MaxLinks \in Nat
    /\ Requests \subseteq [op : Calls, path : Seq(Names), new : Seq(Names)]
    /\ \A q \in Requests : q.path # <<>> /\ (q.new # <<>> <=> q.op = "link")
    /\ IsFiniteSet(Procs) /\ IsFiniteSet(Names) /\ None \notin Procs

VARIABLES
    pc,           \* pc[p]: where process p is
    loc,          \* loc[p]: the local variables of its call
    ofile,        \* ofile[p]: the entry of the inode that p has open, or 0
    icache,       \* the inode cache
    dinode,       \* the inodes on disk
    bitmap,       \* the blocks in use
    entry         \* entry[b]: the inode number behind each name in block b, or 0

disk == <<dinode, bitmap, entry>>
vars == <<pc, loc, ofile, icache, disk>>

NoEntries == [n \in Names |-> 0]
FreeInode == [type |-> "none", nlink |-> 0, addr |-> 0]

(* at: where namex() is; ip, dp: the variables of those names; inum: what  *)
(* ialloc() found; puts: the entries to iput() before the call goes on;    *)
(* unref: the one that iput() has unlocked.                                *)
NoLocals == [op |-> "", path |-> <<>>, new |-> <<>>, at |-> 0, ip |-> 0, dp |-> 0,
             inum |-> 0, puts |-> <<>>, unref |-> 0]

Init ==
    /\ pc = [p \in Procs |-> "user"]
    /\ loc = [p \in Procs |-> NoLocals]
    /\ ofile = [p \in Procs |-> 0]
    /\ icache = [s \in Slots |-> [inum |-> IF s = Cwd THEN ROOTINO ELSE 0,
                                  ref |-> IF s = Cwd THEN 1 ELSE 0,
                                  lock |-> None, valid |-> FALSE,
                                  type |-> "none", nlink |-> 0, addr |-> 0]]
    /\ dinode = [i \in Inums |-> IF i = ROOTINO THEN [type |-> "dir", nlink |-> 1, addr |-> 1]
                                 ELSE FreeInode]
    /\ bitmap = {1}
    /\ entry = [b \in Blocks |-> NoEntries]

Step(p, l, r) == pc' = [pc EXCEPT ![p] = l] /\ loc' = [loc EXCEPT ![p] = r]

(* Process p is at l, and has nothing to put. *)
At(p, l) == pc[p] = l /\ loc[p].puts = <<>> /\ loc[p].unref = 0

Least(S) == CHOOSE i \in S : \A j \in S : i <= j

-----------------------------------------------------------------------------
(* iget(): the entry of inode i in cache c, or the first unused one.       *)

Hits(c, i) == {s \in Slots : c[s].ref > 0 /\ c[s].inum = i}
Empty(c)   == {s \in Slots : c[s].ref = 0}

CanIget(c, i) == Hits(c, i) \cup Empty(c) # {}           \* else panic

Slot(c, i) == Least(IF Hits(c, i) # {} THEN Hits(c, i) ELSE Empty(c))

BugIget(c, i) ==                                         \* mutant: a hit is not counted
    IF Hits(c, i) # {} THEN c
    ELSE [c EXCEPT ![Slot(c, i)].inum = i, ![Slot(c, i)].ref = 1,
                   ![Slot(c, i)].valid = FALSE]
Iget(c, i) ==
    IF Hits(c, i) # {} THEN [c EXCEPT ![Slot(c, i)].ref = @ + 1]
    ELSE [c EXCEPT ![Slot(c, i)].inum = i, ![Slot(c, i)].ref = 1,
                   ![Slot(c, i)].valid = FALSE]

(* ilock() by p, which reads the inode from disk unless it is valid.       *)
Unlocked(s) == icache[s].lock = None

Ilock(c, s, p) ==
    LET d == dinode[c[s].inum] IN
    [c EXCEPT ![s] = IF @.valid THEN [@ EXCEPT !.lock = p]
                     ELSE [@ EXCEPT !.lock = p, !.valid = TRUE, !.type = d.type,
                                    !.nlink = d.nlink, !.addr = d.addr]]

Iunlock(c, s) == [c EXCEPT ![s].lock = None]

(* iupdate(): the copy of inode s in cache c goes to disk d. *)
Content(r) == [type |-> r.type, nlink |-> r.nlink, addr |-> r.addr]
Iupdate(d, c, s) == [d EXCEPT ![c[s].inum] = Content(c[s])]

(* dirlookup() of n in the directory s of cache c: an inode number or 0.   *)
(* A directory has a block from the start, for its dots.                   *)
Dirlookup(c, s, n) == entry[c[s].addr][n]

(* balloc(): the first free block, zeroed. *)
BugBalloc(m) == 1                                        \* mutant: not looked up
Balloc(m) == Least(Blocks \ m)
CanBalloc == bitmap # Blocks                             \* else panic

-----------------------------------------------------------------------------
(* iput(): under the inode's lock the inode is freed if this is its last   *)
(* reference and no entry names it; the reference goes after that.         *)

BugLast(r) == r.valid /\ r.nlink = 0                     \* mutant: others refer to it
Last(r) == r.valid /\ r.nlink = 0 /\ r.ref = 1

BugFreed(r) == [r EXCEPT !.type = "none", !.addr = 0]    \* mutant: stays valid
Freed(r) == [r EXCEPT !.type = "none", !.addr = 0, !.valid = FALSE]

IputFree(p) ==
    /\ loc[p].puts # <<>> /\ loc[p].unref = 0
    /\ LET s == Head(loc[p].puts) IN
          /\ Unlocked(s)
          /\ IF Last(icache[s])
             THEN /\ icache' = [icache EXCEPT ![s] = Freed(@)]
                  /\ dinode' = [dinode EXCEPT ![icache[s].inum] = FreeInode]
                  /\ bitmap' = bitmap \ {icache[s].addr}
             ELSE UNCHANGED <<icache, dinode, bitmap>>
          /\ loc' = [loc EXCEPT ![p].puts = Tail(@), ![p].unref = s]
    /\ UNCHANGED <<pc, ofile, entry>>

IputRef(p) ==
    /\ loc[p].unref # 0
    /\ icache' = [icache EXCEPT ![loc[p].unref].ref = @ - 1]
    /\ loc' = [loc EXCEPT ![p].unref = 0]
    /\ UNCHANGED <<pc, ofile, disk>>

-----------------------------------------------------------------------------
(* The calls: namex() starts from the root, for namei() or, when the call  *)
(* is to change a directory, for nameiparent().                            *)

CallStart(p) ==
    /\ At(p, "user") /\ CanIget(icache, ROOTINO)
    /\ icache' = Iget(icache, ROOTINO)
    /\ \E q \in Requests :
          /\ q.op \in {"open", "create"} => ofile[p] = 0
          /\ Step(p, "namex", [NoLocals EXCEPT !.op = q.op, !.path = q.path, !.new = q.new,
                                               !.at = Slot(icache, ROOTINO)])
    /\ UNCHANGED <<ofile, disk>>

Parent(r) == r.op \in {"create", "mkdir", "mknod", "unlink", "link_new"}

(* Where the call goes on when its path has been found, and when not. *)
Found(op)   == IF op \in {"mkdir", "mknod"} THEN "create" ELSE op
Missing(op) == IF op = "link_new" THEN "link_bad" ELSE "user"

Namex(p) ==
    LET r == loc[p]
        c == Ilock(icache, r.at, p)
        last == Len(r.path) = 1
        i == Dirlookup(c, r.at, Head(r.path)) IN
    /\ At(p, "namex") /\ Unlocked(r.at)
    /\ IF c[r.at].type # "dir" \/ ((~Parent(r) \/ ~last) /\ i = 0)
       THEN /\ icache' = Iunlock(c, r.at)
            /\ Step(p, Missing(r.op), [r EXCEPT !.at = 0, !.puts = <<r.at>>])
       ELSE IF Parent(r) /\ last
       THEN /\ icache' = Iunlock(c, r.at)
            /\ Step(p, Found(r.op), [r EXCEPT !.at = 0, !.dp = r.at])
       ELSE /\ CanIget(c, i)
            /\ icache' = Iunlock(Iget(c, i), r.at)
            /\ IF last
               THEN Step(p, Found(r.op), [r EXCEPT !.at = 0, !.ip = Slot(c, i),
                                                   !.puts = <<r.at>>])
               ELSE Step(p, "namex", [r EXCEPT !.at = Slot(c, i), !.path = Tail(@),
                                               !.puts = <<r.at>>])
    /\ UNCHANGED <<ofile, disk>>

(* The ends of a call: with ip unlocked and open, or unlocked and put. *)
Opened(p, c, s) ==
    /\ Cardinality({q \in Procs : ofile[q] # 0}) < NFILE
    /\ icache' = Iunlock(c, s)
    /\ ofile' = [ofile EXCEPT ![p] = s]
    /\ Step(p, "user", NoLocals)

Dropped(p, c, s) ==
    /\ icache' = Iunlock(c, s)
    /\ Step(p, "user", [NoLocals EXCEPT !.puts = <<s>>])
    /\ UNCHANGED ofile

-----------------------------------------------------------------------------
(* sys_open() without O_CREATE: no file or descriptor is left, or the      *)
(* inode is a directory and is to be written, or it is opened.             *)
Open(p) ==
    LET s == loc[p].ip
        c == Ilock(icache, s, p) IN
    /\ At(p, "open") /\ Unlocked(s)
    /\ Opened(p, c, s) \/ Dropped(p, c, s)
    /\ UNCHANGED disk

(* sys_close(), and filewrite() of a file that has no block yet.           *)
Close(p) ==
    /\ At(p, "user") /\ ofile[p] # 0
    /\ ofile' = [ofile EXCEPT ![p] = 0]
    /\ loc' = [loc EXCEPT ![p].puts = <<ofile[p]>>]
    /\ UNCHANGED <<pc, icache, disk>>

Filewrite(p) ==
    LET s == ofile[p]
        c == [icache EXCEPT ![s].addr = Balloc(bitmap)] IN
    /\ At(p, "user") /\ s # 0 /\ Unlocked(s)
    /\ icache[s].type = "file" /\ icache[s].addr = 0 /\ CanBalloc
    /\ icache' = c
    /\ dinode' = Iupdate(dinode, c, s)
    /\ bitmap' = bitmap \cup {c[s].addr}
    /\ entry' = [entry EXCEPT ![c[s].addr] = NoEntries]
    /\ UNCHANGED <<pc, loc, ofile>>

-----------------------------------------------------------------------------
(* create(): under the lock of dp the name is looked up and, if there is   *)
(* none, an inode allocated.                                               *)

Type(r) == CASE r.op = "mkdir" -> "dir" [] r.op = "mknod" -> "dev" [] OTHER -> "file"

CreateLookup(p) ==
    LET r == loc[p]
        c == Ilock(icache, r.dp, p)
        i == Dirlookup(c, r.dp, Head(r.path))
        free == {n \in Inums : dinode[n].type = "none"} IN
    /\ At(p, "create") /\ Unlocked(r.dp)
    /\ \/ /\ i # 0 /\ CanIget(c, i)
          /\ icache' = Iunlock(Iget(c, i), r.dp)
          /\ Step(p, "found", [r EXCEPT !.dp = 0, !.ip = Slot(c, i), !.puts = <<r.dp>>])
          /\ UNCHANGED dinode
       \/ /\ i = 0 /\ free # {}                          \* else panic
          /\ icache' = c
          /\ dinode' = [dinode EXCEPT ![Least(free)].type = Type(r)]
          /\ Step(p, "ialloc", [r EXCEPT !.inum = Least(free)])
    /\ UNCHANGED <<ofile, bitmap, entry>>

(* The inode that was found is opened if it and the call are for a file.   *)
CreateFound(p) ==
    LET r == loc[p]
        c == Ilock(icache, r.ip, p) IN
    /\ At(p, "found") /\ Unlocked(r.ip)
    /\ \/ r.op = "create" /\ c[r.ip].type = "file" /\ Opened(p, c, r.ip)
       \/ Dropped(p, c, r.ip)
    /\ UNCHANGED disk

(* The end of ialloc(), which is iget(). *)
IallocIget(p) ==
    LET r == loc[p] IN
    /\ At(p, "ialloc") /\ CanIget(icache, r.inum)
    /\ icache' = Iget(icache, r.inum)
    /\ Step(p, "new", [r EXCEPT !.ip = Slot(icache, r.inum), !.inum = 0])
    /\ UNCHANGED <<ofile, disk>>

(* The new inode gets its link and its entry; a directory, a block for its *)
(* dots, and dp a link for the one that names it.  dp is released, and put *)
(* with the lock of the new inode still held.                              *)
NewLinks(c, r) == [c EXCEPT ![r.ip].nlink = 1,
                            ![r.dp].nlink = IF r.op = "mkdir" THEN @ + 1 ELSE @]

CreateNew(p) ==
    LET r == loc[p]
        dots == IF r.op = "mkdir" THEN Balloc(bitmap) ELSE 0
        c == [NewLinks(Ilock(icache, r.ip, p), r) EXCEPT ![r.ip].addr = dots] IN
    /\ At(p, "new") /\ Unlocked(r.ip)
    /\ r.op = "mkdir" => CanBalloc
    /\ icache' = Iunlock(c, r.dp)
    /\ dinode' = Iupdate(Iupdate(dinode, c, r.ip), c, r.dp)
    /\ bitmap' = bitmap \cup ({dots} \ {0})
    /\ entry' = [b \in Blocks |->
                    IF b = dots THEN NoEntries
                    ELSE IF b = c[r.dp].addr
                    THEN [entry[b] EXCEPT ![Head(r.path)] = c[r.ip].inum]
                    ELSE entry[b]]
    /\ Step(p, "created", [r EXCEPT !.dp = 0, !.puts = <<r.dp>>])
    /\ UNCHANGED ofile

(* sys_open() opens it; sys_mkdir() and sys_mknod() unlock and put it. *)
Created(p) ==
    /\ At(p, "created")
    /\ \/ loc[p].op = "create" /\ Opened(p, icache, loc[p].ip)
       \/ Dropped(p, icache, loc[p].ip)
    /\ UNCHANGED disk

-----------------------------------------------------------------------------
(* sys_unlink(): the lock of ip is taken while that of dp is held.         *)

UnlinkLookup(p) ==
    LET r == loc[p]
        c == Ilock(icache, r.dp, p)
        i == Dirlookup(c, r.dp, Head(r.path)) IN
    /\ At(p, "unlink") /\ Unlocked(r.dp)
    /\ \/ i = 0 /\ Dropped(p, c, r.dp)
       \/ /\ i # 0 /\ CanIget(c, i)
          /\ icache' = Iget(c, i)
          /\ Step(p, "unlink_ip", [r EXCEPT !.ip = Slot(c, i)])
          /\ UNCHANGED ofile
    /\ UNCHANGED disk

Isdirempty(c, s) == entry[c[s].addr] = NoEntries

(* The entry is cleared; dp is released, and put with the lock of ip held. *)
UnlinkEntry(p) ==
    LET r == loc[p]
        c == Ilock(icache, r.ip, p)
        isdir == c[r.ip].type = "dir"
        d == IF isdir THEN [c EXCEPT ![r.dp].nlink = @ - 1] ELSE c IN
    /\ At(p, "unlink_ip") /\ Unlocked(r.ip)
    /\ c[r.ip].nlink >= 1                                \* else panic
    /\ IF isdir /\ ~Isdirempty(c, r.ip)
       THEN /\ icache' = Iunlock(c, r.ip)
            /\ Step(p, "unlink_bad", [r EXCEPT !.ip = 0, !.puts = <<r.ip>>])
            /\ UNCHANGED <<dinode, entry>>
       ELSE /\ icache' = Iunlock(d, r.dp)
            /\ dinode' = Iupdate(dinode, d, r.dp)
            /\ entry' = [entry EXCEPT ![d[r.dp].addr][Head(r.path)] = 0]
            /\ Step(p, "unlinked", [r EXCEPT !.dp = 0, !.puts = <<r.dp>>])
    /\ UNCHANGED <<ofile, bitmap>>

UnlinkBad(p) ==
    /\ At(p, "unlink_bad")
    /\ Dropped(p, icache, loc[p].dp)
    /\ UNCHANGED disk

OneLess(c, s) == [c EXCEPT ![s].nlink = @ - 1]

Unlinked(p) ==
    LET s == loc[p].ip
        c == OneLess(icache, s) IN
    /\ At(p, "unlinked")
    /\ dinode' = Iupdate(dinode, c, s)
    /\ Dropped(p, c, s)
    /\ UNCHANGED <<bitmap, entry>>

-----------------------------------------------------------------------------
(* sys_link(): the link is counted before the entry exists.                *)

BugOneMore(c, s) == c                                    \* mutant: counted too late
OneMore(c, s) == [c EXCEPT ![s].nlink = @ + 1]

LinkCount(p) ==
    LET r == loc[p]
        c == Ilock(icache, r.ip, p)
        d == OneMore(c, r.ip) IN
    /\ At(p, "link") /\ Unlocked(r.ip)
    /\ \/ /\ c[r.ip].type = "dir"
          /\ Dropped(p, c, r.ip)
          /\ UNCHANGED dinode
       \/ /\ c[r.ip].type # "dir"
          /\ c[r.ip].nlink < MaxLinks
          /\ icache' = Iunlock(d, r.ip)
          /\ dinode' = Iupdate(dinode, d, r.ip)
          /\ Step(p, "link_root", r)
          /\ UNCHANGED ofile
    /\ UNCHANGED <<bitmap, entry>>

LinkRoot(p) ==
    /\ At(p, "link_root") /\ CanIget(icache, ROOTINO)
    /\ icache' = Iget(icache, ROOTINO)
    /\ Step(p, "namex", [loc[p] EXCEPT !.op = "link_new", !.path = loc[p].new, !.new = <<>>,
                                       !.at = Slot(icache, ROOTINO)])
    /\ UNCHANGED <<ofile, disk>>

(* dirlink(): if the name exists, what it names is put with dp locked.     *)
LinkEntry(p) ==
    LET r == loc[p]
        c == Ilock(icache, r.dp, p)
        i == Dirlookup(c, r.dp, Head(r.path)) IN
    /\ At(p, "link_new") /\ Unlocked(r.dp)
    /\ \/ /\ i # 0 /\ CanIget(c, i)
          /\ icache' = Iget(c, i)
          /\ Step(p, "link_exists", [r EXCEPT !.puts = <<Slot(c, i)>>])
          /\ UNCHANGED entry
       \/ /\ i = 0
          /\ icache' = Iunlock(c, r.dp)
          /\ entry' = [entry EXCEPT ![c[r.dp].addr][Head(r.path)] = c[r.ip].inum]
          /\ Step(p, "user", [NoLocals EXCEPT !.puts = <<r.dp, r.ip>>])
    /\ UNCHANGED <<ofile, dinode, bitmap>>

LinkExists(p) ==
    /\ At(p, "link_exists")
    /\ icache' = Iunlock(icache, loc[p].dp)
    /\ Step(p, "link_bad", [loc[p] EXCEPT !.dp = 0, !.puts = <<loc[p].dp>>])
    /\ UNCHANGED <<ofile, disk>>

LinkBad(p) ==
    LET s == loc[p].ip
        c == OneLess(Ilock(icache, s, p), s) IN
    /\ At(p, "link_bad") /\ Unlocked(s)
    /\ dinode' = Iupdate(dinode, c, s)
    /\ Dropped(p, c, s)
    /\ UNCHANGED <<bitmap, entry>>

-----------------------------------------------------------------------------
PutStep(p)    == IputFree(p) \/ IputRef(p)
PathStep(p)   == CallStart(p) \/ Namex(p)
FileStep(p)   == Open(p) \/ Close(p) \/ Filewrite(p)
CreateStep(p) == \/ CreateLookup(p) \/ CreateFound(p) \/ IallocIget(p)
                 \/ CreateNew(p) \/ Created(p)
UnlinkStep(p) == UnlinkLookup(p) \/ UnlinkEntry(p) \/ UnlinkBad(p) \/ Unlinked(p)
LinkStep(p)   == LinkCount(p) \/ LinkRoot(p) \/ LinkEntry(p) \/ LinkExists(p) \/ LinkBad(p)

Next == \E p \in Procs : \/ PutStep(p) \/ PathStep(p) \/ FileStep(p)
                         \/ CreateStep(p) \/ UnlinkStep(p) \/ LinkStep(p)

Spec == Init /\ [][Next]_vars

-----------------------------------------------------------------------------
Used(s)  == icache[s].ref > 0
Alloc    == {i \in Inums : dinode[i].type # "none"}

(* Type invariant.  The count of links on disk only stays a natural number *)
(* because of what the calls do (LinksHeld).                               *)
Places == {"user", "namex", "open", "create", "found", "ialloc", "new", "created",
           "unlink", "unlink_ip", "unlink_bad", "unlinked",
           "link", "link_root", "link_new", "link_exists", "link_bad"}

CacheType == [Slots -> [inum : 0 .. NINODES, ref : Nat, lock : Procs \cup {None},
                        valid : BOOLEAN, type : Types \cup {"none"}, nlink : Nat,
                        addr : 0 .. NBLOCKS]]
DiskType  == [Inums -> [type : Types \cup {"none"}, nlink : Nat, addr : 0 .. NBLOCKS]]
LocType   == [op : Calls \cup {"", "link_new"}, path : Seq(Names), new : Seq(Names),
              at : 0 .. NINODE, ip : 0 .. NINODE, dp : 0 .. NINODE, inum : 0 .. NINODES,
              puts : Seq(Slots), unref : 0 .. NINODE]

TypeOK ==
    /\ pc \in [Procs -> Places] /\ loc \in [Procs -> LocType]
    /\ ofile \in [Procs -> 0 .. NINODE]
    /\ icache \in CacheType /\ dinode \in DiskType
    /\ bitmap \subseteq Blocks
    /\ entry \in [Blocks -> [Names -> 0 .. NINODES]]

(* ip->ref is the number of pointers to the entry ("ip->ref tracks the     *)
(* number of in-memory pointers to the entry", fs.c).  A call has at most  *)
(* two to put: the one that comes last and the one before it.              *)
Fields == {"ofile", "at", "ip", "dp", "unref", "last", "before"}

Pointer(p, f) ==
    LET puts == loc[p].puts IN
    CASE f = "ofile" -> ofile[p]
      [] f = "at" -> loc[p].at
      [] f = "ip" -> loc[p].ip
      [] f = "dp" -> loc[p].dp
      [] f = "unref" -> loc[p].unref
      [] f = "last" -> IF puts = <<>> THEN 0 ELSE puts[Len(puts)]
      [] f = "before" -> IF Len(puts) = 2 THEN puts[1] ELSE 0

Pointers(s) == {x \in Procs \X Fields : Pointer(x[1], x[2]) = s}

RefCounts ==
    /\ \A s \in Slots :
          icache[s].ref = Cardinality(Pointers(s)) + IF s = Cwd THEN 1 ELSE 0
    /\ \A p \in Procs : Len(loc[p].puts) <= 2

(* What an open file or a call refers to is not a free inode: ilock() does *)
(* not panic, "ilock: no type", nor dirlookup(), "dirlookup not DIR".      *)
RefAllocated == \A p \in Procs :
    /\ \A s \in {ofile[p], loc[p].at, loc[p].ip} \ {0} : icache[s].inum \in Alloc
    /\ loc[p].dp # 0 => dinode[icache[loc[p].dp].inum].type = "dir"

(* An inode has one entry in the cache, and a valid entry is what is on    *)
(* disk ("i-node cache is write-through", fs.c).                           *)
CacheCoherent ==
    /\ \A s, t \in Slots : Used(s) /\ Used(t) /\ icache[s].inum = icache[t].inum => s = t
    /\ \A s \in Slots : Used(s) /\ icache[s].valid =>
          dinode[icache[s].inum] = Content(icache[s])

(* A name leads to an allocated inode, which counts at least as many links *)
(* as there are names for it.                                              *)
Dirs == {i \in Alloc : dinode[i].type = "dir" /\ dinode[i].addr # 0}
NamesOf(i) == {dn \in {dinode[d].addr : d \in Dirs} \X Names : entry[dn[1]][dn[2]] = i}

LinksCovered == \A i \in Inums :
    /\ NamesOf(i) # {} => i \in Alloc
    /\ Cardinality(NamesOf(i)) <= dinode[i].nlink

(* The blocks in use are those of the allocated inodes, one owner each.    *)
BlocksOwned ==
    /\ bitmap = {dinode[i].addr : i \in Alloc} \ {0}
    /\ \A i, j \in Alloc : dinode[i].addr = dinode[j].addr /\ dinode[i].addr # 0 => i = j

(* An inode without links is free, or somebody refers to it and will free  *)
(* it ("If that was the last reference and the inode has no links to it,   *)
(* free the inode", fs.c), or a call is creating it.                       *)
OrphansFreed == \A i \in Alloc : dinode[i].nlink = 0 =>
    \/ \E s \in Slots : Used(s) /\ icache[s].inum = i
    \/ \E p \in Procs : loc[p].inum = i

(* The entry whose lock p needs, and no set of processes that all need a   *)
(* lock that one of them holds.                                            *)
Needs(p) ==
    LET r == loc[p] IN
    IF r.unref # 0 THEN 0
    ELSE IF r.puts # <<>> THEN Head(r.puts)
    ELSE CASE pc[p] = "namex" -> r.at
           [] pc[p] \in {"create", "unlink", "link_new"} -> r.dp
           [] pc[p] \in {"open", "found", "new", "unlink_ip", "link", "link_bad"} -> r.ip
           [] OTHER -> 0

NoDeadlock == ~\E S \in SUBSET Procs :
    S # {} /\ \A p \in S : Needs(p) # 0 /\ icache[Needs(p)].lock \in S

-----------------------------------------------------------------------------
(* The inductive invariant behind these.  Where a call is says which       *)
(* pointers it has, and which lock.                                        *)
HasIp == {"open", "found", "new", "created", "unlink_ip", "unlinked",
          "link", "link_root", "link_new", "link_exists", "link_bad"}
HasDp == {"create", "ialloc", "new", "unlink", "unlink_ip", "unlink_bad",
          "link_new", "link_exists"}
DpLocked == {"ialloc", "new", "unlink_ip", "unlink_bad", "link_exists"}
IpLocked == {"created", "unlinked"}
Making   == {"create", "found", "ialloc", "new", "created"}
Named    == {"namex", "create", "ialloc", "new", "unlink", "unlink_ip", "link_new"}

(* The link that link() has counted already, or unlink() counts still. *)
Credit(p) == \/ pc[p] \in {"link_root", "link_new", "link_exists", "link_bad", "unlinked"}
             \/ pc[p] = "namex" /\ loc[p].op = "link_new"

CallOK(p) ==
    LET r == loc[p] IN
    /\ r.at # 0 <=> pc[p] = "namex"
    /\ r.ip # 0 <=> pc[p] \in HasIp \/ Credit(p)
    /\ r.dp # 0 <=> pc[p] \in HasDp
    /\ r.inum # 0 <=> pc[p] = "ialloc"
    /\ pc[p] \in Named => r.path # <<>>
    /\ pc[p] = "namex" => r.op # "" /\ (r.op = "link" => r.new # <<>>)
    /\ pc[p] \in {"link", "link_root"} => r.new # <<>>
    /\ pc[p] \in Making => r.op \in {"create", "mkdir", "mknod"}
    /\ pc[p] = "open" => r.op = "open"
    /\ pc[p] # "user" /\ r.op \in {"open", "create"} => ofile[p] = 0
    /\ pc[p] # "user" => Len(r.puts) <= 1
    /\ pc[p] \in {"ialloc", "new"} => r.puts = <<>> /\ r.unref = 0

LockOK(p) ==
    /\ pc[p] \in DpLocked => icache[loc[p].dp].lock = p /\ icache[loc[p].dp].valid
    /\ pc[p] \in IpLocked => icache[loc[p].ip].lock = p /\ icache[loc[p].ip].valid
    /\ ofile[p] # 0 => icache[ofile[p]].valid

(* The number of the inode behind a pointer, or 0.  One that iput() has    *)
(* unlocked is not used any more.                                          *)
Inum(p, f) == IF Pointer(p, f) = 0 \/ f = "unref" THEN 0 ELSE icache[Pointer(p, f)].inum

(* p is creating inode i: it has the only pointer. *)
Creating(p, i) == \/ pc[p] = "ialloc" /\ loc[p].inum = i
                  \/ pc[p] = "new" /\ Inum(p, "ip") = i

FreshOK == \A p \in Procs, i \in Inums : Creating(p, i) =>
    /\ dinode[i] = [FreeInode EXCEPT !.type = Type(loc[p])]
    /\ \A q \in Procs : Creating(q, i) => q = p
    /\ \A q \in Procs, f \in Fields : Inum(q, f) = i => q = p /\ f = "ip"

IsDir(i) == dinode[i].type = "dir"

PointerOK(p) ==
    /\ \A f \in Fields : f # "unref" /\ Pointer(p, f) # 0 => Inum(p, f) \in Alloc
    /\ loc[p].dp # 0 => IsDir(Inum(p, "dp"))
    /\ Credit(p) /\ pc[p] # "unlinked" => ~IsDir(Inum(p, "ip"))

(* The root is there, unused inodes are clean, directories have a block,   *)
(* and what is used in the cache has a number.                             *)
InodesOK ==
    /\ icache[Cwd].inum = ROOTINO /\ ROOTINO \in Dirs
    /\ \A i \in Inums \ Alloc : dinode[i] = FreeInode
    /\ \A i \in Alloc : IsDir(i) => i \in Dirs \/ \E p \in Procs : Creating(p, i)
    /\ \A s \in Slots : Used(s) => icache[s].inum \in Inums
    /\ \A s \in Slots : Used(s) /\ icache[s].valid => icache[s].inum \in Alloc

(* The links of inode i: its names, the directories in it, and those that  *)
(* calls have counted or not yet given back.                               *)
Subdirs(i) == {n \in Names : /\ i \in Dirs
                             /\ entry[dinode[i].addr][n] # 0
                             /\ IsDir(entry[dinode[i].addr][n])}
Credits(i) == {p \in Procs : Credit(p) /\ Inum(p, "ip") = i}

LinksHeld == \A i \in Inums :
    Cardinality(NamesOf(i)) + Cardinality(Subdirs(i)) + Cardinality(Credits(i)) <= dinode[i].nlink

(* The entry that unlink() has found is there until it clears it. *)
UnlinkOK == \A p \in Procs : pc[p] = "unlink_ip" =>
    entry[dinode[Inum(p, "dp")].addr][Head(loc[p].path)] = Inum(p, "ip")

ProcsOK == \A p \in Procs : CallOK(p) /\ LockOK(p) /\ PointerOK(p)

InodeInv == /\ TypeOK /\ RefCounts /\ ProcsOK /\ FreshOK /\ InodesOK /\ CacheCoherent
            /\ LinksHeld /\ BlocksOwned /\ UnlinkOK
=============================================================================
