-------------------------------- MODULE Pipe --------------------------------
(***************************************************************************)
(* Pipes (xv6-public/pipe.c), the table of open files (file.c) and the     *)
(* descriptors of processes (sysfile.c; fork and exit in proc.c).          *)
(*                                                                         *)
(* A step is a section under ftable.lock or under the lock of one pipe.    *)
(* kill() takes neither, so that between the test of killed and the sleep  *)
(* of a reader or writer, which has the pipe's lock, there is a step.      *)
(* A killed process makes no further call: it exits (trap.c).              *)
(***************************************************************************)
EXTENDS Integers, Sequences, FiniteSets

CONSTANTS
    Procs,        \* process slots
    Pipes,        \* pages that may hold a pipe
    Bytes,        \* what a process may write
    NFILE,        \* entries of ftable
    NOFILE,       \* descriptors of a process
    PIPESIZE,     \* bytes that a pipe holds
    Counts,       \* nread and nwrite count modulo this, 2^32 in the code
    Sizes,        \* BOUND: numbers of bytes that a read or write call asks for
    None          \* no process, file, pipe

ASSUME PipeAssumption ==
    /\ NFILE \in Nat \ {0} /\ NOFILE \in Nat \ {0} /\ Sizes \subseteq Nat \ {0}
    /\ IsFiniteSet(Procs)
    /\ None \notin Pipes /\ None \notin 1 .. NFILE

(* pipe.c relies on this for indices taken modulo PIPESIZE of wrapping counts. *)
ASSUME RingAssumption ==
    /\ Counts \in Nat /\ PIPESIZE \in Nat \ {0}
    /\ PIPESIZE < Counts /\ Counts % PIPESIZE = 0

VARIABLES
    pc,           \* pc[p]: where process p is
    killed,       \* killed[p]
    ofile,        \* ofile[p]: the file behind each descriptor of p
    closing,      \* closing[p]: the files that the call of p may have to close
    cur,          \* cur[p]: the file that p works on, as it has copied it
    left,         \* left[p]: bytes that the call of p has still to write or read
    child,        \* child[p]: the process that p forks
    file,         \* ftable.file
    pipe          \* the pipes; None is a page that holds none

calls == <<closing, cur, left, child>>
vars  == <<pc, killed, ofile, calls, file, pipe>>

Files == 1 .. NFILE
Fds   == 1 .. NOFILE

(* A file, one that is an end of a pipe, and a page that holds a pipe.     *)
Entry == [ref : Nat, type : {"none", "pipe", "inode"}, writable : BOOLEAN,
          pipe : Pipes \cup {None}]
OpenEnd == [ref : Nat, type : {"pipe"}, writable : BOOLEAN, pipe : Pipes]
Page == [data : [0 .. PIPESIZE - 1 -> Bytes \cup {None}], nread : 0 .. Counts - 1,
         nwrite : 0 .. Counts - 1, readopen : BOOLEAN, writeopen : BOOLEAN, cut : BOOLEAN]

ASSUME NoneAssumption == None \notin OpenEnd /\ None \notin Page

Closed == [ref |-> 0, type |-> "none", writable |-> FALSE, pipe |-> None]

(* init has opened the console, a file of another kind (init.c). *)
Console == [ref |-> 1, type |-> "inode", writable |-> TRUE, pipe |-> None]

Init ==
    /\ \E p \in Procs :
          /\ pc = [q \in Procs |-> IF q = p THEN "user" ELSE "unused"]
          /\ ofile = [q \in Procs |-> [d \in Fds |-> IF q = p /\ d = 1 THEN 1 ELSE None]]
    /\ killed = [p \in Procs |-> FALSE]
    /\ closing = [p \in Procs |-> <<>>]
    /\ cur = [p \in Procs |-> None] /\ left = [p \in Procs |-> 0]
    /\ child = [p \in Procs |-> None]
    /\ file = [f \in Files |-> IF f = 1 THEN Console ELSE Closed]
    /\ pipe = [k \in Pipes |-> None]

Goto(p, l) == pc' = [pc EXCEPT ![p] = l]

(* A process in user code that has not been killed. *)
Running(p) == pc[p] = "user" /\ ~killed[p]

Least(S) == CHOOSE i \in S : \A j \in S : i <= j

FreeFds(p) == {d \in Fds : ofile[p][d] = None}

-----------------------------------------------------------------------------
(* sys_pipe() and pipealloc(): two files, a page, two descriptors.         *)

FreeFiles == {f \in Files : file[f].ref = 0}

Filealloc == [file EXCEPT ![Least(FreeFiles)].ref = 1]

PipeStart(p) ==
    /\ Running(p) /\ FreeFiles # {}                      \* else -1
    /\ file' = Filealloc
    /\ closing' = [closing EXCEPT ![p] = <<Least(FreeFiles)>>]
    /\ Goto(p, "pipealloc")
    /\ UNCHANGED <<killed, ofile, cur, left, child, pipe>>

PipeSecond(p) ==
    /\ pc[p] = "pipealloc" /\ Len(closing[p]) = 1
    /\ \/ /\ FreeFiles # {}
          /\ file' = Filealloc
          /\ closing' = [closing EXCEPT ![p] = Append(@, Least(FreeFiles))]
          /\ pc' = pc
       \/ /\ FreeFiles = {}
          /\ Goto(p, "closing")
          /\ UNCHANGED <<file, closing>>
    /\ UNCHANGED <<killed, ofile, cur, left, child, pipe>>

(* cut is history: a killed writer has filled the pipe and woken nobody.   *)
NewPipe == [data |-> [i \in 0 .. PIPESIZE - 1 |-> None],
            nread |-> 0, nwrite |-> 0, readopen |-> TRUE, writeopen |-> TRUE,
            cut |-> FALSE]

End(w, k) == [ref |-> 1, type |-> "pipe", writable |-> w, pipe |-> k]

(* With less than two descriptors free, both files are closed again. *)
PipeReady(p) ==
    /\ pc[p] = "pipealloc" /\ Len(closing[p]) = 2
    /\ \E k \in Pipes :
          /\ pipe[k] = None
          /\ pipe' = [pipe EXCEPT ![k] = NewPipe]
          /\ file' = [file EXCEPT ![closing[p][1]] = End(FALSE, k),
                                  ![closing[p][2]] = End(TRUE, k)]
    /\ IF Cardinality(FreeFds(p)) >= 2
       THEN LET d == Least(FreeFds(p))
                e == Least(FreeFds(p) \ {d}) IN
            /\ ofile' = [ofile EXCEPT ![p][d] = closing[p][1], ![p][e] = closing[p][2]]
            /\ closing' = [closing EXCEPT ![p] = <<>>]
            /\ Goto(p, "user")
       ELSE /\ Goto(p, "closing")
            /\ UNCHANGED <<ofile, closing>>
    /\ UNCHANGED <<killed, cur, left, child>>

(* kalloc() may fail whether or not a page is left for the model. *)
PipeNoPage(p) ==
    /\ pc[p] = "pipealloc" /\ Len(closing[p]) = 2
    /\ Goto(p, "closing")
    /\ UNCHANGED <<killed, ofile, calls, file, pipe>>

-----------------------------------------------------------------------------
(* sys_dup(), sys_close(), and the files in fork() and exit().             *)

Filedup(f) == [file EXCEPT ![f].ref = @ + 1]

Dup(p) ==
    /\ Running(p) /\ FreeFds(p) # {}                     \* else -1
    /\ \E d \in Fds \ FreeFds(p) :
          /\ ofile' = [ofile EXCEPT ![p][Least(FreeFds(p))] = ofile[p][d]]
          /\ file' = Filedup(ofile[p][d])
    /\ UNCHANGED <<pc, killed, calls, pipe>>

Close(p) ==
    /\ Running(p)
    /\ \E d \in Fds \ FreeFds(p) :
          /\ closing' = [closing EXCEPT ![p] = <<ofile[p][d]>>]
          /\ ofile' = [ofile EXCEPT ![p][d] = None]
    /\ Goto(p, "closing")
    /\ UNCHANGED <<killed, cur, left, child, file, pipe>>

(* fork() copies the descriptors one at a time to a new process, which     *)
(* runs when they are all there.                                           *)
Fork(p) ==
    /\ Running(p)
    /\ \E c \in Procs :
          /\ pc[c] = "unused"
          /\ child' = [child EXCEPT ![p] = c]
          /\ pc' = [pc EXCEPT ![p] = "fork", ![c] = "embryo"]
    /\ UNCHANGED <<killed, ofile, closing, cur, left, file, pipe>>

BugForkDup(f) == file                                    \* mutant: shared, not counted
ForkDup(f) == Filedup(f)

Uncopied(p) == {d \in Fds : ofile[p][d] # None /\ ofile[child[p]][d] = None}

ForkFile(p) ==
    /\ pc[p] = "fork" /\ Uncopied(p) # {}
    /\ LET d == Least(Uncopied(p)) IN
          /\ ofile' = [ofile EXCEPT ![child[p]][d] = ofile[p][d]]
          /\ file' = ForkDup(ofile[p][d])
    /\ UNCHANGED <<pc, killed, calls, pipe>>

ForkReady(p) ==
    /\ pc[p] = "fork" /\ Uncopied(p) = {}
    /\ pc' = [pc EXCEPT ![p] = "user", ![child[p]] = "user"]
    /\ child' = [child EXCEPT ![p] = None]
    /\ UNCHANGED <<killed, ofile, closing, cur, left, file, pipe>>

(* exit() closes every descriptor in turn; the slot is free when the       *)
(* parent has waited.                                                      *)
Exit(p) ==
    /\ pc[p] = "user"
    /\ Goto(p, "exit")
    /\ UNCHANGED <<killed, ofile, calls, file, pipe>>

ExitFile(p) ==
    /\ pc[p] = "exit" /\ closing[p] = <<>> /\ cur[p] = None /\ FreeFds(p) # Fds
    /\ LET d == Least(Fds \ FreeFds(p)) IN
          /\ closing' = [closing EXCEPT ![p] = <<ofile[p][d]>>]
          /\ ofile' = [ofile EXCEPT ![p][d] = None]
    /\ UNCHANGED <<pc, killed, cur, left, child, file, pipe>>

Exited(p) ==
    /\ pc[p] = "exit" /\ closing[p] = <<>> /\ cur[p] = None /\ FreeFds(p) = Fds
    /\ Goto(p, "unused")
    /\ killed' = [killed EXCEPT ![p] = FALSE]
    /\ UNCHANGED <<ofile, calls, file, pipe>>

-----------------------------------------------------------------------------
(* fileclose(): the last reference frees the entry of ftable; what it held *)
(* is closed after that, from a copy.                                      *)

Fileclose(p) ==
    /\ pc[p] \in {"closing", "exit"} /\ closing[p] # <<>> /\ cur[p] = None
    /\ LET f == Head(closing[p]) IN
          IF file[f].ref > 1
          THEN /\ file' = [file EXCEPT ![f].ref = @ - 1]
               /\ UNCHANGED cur
          ELSE /\ file' = [file EXCEPT ![f] = Closed]
               /\ cur' = [cur EXCEPT ![p] = IF file[f].type = "pipe" THEN file[f] ELSE None]
    /\ closing' = [closing EXCEPT ![p] = Tail(@)]
    /\ UNCHANGED <<pc, killed, ofile, left, child, pipe>>

CloseDone(p) ==
    /\ pc[p] = "closing" /\ closing[p] = <<>> /\ cur[p] = None
    /\ Goto(p, "user")
    /\ UNCHANGED <<killed, ofile, calls, file, pipe>>

(* Somebody has the lock of pipe k and is about to sleep. *)
Locked(k) == \E q \in Procs : pc[q] \in {"rsleeping", "wsleeping"} /\ cur[q].pipe = k

(* wakeup(&p->nread) and wakeup(&p->nwrite). *)
BugReadersWoken(k) == pc                                 \* mutant: wakeup forgotten
ReadersWoken(k) == [q \in Procs |-> IF pc[q] = "rsleep" /\ cur[q].pipe = k
                                    THEN "read" ELSE pc[q]]
WritersWoken(k) == [q \in Procs |-> IF pc[q] = "wsleep" /\ cur[q].pipe = k
                                    THEN "write" ELSE pc[q]]

(* pipeclose(): the last end frees the page. *)
BugAfterClose(q) == IF ~q.readopen THEN None ELSE q      \* mutant: the reader frees it
AfterClose(q) == IF ~q.readopen /\ ~q.writeopen THEN None ELSE q

Pipeclose(p) ==
    /\ pc[p] \in {"closing", "exit"} /\ cur[p] # None /\ ~Locked(cur[p].pipe)
    /\ LET k == cur[p].pipe IN
       IF cur[p].writable
       THEN /\ pipe' = [pipe EXCEPT ![k] = AfterClose([@ EXCEPT !.writeopen = FALSE])]
            /\ pc' = ReadersWoken(k)
       ELSE /\ pipe' = [pipe EXCEPT ![k] = AfterClose([@ EXCEPT !.readopen = FALSE])]
            /\ pc' = WritersWoken(k)
    /\ cur' = [cur EXCEPT ![p] = None]
    /\ UNCHANGED <<killed, ofile, closing, left, child, file>>

-----------------------------------------------------------------------------
(* piperead() and pipewrite(), through sys_read() and sys_write().         *)

Call(p, w, l) ==
    /\ Running(p)
    /\ \E d \in Fds \ FreeFds(p) :
          /\ file[ofile[p][d]].type = "pipe" /\ file[ofile[p][d]].writable = w
          /\ cur' = [cur EXCEPT ![p] = [file[ofile[p][d]] EXCEPT !.ref = 1]]
    /\ \E n \in Sizes : left' = [left EXCEPT ![p] = n]
    /\ Goto(p, l)
    /\ UNCHANGED <<killed, ofile, closing, child, file, pipe>>

ReadCall(p)  == Call(p, FALSE, "read")
WriteCall(p) == Call(p, TRUE, "write")

Return(p) == /\ cur' = [cur EXCEPT ![p] = None]
             /\ left' = [left EXCEPT ![p] = 0]

Used(q) == (q.nwrite - q.nread) % Counts
Lesser(a, b) == IF a < b THEN a ELSE b

(* The loop of piperead() around sleep: "pipe-empty". *)
PipereadEmpty(p) ==
    LET q == pipe[cur[p].pipe] IN
    /\ pc[p] = "read" /\ ~Locked(cur[p].pipe)
    /\ q.nread = q.nwrite /\ q.writeopen
    /\ IF killed[p] THEN Goto(p, "user") /\ Return(p)
       ELSE Goto(p, "rsleeping") /\ UNCHANGED <<cur, left>>
    /\ UNCHANGED <<killed, ofile, closing, child, file, pipe>>

Piperead(p) ==
    LET k == cur[p].pipe
        q == pipe[k]
        n == Lesser(left[p], Used(q)) IN
    /\ pc[p] = "read" /\ ~Locked(k)
    /\ q.nread # q.nwrite \/ ~q.writeopen
    /\ pipe' = [pipe EXCEPT ![k].nread = (@ + n) % Counts]
    /\ pc' = [WritersWoken(k) EXCEPT ![p] = "user"]
    /\ Return(p)
    /\ UNCHANGED <<killed, ofile, closing, child, file>>

(* The bytes s after the last one of pipe q. *)
BugFilled(q, s) ==
    [q EXCEPT !.data = [i \in 0 .. PIPESIZE - 1 |->
                          IF i < Len(s) THEN s[i + 1] ELSE @[i]],
              !.nwrite = (@ + Len(s)) % Counts]          \* mutant: always from the start
BugFilledWide(q, s) == [q EXCEPT !.nwrite = @ + Len(s)]  \* mutant: does not wrap
Filled(q, s) ==
    LET At(i) == {j \in 1 .. Len(s) : (q.nwrite + j - 1) % PIPESIZE = i} IN
    [q EXCEPT !.data = [i \in 0 .. PIPESIZE - 1 |->
                          IF At(i) = {} THEN @[i] ELSE s[CHOOSE j \in At(i) : TRUE]],
              !.nwrite = (@ + Len(s)) % Counts]

(* What fits is written; with bytes left the writer sleeps, "pipe-full",   *)
(* unless nobody reads or it has been killed.                              *)
Pipewrite(p) ==
    LET k == cur[p].pipe
        q == pipe[k]
        n == Lesser(left[p], PIPESIZE - Used(q)) IN
    /\ pc[p] = "write" /\ ~Locked(k)
    /\ \E s \in [1 .. n -> Bytes] :
          pipe' = [pipe EXCEPT ![k] = [Filled(q, s) EXCEPT
                     !.cut = n < left[p] /\ killed[p] /\ (@ \/ n > 0)]]
    /\ \/ /\ n = left[p]
          /\ pc' = [ReadersWoken(k) EXCEPT ![p] = "user"]
          /\ Return(p)
       \/ /\ n < left[p] /\ (~q.readopen \/ killed[p])
          /\ Goto(p, "user")
          /\ Return(p)
       \/ /\ n < left[p] /\ q.readopen /\ ~killed[p]
          /\ pc' = [ReadersWoken(k) EXCEPT ![p] = "wsleeping"]
          /\ left' = [left EXCEPT ![p] = @ - n]
          /\ UNCHANGED cur
    /\ UNCHANGED <<killed, ofile, closing, child, file>>

(* sleep() gives up the lock of the pipe. *)
Sleep(p) ==
    /\ \/ pc[p] = "rsleeping" /\ Goto(p, "rsleep")
       \/ pc[p] = "wsleeping" /\ Goto(p, "wsleep")
    /\ UNCHANGED <<killed, ofile, calls, file, pipe>>

Readers == {"read", "rsleeping", "rsleep"}
Writers == {"write", "wsleeping", "wsleep"}

(* kill() of p by anybody: a sleeper is woken.  Killed outside read() and   *)
(* write(), p only exits sooner.                                           *)
Kill(p) ==
    /\ pc[p] \in Readers \cup Writers
    /\ ~killed[p]
    /\ killed' = [killed EXCEPT ![p] = TRUE]
    /\ pc' = [pc EXCEPT ![p] = CASE @ = "rsleep" -> "read" [] @ = "wsleep" -> "write"
                                 [] OTHER -> @]
    /\ UNCHANGED <<ofile, calls, file, pipe>>

-----------------------------------------------------------------------------
PipeStep(p)  == PipeStart(p) \/ PipeSecond(p) \/ PipeReady(p) \/ PipeNoPage(p)
FdStep(p)    == Dup(p) \/ Close(p) \/ Fileclose(p) \/ CloseDone(p) \/ Pipeclose(p)
ProcStep(p)  == Fork(p) \/ ForkFile(p) \/ ForkReady(p) \/ Exit(p) \/ ExitFile(p) \/ Exited(p)
IoStep(p)    == \/ ReadCall(p) \/ PipereadEmpty(p) \/ Piperead(p)
                \/ WriteCall(p) \/ Pipewrite(p) \/ Sleep(p)

Next == \E p \in Procs : PipeStep(p) \/ FdStep(p) \/ ProcStep(p) \/ IoStep(p) \/ Kill(p)

Spec == Init /\ [][Next]_vars

-----------------------------------------------------------------------------
Live   == {k \in Pipes : pipe[k] # None}

(* Type invariant. *)
TypeOK ==
    /\ pc \in [Procs -> {"unused", "embryo", "user", "fork", "exit", "pipealloc", "closing"}
                        \cup Readers \cup Writers]
    /\ killed \in [Procs -> BOOLEAN]
    /\ ofile \in [Procs -> [Fds -> Files \cup {None}]]
    /\ closing \in [Procs -> Seq(Files)]
    /\ cur \in [Procs -> {None} \cup OpenEnd]
    /\ left \in [Procs -> Nat]
    /\ child \in [Procs -> Procs \cup {None}]
    /\ file \in [Files -> Entry]
    /\ pipe \in [Pipes -> {None} \cup Page]

(* The count of each file is the number of descriptors and of calls in     *)
(* progress that refer to it (filealloc, filedup, fileclose).              *)
RefCounts ==
    \A f \in Files : file[f].ref =
        Cardinality({pd \in Procs \X Fds : ofile[pd[1]][pd[2]] = f})
        + Cardinality({pi \in Procs \X (1 .. 2) :
                         pi[2] <= Len(closing[pi[1]]) /\ closing[pi[1]][pi[2]] = f})

(* An end of a pipe is open exactly as long as a file refers to it or its  *)
(* last close is under way; a page without an open end has been freed.     *)
EndOpen(k, w) ==
    \/ \E f \in Files : file[f].ref > 0 /\ file[f].type = "pipe" /\ file[f].pipe = k
                        /\ file[f].writable = w
    \/ \E p \in Procs : pc[p] \in {"closing", "exit"} /\ cur[p] # None
                        /\ cur[p].pipe = k /\ cur[p].writable = w

EndsOpen == \A k \in Pipes :
    /\ k \in Live => /\ pipe[k].readopen = EndOpen(k, FALSE)
                     /\ pipe[k].writeopen = EndOpen(k, TRUE)
    /\ k \in Live <=> EndOpen(k, FALSE) \/ EndOpen(k, TRUE)

(* A reader sleeps only as long as the pipe is empty ("DOC: pipe-empty",   *)
(* pipe.c) and has a writer, a writer only as long as it is full and has a *)
(* reader: no wakeup is lost, but for the one that a killed writer owes.   *)
SleepersAwait == \A p \in Procs :
    LET q == pipe[cur[p].pipe] IN
    /\ pc[p] = "rsleep" => q.cut \/ (Used(q) = 0 /\ q.writeopen)
    /\ pc[p] = "wsleep" => Used(q) = PIPESIZE /\ q.readopen

(* Why the three hold, in parts that together are inductive.  What a       *)
(* process holds in each phase; a slot under construction has one parent.  *)
PhasesOK == \A p \in Procs :
    /\ pc[p] \in {"unused", "embryo", "user", "fork"} \cup Readers \cup Writers
          => closing[p] = <<>>
    /\ pc[p] \in {"unused", "embryo", "user", "fork", "pipealloc"} => cur[p] = None
    /\ pc[p] \in Readers => cur[p] # None /\ ~cur[p].writable
    /\ pc[p] \in Writers => cur[p] # None /\ cur[p].writable
    /\ pc[p] = "fork" => child[p] \in Procs /\ pc[child[p]] = "embryo"
    /\ Len(closing[p]) <= 2
    /\ pc[p] = "pipealloc" => Len(closing[p]) >= 1

ForksOK == \A p, q \in Procs :
    pc[p] = "fork" /\ pc[q] = "fork" /\ child[p] = child[q] => p = q

(* A free entry is of no type, nor is one that pipealloc() has just taken. *)
FilesOK ==
    /\ \A f \in Files : /\ file[f].ref = 0 => file[f].type = "none"
                        /\ file[f].type = "pipe" => file[f].pipe \in Pipes
    /\ \A p \in Procs : pc[p] = "pipealloc" =>
          \A i \in 1 .. Len(closing[p]) : /\ file[closing[p][i]].ref = 1
                                         /\ file[closing[p][i]].type = "none"

(* Each end of a pipe is in one file, or closed by one process.            *)
IsEnd(f, k, w) == file[f].type = "pipe" /\ file[f].pipe = k /\ file[f].writable = w
Closes(p, k, w) == pc[p] \in {"closing", "exit"} /\ cur[p] # None
                   /\ cur[p].pipe = k /\ cur[p].writable = w

EndsUnique == \A k \in Pipes, w \in BOOLEAN :
    /\ \A f, g \in Files : IsEnd(f, k, w) /\ IsEnd(g, k, w) => f = g
    /\ \A p, q \in Procs : Closes(p, k, w) /\ Closes(q, k, w) => p = q
    /\ \A f \in Files, p \in Procs : ~(IsEnd(f, k, w) /\ Closes(p, k, w))

(* Who reads or writes a pipe has a descriptor of that end.                *)
CallersOK == \A p \in Procs : pc[p] \in Readers \cup Writers =>
    \E d \in Fds : ofile[p][d] # None /\ IsEnd(ofile[p][d], cur[p].pipe, cur[p].writable)

(* A pipe is never overfull, and what a sleeper awaits holds from the test *)
(* on, under the lock of the pipe.                                         *)
AwaitOK ==
    /\ \A k \in Live : Used(pipe[k]) <= PIPESIZE
    /\ \A p \in Procs : LET q == pipe[cur[p].pipe] IN
          /\ pc[p] = "rsleeping" => Used(q) = 0 /\ q.writeopen
          /\ pc[p] = "wsleeping" => Used(q) = PIPESIZE /\ q.readopen

PipeInv == /\ TypeOK /\ RefCounts /\ PhasesOK /\ ForksOK /\ FilesOK
           /\ EndsOpen /\ EndsUnique /\ CallersOK /\ AwaitOK /\ SleepersAwait

(* Each pipe implements Channel. *)
Bytestream(q) == [i \in 1 .. Used(q) |-> q.data[(q.nread + i - 1) % PIPESIZE]]
Chan(k) == INSTANCE Channel WITH
    Capacity <- PIPESIZE,
    queue <- IF k \in Live THEN Bytestream(pipe[k]) ELSE <<>>,
    ends  <- IF k \in Live THEN {e \in {"read", "write"} :
                IF e = "read" THEN pipe[k].readopen ELSE pipe[k].writeopen} ELSE {}

ChannelSpec ==
    /\ \A k \in Pipes : Chan(k)!Init
    /\ [][\A k \in Pipes : [Chan(k)!Next]_(Chan(k)!cvars)]_pipe
=============================================================================
