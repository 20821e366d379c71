----------------------------- MODULE BufferProof -----------------------------
(***************************************************************************)
(* Proofs about Buffer, for every finite number of callers, every disk and *)
(* every number of buffers.                                                *)
(***************************************************************************)
EXTENDS Buffer, FiniteSetTheorems, SequenceTheorems, TLAPS

USE BufferAssumption DEF Bufs

Places == {"idle", "held", "brelse"} \cup Waiting \cup Io

(* The users of a buffer are finitely many; a buffer with a count of zero  *)
(* has none.                                                               *)
LEMMA UsersFinite ==
    ASSUME NEW b \in Bufs
    PROVE  IsFiniteSet(Users(b))
<1>1. Users(b) \in SUBSET Procs
  BY DEF Users
<1> QED BY <1>1, FS_Subset

LEMMA Unreferred ==
    ASSUME RefsOK, NEW b \in Bufs, refcnt[b] = 0, NEW p \in Procs, mine[p] = b
    PROVE  pc[p] = "idle"
<1>1. Users(b) = {}
  BY UsersFinite, FS_EmptySet DEF RefsOK
<1> QED BY <1>1 DEF Users

-----------------------------------------------------------------------------
(* The first request of the queue and the others.                          *)
LEMMA QueueHead ==
    ASSUME idequeue \in Seq(Bufs), idequeue # <<>>
    PROVE  /\ Len(idequeue) \in Nat /\ Len(idequeue) >= 1
           /\ Head(idequeue) = idequeue[1] /\ Head(idequeue) \in Bufs
           /\ Tail(idequeue) \in Seq(Bufs)
           /\ Len(Tail(idequeue)) = Len(idequeue) - 1
           /\ \A i \in 1 .. Len(idequeue) - 1 : Tail(idequeue)[i] = idequeue[i + 1]
           /\ Tail(idequeue) # <<>> =>
                 /\ Len(idequeue) >= 2 /\ idequeue[2] \in Bufs
                 /\ Head(Tail(idequeue)) = idequeue[2]
<1>1. Len(idequeue) \in Nat /\ Len(idequeue) >= 1
  BY EmptySeq
<1>2. Head(idequeue) = idequeue[1] /\ Head(idequeue) \in Bufs
  BY <1>1
<1>3. /\ Tail(idequeue) \in Seq(Bufs)
      /\ Len(Tail(idequeue)) = Len(idequeue) - 1
      /\ \A i \in 1 .. Len(idequeue) - 1 : Tail(idequeue)[i] = idequeue[i + 1]
  BY HeadTailProperties
<1>4. ASSUME Tail(idequeue) # <<>>
      PROVE  /\ Len(idequeue) >= 2 /\ idequeue[2] \in Bufs
             /\ Head(Tail(idequeue)) = idequeue[2]
  <2>1. Len(idequeue) >= 2
    BY <1>1, <1>3, <1>4, EmptySeq
  <2>2. idequeue[2] \in Bufs /\ Tail(idequeue)[1] = idequeue[2]
    BY <1>1, <1>3, <2>1, ElementOfSeq
  <2> QED BY <1>3, <1>4, <2>1, <2>2
<1> QED BY <1>1, <1>2, <1>3, <1>4

LEMMA QueueAppend ==
    ASSUME idequeue \in Seq(Bufs), NEW b \in Bufs, NEW s, s = Append(idequeue, b)
    PROVE  /\ s \in Seq(Bufs) /\ s # <<>> /\ Len(idequeue) \in Nat
           /\ Len(s) = Len(idequeue) + 1 /\ s[Len(idequeue) + 1] = b
           /\ \A i \in 1 .. Len(idequeue) : s[i] = idequeue[i]
BY AppendProperties, LenProperties

(* iderw() changes the queue and where the caller is.                      *)
LEMMA IderwEffect ==
    ASSUME NEW p \in Procs, Iderw(p)
    PROVE  /\ pc[p] = "iderw" /\ pc' = [pc EXCEPT ![p] = "iosleep"]
           /\ idequeue' = Append(idequeue, mine[p])
           /\ idequeue = <<>> => Idestart(mine[p])
           /\ idequeue # <<>> => UNCHANGED <<state, sent>>
           /\ UNCHANGED <<want, mine, mru, refcnt, blockno, valid, dirty, data, lock, disk>>
BY DEF Iderw, Goto, bcache, fields

(* ideintr() takes the first request off the queue.                        *)
LEMMA IdeintrEffect ==
    ASSUME FieldsOK, IoPending, Ideintr, NEW b, b = Head(idequeue)
    PROVE  /\ state = "done" /\ idequeue # <<>> /\ b \in Bufs
           /\ idequeue' = Tail(idequeue) /\ data' = ReadIn(b) /\ pc' = Iowoken(b)
           /\ valid' = [valid EXCEPT ![b] = TRUE]
           /\ dirty' = [dirty EXCEPT ![b] = FALSE]
           /\ Tail(idequeue) = <<>> => state' = "idle"
           /\ Tail(idequeue) # <<>> => Idestart(idequeue[2])
           /\ UNCHANGED <<want, mine, refcnt, blockno, lock, disk>>
<1>1. idequeue # <<>> /\ state = "done"
  BY DEF Ideintr, IoPending
<1>2. b \in Bufs
  BY <1>1, QueueHead DEF FieldsOK
<1> QED BY <1>1, <1>2 DEF Ideintr

(* What QueueOK says of the queue after a step, part by part.              *)
HeadSent == state # "idle" /\ dirty[Head(idequeue)] =>
                /\ state = "busy" => sent = data[Head(idequeue)]
                /\ state = "done" => disk[blockno[Head(idequeue)]] = data[Head(idequeue)]

LEMMA QueueIs ==
    ASSUME NEW m \in Nat, Len(idequeue') = m,
           \A i \in 1 .. m : \E q \in Procs : Unserved(q)' /\ mine'[q] = idequeue'[i],
           \A i, j \in 1 .. m : idequeue'[i] = idequeue'[j] => i = j,
           HeadSent'
    PROVE  QueueOK'
<1>1. \A i \in 1 .. Len(idequeue') :
          \E q \in Procs : Unserved(q)' /\ mine'[q] = idequeue'[i]
  OBVIOUS
<1>2. \A i, j \in 1 .. Len(idequeue') : idequeue'[i] = idequeue'[j] => i = j
  OBVIOUS
<1> QED BY <1>1, <1>2, Zenon DEF QueueOK, HeadSent

(* The first request is that of a caller who has the lock and sleeps.      *)
LEMMA HeadHolder ==
    ASSUME FieldsOK, LocksOK, BufferStays, QueueOK, idequeue # <<>>
    PROVE  \E p \in Procs : /\ Unserved(p) /\ mine[p] = Head(idequeue)
                            /\ lock[Head(idequeue)] = p
                            /\ Head(idequeue) \in Bufs /\ Head(idequeue) = idequeue[1]
                            /\ blockno[Head(idequeue)] \in Blocks
<1>1. 1 \in 1 .. Len(idequeue) /\ Head(idequeue) = idequeue[1] /\ Head(idequeue) \in Bufs
  BY QueueHead DEF FieldsOK
<1>2. PICK p \in Procs : Unserved(p) /\ mine[p] = Head(idequeue)
  BY <1>1 DEF QueueOK
<1>3. lock[Head(idequeue)] = p
  BY <1>1, <1>2 DEF LocksOK, Holding, Io, Unserved
<1>4. blockno[Head(idequeue)] \in Blocks
  BY <1>1, <1>2 DEF BufferStays, FieldsOK, Unserved
<1> QED BY <1>1, <1>2, <1>3, <1>4

(* The fields keep their types. *)
LEMMA InitFields == Init => FieldsOK
BY DEF Init, Binit, Initsleeplock, Ideinit, FieldsOK, Waiting, Io

LEMMA WokenType ==
    ASSUME FieldsOK, NEW b \in Bufs
    PROVE  /\ Woken(b) \in [Procs -> Places]
           /\ Iowoken(b) \in [Procs -> Places]
BY DEF FieldsOK, Woken, Iowoken, Places, Waiting, Io

LEMMA FieldsNext ==
    FieldsOK /\ RefsOK /\ BufferStays /\ QueueOK /\ IoPending /\ [Next]_vars => FieldsOK'
<1> SUFFICES ASSUME FieldsOK, RefsOK, BufferStays, QueueOK, IoPending, [Next]_vars
             PROVE  FieldsOK'
  OBVIOUS
<1> USE DEF FieldsOK, Goto
<1>1. ASSUME NEW p \in Procs, NEW k \in Blocks, BgetHit(p, k) PROVE FieldsOK'
  BY <1>1 DEF BgetHit, Cached, Waiting, fields, ide
<1>2. ASSUME NEW p \in Procs, NEW k \in Blocks, BgetMiss(p, k) PROVE FieldsOK'
  BY <1>2 DEF BgetMiss, Oldest, Unused, Waiting, ide
<1>3. ASSUME NEW p \in Procs, AcquireSleep(p) PROVE FieldsOK'
  BY <1>3 DEF AcquireSleep, Io, bcache, fields, ide
<1>4. ASSUME NEW p \in Procs, SleepOnLock(p) PROVE FieldsOK'
  BY <1>4 DEF SleepOnLock, Waiting, bcache, fields, ide
<1>5. ASSUME NEW p \in Procs, ReleaseSleep(p) PROVE FieldsOK'
  BY <1>5, WokenType DEF ReleaseSleep, Places, bcache, fields, ide
<1>6. ASSUME NEW p \in Procs, Brelse(p) PROVE FieldsOK'
  <2>1. refcnt[mine[p]] # 0
    BY <1>6, Unreferred DEF Brelse
  <2>2. Unreferenced(mine[p]) \in [Bufs -> Nat]
    BY <2>1 DEF Unreferenced
  <2>3. pc' \in [Procs -> Places] /\ mine' \in [Procs -> Bufs]
    BY <1>6 DEF Brelse, Places
  <2> QED BY <1>6, <2>2, <2>3 DEF Brelse, Places, fields, ide
<1>7. ASSUME NEW p \in Procs, NEW d \in Data, Bwrite(p, d) PROVE FieldsOK'
  BY <1>7 DEF Bwrite, Io, ide
<1>8. ASSUME NEW p \in Procs, NEW d \in Data, LogWrite(p, d) PROVE FieldsOK'
  BY <1>8 DEF LogWrite, procs, ide
<1>9. ASSUME NEW p \in Procs, Iderw(p) PROVE FieldsOK'
  <2>1. idequeue' \in Seq(Bufs)
    BY <1>9, AppendProperties DEF Iderw
  <2>2. sent' \in Data /\ state' \in {"idle", "busy", "done"}
    <3>1. CASE idequeue = <<>>
      BY <1>9, <3>1 DEF Iderw, Idestart
    <3>2. CASE idequeue # <<>>
      BY <1>9, <3>2 DEF Iderw
    <3> QED BY <3>1, <3>2
  <2> QED BY <1>9, <2>1, <2>2 DEF Iderw, Io, bcache, fields
<1>10. ASSUME NEW p \in Procs, IderwWakes(p) PROVE FieldsOK'
  BY <1>10 DEF IderwWakes, Io, bcache, fields, ide
<1>14. ASSUME NEW p \in Procs, Killed(p) PROVE FieldsOK'
  BY <1>14 DEF Killed, Io, Waiting, bcache, fields, ide
<1>11. ASSUME DiskDone PROVE FieldsOK'
  BY <1>11 DEF DiskDone, procs, bcache, fields
<1>12. ASSUME Ideintr PROVE FieldsOK'
  <2>0. idequeue # <<>>
    BY <1>12 DEF Ideintr, IoPending
  <2>1. /\ Head(idequeue) \in Bufs /\ Tail(idequeue) \in Seq(Bufs)
        /\ Tail(idequeue) # <<>> => idequeue[2] \in Bufs
    BY <2>0, QueueHead
  <2>3. ReadIn(Head(idequeue)) \in [Bufs -> Data]
    <3>1. PICK p \in Procs : Unserved(p) /\ mine[p] = Head(idequeue)
      <4>1. 1 \in 1 .. Len(idequeue) /\ Head(idequeue) = idequeue[1]
        BY <2>0, QueueHead
      <4> QED BY <4>1 DEF QueueOK
    <3>2. blockno[Head(idequeue)] \in Blocks
      <4>1. blockno[mine[p]] \in Blocks
        BY <3>1 DEF BufferStays, Unserved
      <4> QED BY <3>1, <4>1
    <3> QED BY <2>1, <3>2 DEF ReadIn
  <2>4. sent' \in Data /\ state' \in {"idle", "busy", "done"}
    <3>1. CASE Tail(idequeue) = <<>>
      BY <1>12, <3>1 DEF Ideintr
    <3>2. CASE Tail(idequeue) # <<>>
      <4>1. Idestart(idequeue[2])
        BY <1>12, <3>2 DEF Ideintr
      <4>2. idequeue[2] \in Bufs
        BY <2>1, <3>2
      <4> QED BY <4>1, <4>2 DEF Idestart
    <3> QED BY <3>1, <3>2
  <2>5. /\ idequeue' = Tail(idequeue) /\ data' = ReadIn(Head(idequeue))
        /\ pc' = Iowoken(Head(idequeue))
        /\ valid' = [valid EXCEPT ![Head(idequeue)] = TRUE]
        /\ dirty' = [dirty EXCEPT ![Head(idequeue)] = FALSE]
        /\ UNCHANGED <<want, mine, mru, refcnt, blockno, lock, disk>>
    BY <1>12 DEF Ideintr
  <2>6. pc' \in [Procs -> Places]
    BY <2>1, <2>5, WokenType
  <2>7. valid' \in [Bufs -> BOOLEAN] /\ dirty' \in [Bufs -> BOOLEAN]
    BY <2>5
  <2>8. idequeue' \in Seq(Bufs) /\ data' \in [Bufs -> Data]
    BY <2>1, <2>3, <2>5
  <2>9. /\ want' \in [Procs -> Blocks \cup {None}] /\ mine' \in [Procs -> Bufs]
        /\ blockno' \in [Bufs -> Blocks \cup {None}] /\ refcnt' \in [Bufs -> Nat]
        /\ lock' \in [Bufs -> Procs \cup {None}] /\ disk' \in [Blocks -> Data]
    BY <2>5
  <2> QED BY <2>4, <2>6, <2>7, <2>8, <2>9 DEF Places
<1>13. CASE UNCHANGED vars
  BY <1>13 DEF vars, procs, bcache, fields, ide
<1> QED
  BY <1>1, <1>2, <1>3, <1>4, <1>5, <1>6, <1>7, <1>8, <1>9, <1>10, <1>11, <1>12, <1>13,
     <1>14 DEF Next, BreadStep, HolderStep, IdeStep
-----------------------------------------------------------------------------
(* Reference counts.  Most steps leave every user where it is.             *)
LEMMA SameUsers ==
    ASSUME FieldsOK, RefsOK, UNCHANGED <<refcnt, mine>>,
           \A p \in Procs : pc'[p] = "idle" <=> pc[p] = "idle"
    PROVE  RefsOK'
<1>1. \A b \in Bufs : Users(b)' = Users(b)
  BY DEF Users
<1> QED BY <1>1 DEF RefsOK

LEMMA RefsInit == Init => RefsOK
<1> SUFFICES ASSUME Init PROVE RefsOK
  OBVIOUS
<1>1. \A b \in Bufs : Users(b) = {}
  BY DEF Init, Users
<1> QED BY <1>1, FS_EmptySet DEF Init, Binit, RefsOK

LEMMA RefsNext == FieldsOK /\ RefsOK /\ [Next]_vars => RefsOK'
<1> SUFFICES ASSUME FieldsOK, RefsOK, [Next]_vars PROVE RefsOK'
  OBVIOUS
<1> USE DEF FieldsOK, Goto
(* A caller that was idle has found buffer b. *)
<1>0. ASSUME NEW p \in Procs, NEW b \in Bufs, pc[p] = "idle",
             Goto(p, "lock"), mine' = [mine EXCEPT ![p] = b],
             refcnt' = [refcnt EXCEPT ![b] = @ + 1]
      PROVE  RefsOK'
  <2>1. p \notin Users(b) /\ Users(b)' = Users(b) \cup {p}
    BY <1>0 DEF Users
  <2>2. \A c \in Bufs : c # b => Users(c)' = Users(c)
    BY <1>0 DEF Users
  <2>3. Cardinality(Users(b)') = Cardinality(Users(b)) + 1
    <3>1. IsFiniteSet(Users(b))
      BY UsersFinite
    <3>2. Cardinality(Users(b) \cup {p}) = Cardinality(Users(b)) + 1
      BY <2>1, <3>1, FS_AddElement
    <3> QED BY <2>1, <3>2
  <2> QED BY <1>0, <2>2, <2>3 DEF RefsOK
<1>1. ASSUME NEW p \in Procs, NEW k \in Blocks, BgetHit(p, k) PROVE RefsOK'
  BY <1>0, <1>1 DEF BgetHit, Cached
<1>2. ASSUME NEW p \in Procs, NEW k \in Blocks, BgetMiss(p, k) PROVE RefsOK'
  <2>1. PICK b \in Oldest : mine' = [mine EXCEPT ![p] = b] /\ refcnt' = [refcnt EXCEPT ![b] = 1]
    BY <1>2 DEF BgetMiss
  <2>2. b \in Bufs /\ refcnt[b] = 0
    BY DEF Oldest, Unused
  <2>3. refcnt' = [refcnt EXCEPT ![b] = @ + 1]
    BY <2>1, <2>2
  <2> QED BY <1>0, <1>2, <2>1, <2>2, <2>3 DEF BgetMiss
<1>3. ASSUME NEW p \in Procs, AcquireSleep(p) PROVE RefsOK'
  BY <1>3, SameUsers DEF AcquireSleep, bcache
<1>4. ASSUME NEW p \in Procs, SleepOnLock(p) PROVE RefsOK'
  BY <1>4, SameUsers DEF SleepOnLock, bcache
<1>5. ASSUME NEW p \in Procs, ReleaseSleep(p) PROVE RefsOK'
  BY <1>5, SameUsers DEF ReleaseSleep, Woken, bcache
<1>6. ASSUME NEW p \in Procs, Brelse(p) PROVE RefsOK'
  <2> PICK b \in Bufs : b = mine[p]
    OBVIOUS
  <2>1. p \in Users(b) /\ Users(b)' = Users(b) \ {p}
    BY <1>6 DEF Brelse, Users
  <2>2. \A c \in Bufs : c # b => Users(c)' = Users(c)
    BY <1>6 DEF Brelse, Users
  <2>3. Cardinality(Users(b) \ {p}) = Cardinality(Users(b)) - 1
    BY <2>1, UsersFinite, FS_RemoveElement
  <2> QED BY <1>6, <2>1, <2>2, <2>3 DEF Brelse, Unreferenced, RefsOK
<1>7. ASSUME NEW p \in Procs, NEW d \in Data, Bwrite(p, d) PROVE RefsOK'
  BY <1>7, SameUsers DEF Bwrite
<1>8. ASSUME NEW p \in Procs, NEW d \in Data, LogWrite(p, d) PROVE RefsOK'
  BY <1>8, SameUsers DEF LogWrite, procs
<1>9. ASSUME NEW p \in Procs, Iderw(p) PROVE RefsOK'
  BY <1>9, SameUsers DEF Iderw, bcache
<1>10. ASSUME NEW p \in Procs, IderwWakes(p) PROVE RefsOK'
  BY <1>10, SameUsers DEF IderwWakes, bcache
<1>14. ASSUME NEW p \in Procs, Killed(p) PROVE RefsOK'
  BY <1>14, SameUsers DEF Killed, bcache
<1>11. ASSUME DiskDone PROVE RefsOK'
  BY <1>11, SameUsers DEF DiskDone, procs, bcache
<1>12. ASSUME Ideintr PROVE RefsOK'
  BY <1>12, SameUsers DEF Ideintr, Iowoken
<1>13. CASE UNCHANGED vars
  BY <1>13, SameUsers DEF vars, procs, bcache
<1> QED
  BY <1>1, <1>2, <1>3, <1>4, <1>5, <1>6, <1>7, <1>8, <1>9, <1>10, <1>11, <1>12, <1>13,
     <1>14 DEF Next, BreadStep, HolderStep, IdeStep
-----------------------------------------------------------------------------
(* Sleep locks and the buffers of callers, at the start. *)
LEMMA StartInit == Init => LocksOK /\ BufferStays /\ ContentsOK /\ QueueOK /\ IoPending
BY DEF Init, Binit, Initsleeplock, Ideinit, LocksOK, BufferStays, ContentsOK, QueueOK,
       IoPending, Holding, Io, Unserved
-----------------------------------------------------------------------------
(* A sleep lock is taken when it is free and given back by its holder.     *)
LEMMA LocksNext ==
    FieldsOK /\ LocksOK /\ [Next]_vars => LocksOK'
<1> SUFFICES ASSUME FieldsOK, LocksOK, [Next]_vars
             PROVE  LocksOK'
  OBVIOUS
<1> USE DEF FieldsOK, LocksOK, Holding, Io, Goto
<1>1. ASSUME NEW p \in Procs, NEW k \in Blocks, BgetHit(p, k) PROVE LocksOK'
  BY <1>1 DEF BgetHit, Cached
<1>2. ASSUME NEW p \in Procs, NEW k \in Blocks, BgetMiss(p, k) PROVE LocksOK'
  BY <1>2 DEF BgetMiss
<1>3. ASSUME NEW p \in Procs, AcquireSleep(p) PROVE LocksOK'
  BY <1>3 DEF AcquireSleep, LockFree
<1>4. ASSUME NEW p \in Procs, SleepOnLock(p) PROVE LocksOK'
  BY <1>4 DEF SleepOnLock
<1>5. ASSUME NEW p \in Procs, ReleaseSleep(p) PROVE LocksOK'
  BY <1>5 DEF ReleaseSleep, Woken
<1>6. ASSUME NEW p \in Procs, Brelse(p) PROVE LocksOK'
  BY <1>6 DEF Brelse
<1>7. ASSUME NEW p \in Procs, NEW d \in Data, Bwrite(p, d) PROVE LocksOK'
  BY <1>7 DEF Bwrite
<1>8. ASSUME NEW p \in Procs, NEW d \in Data, LogWrite(p, d) PROVE LocksOK'
  BY <1>8 DEF LogWrite, procs
<1>9. ASSUME NEW p \in Procs, Iderw(p) PROVE LocksOK'
  BY <1>9, IderwEffect
<1>10. ASSUME NEW p \in Procs, IderwWakes(p) PROVE LocksOK'
  BY <1>10 DEF IderwWakes
<1>14. ASSUME NEW p \in Procs, Killed(p) PROVE LocksOK'
  BY <1>14 DEF Killed
<1>11. ASSUME DiskDone PROVE LocksOK'
  BY <1>11 DEF DiskDone, procs
<1>12. ASSUME Ideintr PROVE LocksOK'
  BY <1>12 DEF Ideintr, Iowoken
<1>13. CASE UNCHANGED vars
  BY <1>13 DEF vars, procs, bcache, fields, ide
<1> QED
  BY <1>1, <1>2, <1>3, <1>4, <1>5, <1>6, <1>7, <1>8, <1>9, <1>10, <1>11, <1>12, <1>13,
     <1>14 DEF Next, BreadStep, HolderStep, IdeStep
-----------------------------------------------------------------------------
(* A buffer that somebody refers to is not recycled, and a block that has  *)
(* a buffer does not get another one.                                      *)
LEMMA StaysNext ==
    FieldsOK /\ RefsOK /\ BufferStays /\ [Next]_vars => BufferStays'
<1> SUFFICES ASSUME FieldsOK, RefsOK, BufferStays, [Next]_vars
             PROVE  BufferStays'
  OBVIOUS
<1> USE DEF FieldsOK, BufferStays, Goto
<1>1. ASSUME NEW p \in Procs, NEW k \in Blocks, BgetHit(p, k) PROVE BufferStays'
  BY <1>1 DEF BgetHit, Cached, fields
<1>2. ASSUME NEW p \in Procs, NEW k \in Blocks, BgetMiss(p, k) PROVE BufferStays'
  <2>1. PICK b \in Oldest : /\ mine' = [mine EXCEPT ![p] = b]
                            /\ blockno' = [blockno EXCEPT ![b] = k]
    BY <1>2 DEF BgetMiss
  <2>2. b \in Bufs /\ refcnt[b] = 0
    BY DEF Oldest, Unused
  <2>3. \A q \in Procs : mine[q] = b => pc[q] = "idle"
    BY <2>2, Unreferred
  <2>4. \A c \in Bufs : blockno[c] # k
    BY <1>2 DEF BgetMiss, Cached
  <2> QED BY <1>2, <2>1, <2>2, <2>3, <2>4 DEF BgetMiss
<1>3. ASSUME NEW p \in Procs, AcquireSleep(p) PROVE BufferStays'
  BY <1>3 DEF AcquireSleep, bcache, fields
<1>4. ASSUME NEW p \in Procs, SleepOnLock(p) PROVE BufferStays'
  BY <1>4 DEF SleepOnLock, bcache, fields
<1>5. ASSUME NEW p \in Procs, ReleaseSleep(p) PROVE BufferStays'
  BY <1>5 DEF ReleaseSleep, Woken, bcache, fields
<1>6. ASSUME NEW p \in Procs, Brelse(p) PROVE BufferStays'
  BY <1>6 DEF Brelse, fields
<1>7. ASSUME NEW p \in Procs, NEW d \in Data, Bwrite(p, d) PROVE BufferStays'
  BY <1>7 DEF Bwrite
<1>8. ASSUME NEW p \in Procs, NEW d \in Data, LogWrite(p, d) PROVE BufferStays'
  BY <1>8 DEF LogWrite, procs
<1>9. ASSUME NEW p \in Procs, Iderw(p) PROVE BufferStays'
  BY <1>9 DEF Iderw, bcache, fields
<1>10. ASSUME NEW p \in Procs, IderwWakes(p) PROVE BufferStays'
  BY <1>10 DEF IderwWakes, bcache, fields
<1>14. ASSUME NEW p \in Procs, Killed(p) PROVE BufferStays'
  BY <1>14 DEF Killed, bcache, fields
<1>11. ASSUME DiskDone PROVE BufferStays'
  BY <1>11 DEF DiskDone, procs, bcache, fields
<1>12. ASSUME Ideintr PROVE BufferStays'
  BY <1>12 DEF Ideintr, Iowoken
<1>13. CASE UNCHANGED vars
  BY <1>13 DEF vars, procs, bcache, fields, ide
<1> QED
  BY <1>1, <1>2, <1>3, <1>4, <1>5, <1>6, <1>7, <1>8, <1>9, <1>10, <1>11, <1>12, <1>13,
     <1>14 DEF Next, BreadStep, HolderStep, IdeStep
-----------------------------------------------------------------------------
(* What a valid buffer holds.                                              *)
LEMMA ContentsNext ==
    FieldsOK /\ RefsOK /\ LocksOK /\ BufferStays /\ ContentsOK /\ QueueOK /\ IoPending /\ [Next]_vars => ContentsOK'
<1> SUFFICES ASSUME FieldsOK, RefsOK, LocksOK, BufferStays, ContentsOK, QueueOK, IoPending, [Next]_vars
             PROVE  ContentsOK'
  OBVIOUS
<1> USE DEF FieldsOK, ContentsOK, Complete, Goto
<1>1. ASSUME NEW p \in Procs, NEW k \in Blocks, BgetHit(p, k) PROVE ContentsOK'
  BY <1>1 DEF BgetHit, Cached, fields, ide
<1>2. ASSUME NEW p \in Procs, NEW k \in Blocks, BgetMiss(p, k) PROVE ContentsOK'
  <2>1. PICK b \in Oldest : /\ mine' = [mine EXCEPT ![p] = b]
                            /\ blockno' = [blockno EXCEPT ![b] = k]
                            /\ valid' = [valid EXCEPT ![b] = FALSE]
                            /\ dirty' = [dirty EXCEPT ![b] = FALSE]
    BY <1>2 DEF BgetMiss
  <2>2. b \in Bufs /\ refcnt[b] = 0
    BY DEF Oldest, Unused
  <2>3. \A q \in Procs : mine[q] = b => pc[q] = "idle"
    BY <2>2, Unreferred
  <2> QED BY <1>2, <2>1, <2>2, <2>3 DEF BgetMiss, ide
<1>3. ASSUME NEW p \in Procs, AcquireSleep(p) PROVE ContentsOK'
  BY <1>3 DEF AcquireSleep, bcache, fields, ide
<1>4. ASSUME NEW p \in Procs, SleepOnLock(p) PROVE ContentsOK'
  BY <1>4 DEF SleepOnLock, bcache, fields, ide
<1>5. ASSUME NEW p \in Procs, ReleaseSleep(p) PROVE ContentsOK'
  BY <1>5 DEF ReleaseSleep, Woken, bcache, fields, ide
<1>6. ASSUME NEW p \in Procs, Brelse(p) PROVE ContentsOK'
  BY <1>6 DEF Brelse, fields, ide
<1>7. ASSUME NEW p \in Procs, NEW d \in Data, Bwrite(p, d) PROVE ContentsOK'
  BY <1>7 DEF Bwrite, LocksOK, Holding, Io, ide
<1>8. ASSUME NEW p \in Procs, NEW d \in Data, LogWrite(p, d) PROVE ContentsOK'
  BY <1>8 DEF LogWrite, LocksOK, Holding, Io, procs, ide
<1>9. ASSUME NEW p \in Procs, Iderw(p) PROVE ContentsOK'
  <2>1. /\ pc' = [pc EXCEPT ![p] = "iosleep"]
        /\ UNCHANGED <<mine, blockno, valid, dirty, data, disk>>
    BY <1>9, IderwEffect
  <2>2. pc[p] = "iderw"
    BY <1>9, IderwEffect
  <2> QED BY <2>1, <2>2
<1>10. ASSUME NEW p \in Procs, IderwWakes(p) PROVE ContentsOK'
  BY <1>10 DEF IderwWakes, bcache, fields, ide
<1>14. ASSUME NEW p \in Procs, Killed(p) PROVE ContentsOK'
  BY <1>14 DEF Killed, bcache, fields, ide
<1>11. ASSUME DiskDone PROVE ContentsOK'
  <2>1. idequeue # <<>>
    BY <1>11 DEF DiskDone, IoPending
  <2>2. PICK b \in Bufs : b = Head(idequeue) /\ blockno[b] \in Blocks
    BY <2>1, HeadHolder
  <2>3. disk' = IF dirty[b] THEN [disk EXCEPT ![blockno[b]] = sent] ELSE disk
    BY <1>11, <2>2 DEF DiskDone
  <2> QED BY <1>11, <2>2, <2>3 DEF DiskDone, BufferStays, procs, bcache, fields
<1>12. ASSUME Ideintr PROVE ContentsOK'
  <2>1. idequeue # <<>> /\ state = "done"
    BY <1>12, IdeintrEffect
  <2>2. PICK b \in Bufs : b = Head(idequeue) /\ blockno[b] \in Blocks
    BY <2>1, HeadHolder
  <2>3. dirty[b] => disk[blockno[b]] = data[b]
    BY <2>1, <2>2 DEF QueueOK
  <2>4. /\ data' = ReadIn(b) /\ pc' = Iowoken(b)
        /\ valid' = [valid EXCEPT ![b] = TRUE] /\ dirty' = [dirty EXCEPT ![b] = FALSE]
        /\ UNCHANGED <<mine, blockno, disk>>
    BY <1>12, <2>2, IdeintrEffect
  <2>5. \A q \in Procs : pc[q] \in {"iderw", "iosleep"} /\ mine[q] = b => pc[q] = "iosleep"
    <3>1. PICK r \in Procs : Unserved(r) /\ mine[r] = b /\ lock[b] = r
      BY <2>1, <2>2, HeadHolder
    <3> QED BY <2>2, <3>1 DEF Unserved, LocksOK, Holding, Io
  <2>6. \A q \in Procs : /\ pc'[q] = "held" => valid'[mine'[q]]
                         /\ pc'[q] \in {"iderw", "iosleep"} => ~Complete(mine[q])'
    <3> SUFFICES ASSUME NEW q \in Procs
                 PROVE  /\ pc'[q] = "held" => valid'[mine'[q]]
                        /\ pc'[q] \in {"iderw", "iosleep"} => ~Complete(mine[q])'
      OBVIOUS
    <3>1. CASE mine[q] = b
      BY <2>2, <2>4, <2>5, <3>1 DEF Iowoken
    <3>2. CASE mine[q] # b
      BY <2>2, <2>4, <3>2 DEF Iowoken
    <3> QED BY <3>1, <3>2
  <2>7. \A c \in Bufs : /\ dirty'[c] => valid'[c]
                        /\ valid'[c] => blockno'[c] # None
                        /\ valid'[c] /\ ~dirty'[c] => data'[c] = disk'[blockno'[c]]
    <3> SUFFICES ASSUME NEW c \in Bufs
                 PROVE  /\ dirty'[c] => valid'[c]
                        /\ valid'[c] => blockno'[c] # None
                        /\ valid'[c] /\ ~dirty'[c] => data'[c] = disk'[blockno'[c]]
      OBVIOUS
    <3>1. CASE c = b
      <4>1. data'[b] = IF dirty[b] THEN data[b] ELSE disk[blockno[b]]
        BY <2>2, <2>4 DEF ReadIn
      <4>2. valid'[b] /\ ~dirty'[b] /\ blockno[b] # None
        BY <2>2, <2>4
      <4> QED BY <2>3, <2>4, <3>1, <4>1, <4>2
    <3>2. CASE c # b
      <4>1. data'[c] = data[c] /\ valid'[c] = valid[c] /\ dirty'[c] = dirty[c]
        BY <2>2, <2>4, <3>2 DEF ReadIn
      <4> QED BY <2>4, <4>1
    <3> QED BY <3>1, <3>2
  <2> QED BY <2>6, <2>7
<1>13. CASE UNCHANGED vars
  BY <1>13 DEF vars, procs, bcache, fields, ide
<1> QED
  BY <1>1, <1>2, <1>3, <1>4, <1>5, <1>6, <1>7, <1>8, <1>9, <1>10, <1>11, <1>12, <1>13,
     <1>14 DEF Next, BreadStep, HolderStep, IdeStep
-----------------------------------------------------------------------------
(* A step that leaves the queue, the disk, the sleepers in iderw() and the *)
(* first request alone.                                                    *)
LEMMA QueueKept ==
    ASSUME FieldsOK, LocksOK, BufferStays, QueueOK, IoPending,
           UNCHANGED <<idequeue, state, sent, disk>>,
           \A p \in Procs : Unserved(p) =>
               /\ mine'[p] = mine[p]
               /\ dirty'[mine[p]] = dirty[mine[p]] /\ data'[mine[p]] = data[mine[p]]
               /\ blockno'[mine[p]] = blockno[mine[p]],
           \A p \in Procs : Unserved(p)' <=> Unserved(p)
    PROVE  QueueOK' /\ IoPending'
<1>1. IoPending'
  BY DEF IoPending
<1>2. CASE idequeue = <<>>
  <2>1. state = "idle" /\ Len(idequeue) = 0
    BY <1>2, EmptySeq DEF IoPending, FieldsOK
  <2> QED BY <1>1, <1>2, <2>1 DEF QueueOK
<1>3. CASE idequeue # <<>>
  <2>1. PICK p \in Procs : Unserved(p) /\ mine[p] = Head(idequeue)
    BY <1>3, HeadHolder
  <2>2. Head(idequeue)' = Head(idequeue)
    OBVIOUS
  <2> QED BY <1>1, <2>1, <2>2 DEF QueueOK
<1> QED BY <1>2, <1>3

LEMMA QueueNext ==
    /\ FieldsOK /\ RefsOK /\ LocksOK /\ BufferStays /\ ContentsOK /\ QueueOK /\ IoPending
    /\ [Next]_vars
    => QueueOK' /\ IoPending'
<1> SUFFICES ASSUME FieldsOK, RefsOK, LocksOK, BufferStays, ContentsOK, QueueOK, IoPending,
                    [Next]_vars
             PROVE  QueueOK' /\ IoPending'
  OBVIOUS
<1> USE DEF FieldsOK, Goto, Unserved, Complete
<1>1. ASSUME NEW p \in Procs, NEW k \in Blocks, BgetHit(p, k) PROVE QueueOK' /\ IoPending'
  BY <1>1, QueueKept DEF BgetHit, fields, ide
<1>2. ASSUME NEW p \in Procs, NEW k \in Blocks, BgetMiss(p, k) PROVE QueueOK' /\ IoPending'
  <2>1. PICK b \in Oldest : /\ mine' = [mine EXCEPT ![p] = b]
                            /\ blockno' = [blockno EXCEPT ![b] = k]
                            /\ dirty' = [dirty EXCEPT ![b] = FALSE]
    BY <1>2 DEF BgetMiss
  <2>2. b \in Bufs /\ refcnt[b] = 0
    BY DEF Oldest, Unused
  <2>3. \A q \in Procs : mine[q] = b => pc[q] = "idle"
    BY <2>2, Unreferred
  <2>4. /\ pc[p] = "idle" /\ pc' = [pc EXCEPT ![p] = "lock"] /\ valid' = [valid EXCEPT ![b] = FALSE]
        /\ UNCHANGED <<data, idequeue, state, sent, disk>>
    <3>1. \A c \in Bufs : mine' = [mine EXCEPT ![p] = c] => c = b
      BY <2>1
    <3> QED BY <1>2, <2>1, <3>1 DEF BgetMiss, ide
  <2>5. \A q \in Procs : Unserved(q)' <=> Unserved(q)
    BY <2>1, <2>2, <2>3, <2>4
  <2>6. \A q \in Procs : Unserved(q) => q # p /\ mine[q] # b
    BY <2>3, <2>4
  <2>7. ASSUME NEW q \in Procs, Unserved(q)
        PROVE  /\ mine'[q] = mine[q]
               /\ dirty'[mine[q]] = dirty[mine[q]] /\ data'[mine[q]] = data[mine[q]]
               /\ blockno'[mine[q]] = blockno[mine[q]]
    BY <2>1, <2>2, <2>4, <2>6, <2>7
  <2> HIDE DEF Unserved
  <2> QED BY <2>4, <2>5, <2>7, QueueKept
<1>3. ASSUME NEW p \in Procs, AcquireSleep(p) PROVE QueueOK' /\ IoPending'
  BY <1>3, QueueKept DEF AcquireSleep, bcache, fields, ide
<1>4. ASSUME NEW p \in Procs, SleepOnLock(p) PROVE QueueOK' /\ IoPending'
  BY <1>4, QueueKept DEF SleepOnLock, bcache, fields, ide
<1>5. ASSUME NEW p \in Procs, ReleaseSleep(p) PROVE QueueOK' /\ IoPending'
  BY <1>5, QueueKept DEF ReleaseSleep, Woken, bcache, fields, ide
<1>6. ASSUME NEW p \in Procs, Brelse(p) PROVE QueueOK' /\ IoPending'
  BY <1>6, QueueKept DEF Brelse, fields, ide
<1>7. ASSUME NEW p \in Procs, NEW d \in Data, Bwrite(p, d) PROVE QueueOK' /\ IoPending'
  <2>1. \A q \in Procs : q # p /\ pc[q] \in Io => mine[q] # mine[p]
    BY <1>7 DEF Bwrite, LocksOK, Holding
  <2>2. /\ dirty' = [dirty EXCEPT ![mine[p]] = TRUE] /\ data' = [data EXCEPT ![mine[p]] = d]
        /\ pc[p] = "held" /\ pc'[p] \in {"held", "iderw"} /\ (\A q \in Procs : q # p => pc'[q] = pc[q])
        /\ UNCHANGED <<mine, valid, blockno, idequeue, state, sent, disk>>
    BY <1>7 DEF Bwrite, ide
  <2>3. \A q \in Procs : Unserved(q)' <=> Unserved(q)
    BY <2>1, <2>2 DEF Io
  <2>4. \A q \in Procs : Unserved(q) => mine[q] # mine[p]
    BY <2>1, <2>2 DEF Io
  <2> QED BY <2>2, <2>3, <2>4, QueueKept
<1>8. ASSUME NEW p \in Procs, NEW d \in Data, LogWrite(p, d) PROVE QueueOK' /\ IoPending'
  <2>1. \A q \in Procs : q # p /\ pc[q] \in Io => mine[q] # mine[p]
    BY <1>8 DEF LogWrite, LocksOK, Holding
  <2>2. /\ dirty' = [dirty EXCEPT ![mine[p]] = TRUE] /\ data' = [data EXCEPT ![mine[p]] = d]
        /\ pc[p] = "held" /\ pc'[p] \in {"held", "iderw"} /\ (\A q \in Procs : q # p => pc'[q] = pc[q])
        /\ UNCHANGED <<mine, valid, blockno, idequeue, state, sent, disk>>
    BY <1>8 DEF LogWrite, procs, ide
  <2>3. \A q \in Procs : Unserved(q)' <=> Unserved(q)
    BY <2>1, <2>2 DEF Io
  <2>4. \A q \in Procs : Unserved(q) => mine[q] # mine[p]
    BY <2>1, <2>2 DEF Io
  <2> QED BY <2>2, <2>3, <2>4, QueueKept
<1>9. ASSUME NEW p \in Procs, Iderw(p) PROVE QueueOK' /\ IoPending'
  <2> PICK n \in Nat : n = Len(idequeue)
    BY LenProperties
  <2>0. /\ pc[p] = "iderw" /\ pc' = [pc EXCEPT ![p] = "iosleep"]
        /\ idequeue' = Append(idequeue, mine[p])
        /\ UNCHANGED <<want, mine, blockno, valid, dirty, data, disk>>
    BY <1>9, IderwEffect
  <2>1. \A q \in Procs : Unserved(q) => mine[q] # mine[p]
    BY <2>0 DEF LocksOK, Holding, Io
  <2>10. \A q \in Procs : Unserved(q)' <=> Unserved(q) \/ q = p
    BY <2>0
  <2>2. /\ n \in Nat /\ Len(idequeue') = n + 1 /\ idequeue' # <<>>
        /\ \A i \in 1 .. n : idequeue'[i] = idequeue[i]
        /\ idequeue'[n + 1] = mine[p]
    BY <2>0, QueueAppend
  <2>3. ASSUME NEW i \in 1 .. n + 1
        PROVE  \E q \in Procs : Unserved(q)' /\ mine'[q] = idequeue'[i]
    <3>1. CASE i = n + 1
      BY <2>0, <2>2, <3>1
    <3>2. CASE i # n + 1
      <4>1. i \in 1 .. n
        BY <3>2
      <4>2. PICK q \in Procs : Unserved(q) /\ mine[q] = idequeue[i]
        BY <4>1 DEF QueueOK
      <4> QED BY <2>0, <2>2, <2>10, <4>1, <4>2
    <3> QED BY <3>1, <3>2
  <2>4. ASSUME NEW i \in 1 .. n + 1, NEW j \in 1 .. n + 1, idequeue'[i] = idequeue'[j]
        PROVE  i = j
    <3>1. \A l \in 1 .. n : idequeue[l] # mine[p]
      BY <2>1 DEF QueueOK
    <3>2. CASE i = n + 1 \/ j = n + 1
      <4>1. ASSUME NEW l \in 1 .. n + 1, l # n + 1 PROVE idequeue'[l] # mine[p]
        <5>1. l \in 1 .. n
          BY <4>1
        <5> QED BY <2>2, <3>1, <5>1
      <4> QED BY <2>4, <2>2, <3>2, <4>1
    <3>3. CASE i # n + 1 /\ j # n + 1
      <4>0. \A l \in 1 .. n + 1 : l # n + 1 => l \in 1 .. n
        OBVIOUS
      <4>1. i \in 1 .. n /\ j \in 1 .. n
        BY <3>3, <4>0
      <4> QED BY <2>2, <2>4, <4>1 DEF QueueOK
    <3> QED BY <3>2, <3>3
  <2>5. \A q \in Procs : Unserved(q)' =>
            \E i \in DOMAIN idequeue' : idequeue'[i] = mine'[q]
    <3>1. DOMAIN idequeue = 1 .. n /\ DOMAIN idequeue' = 1 .. n + 1
      BY <2>0, <2>2, AppendProperties, LenProperties
    <3>2. ASSUME NEW q \in Procs, Unserved(q)
          PROVE  \E i \in 1 .. n + 1 : idequeue'[i] = mine'[q]
      BY <2>0, <2>2, <3>1, <3>2 DEF IoPending
    <3>3. n + 1 \in 1 .. n + 1 /\ idequeue'[n + 1] = mine'[p]
      BY <2>0, <2>2
    <3>4. mine' = mine /\ DOMAIN idequeue' = 1 .. n + 1
      BY <2>0, <3>1
    <3> HIDE DEF Unserved
    <3> QED BY <2>10, <3>2, <3>3, <3>4
  <2>6. CASE idequeue = <<>>
    <3>1. n = 0 /\ Head(idequeue') = mine[p]
      BY <2>2, <2>6
    <3>2. state' = "busy" /\ (dirty[mine[p]] => sent' = data[mine[p]])
      BY <1>9, <2>6, IderwEffect DEF Idestart
    <3>3. Head(idequeue)' = mine[p]
      BY <3>1
    <3>4. QueueOK'
      <4>1. HeadSent'
        BY <2>0, <3>2, <3>3 DEF HeadSent
      <4>2. n + 1 \in Nat
        BY <2>2
      <4> QED BY <2>2, <2>3, <2>4, <4>1, <4>2, QueueIs
    <3>5. IoPending'
      BY <2>2, <2>5, <3>2 DEF IoPending
    <3> QED BY <3>4, <3>5
  <2>7. CASE idequeue # <<>>
    <3>1. Head(idequeue)' = Head(idequeue)
      BY <2>0, <2>7, HeadTailAppend
    <3>2. UNCHANGED <<state, sent>> /\ state # "idle"
      BY <1>9, <2>7, IderwEffect DEF IoPending
    <3>3. ASSUME dirty[Head(idequeue)]
          PROVE  /\ state = "busy" => sent = data[Head(idequeue)]
                 /\ state = "done" => disk[blockno[Head(idequeue)]] = data[Head(idequeue)]
      BY <3>2, <3>3 DEF QueueOK
    <3>4. QueueOK'
      <4>1. HeadSent'
        BY <2>0, <3>1, <3>2, <3>3 DEF HeadSent
      <4>2. n + 1 \in Nat
        BY <2>2
      <4> QED BY <2>2, <2>3, <2>4, <4>1, <4>2, QueueIs
    <3>5. IoPending'
      BY <2>2, <2>5, <3>2 DEF IoPending
    <3> QED BY <3>4, <3>5
  <2> QED BY <2>6, <2>7
<1>10. ASSUME NEW p \in Procs, IderwWakes(p) PROVE QueueOK' /\ IoPending'
  BY <1>10, QueueKept DEF IderwWakes, Unserved, Complete, bcache, fields, ide
<1>14. ASSUME NEW p \in Procs, Killed(p) PROVE QueueOK' /\ IoPending'
  <2>1. \A q \in Procs : Unserved(q)' <=> Unserved(q)
    BY <1>14 DEF Killed, ContentsOK, bcache, fields
  <2> QED BY <1>14, <2>1, QueueKept DEF Killed, bcache, fields, ide
<1>11. ASSUME DiskDone PROVE QueueOK' /\ IoPending'
  <2>1. state = "busy" /\ state' = "done" /\ idequeue # <<>>
    BY <1>11 DEF DiskDone, IoPending
  <2>2. PICK b \in Bufs : b = Head(idequeue) /\ blockno[b] \in Blocks
    BY <2>1, HeadHolder
  <2>3. Head(idequeue)' = b
    BY <1>11, <2>2 DEF DiskDone
  <2>4. dirty[b] => disk'[blockno[b]] = data[b]
    BY <1>11, <2>1, <2>2 DEF DiskDone, QueueOK
  <2> QED BY <1>11, <2>1, <2>2, <2>3, <2>4
          DEF DiskDone, QueueOK, IoPending, procs, bcache, fields
<1>12. ASSUME Ideintr PROVE QueueOK' /\ IoPending'
  <2> PICK n \in Nat : n = Len(idequeue)
    BY LenProperties
  <2>1. idequeue # <<>> /\ state = "done"
    BY <1>12, IdeintrEffect
  <2>2. PICK b \in Bufs : b = Head(idequeue) /\ b = idequeue[1]
    BY <2>1, HeadHolder
  <2>3. /\ idequeue' = Tail(idequeue)
        /\ data' = ReadIn(b) /\ pc' = Iowoken(b) /\ dirty' = [dirty EXCEPT ![b] = FALSE]
        /\ valid' = [valid EXCEPT ![b] = TRUE] /\ b \in Bufs
        /\ UNCHANGED <<mine, blockno, disk>>
    BY <1>12, <2>2, IdeintrEffect
  <2>11. \A q \in Procs : Unserved(q)' <=> Unserved(q) /\ mine[q] # b
    <3> SUFFICES ASSUME NEW q \in Procs PROVE Unserved(q)' <=> Unserved(q) /\ mine[q] # b
      OBVIOUS
    <3>1. CASE mine[q] = b
      BY <2>3, <3>1 DEF Iowoken
    <3>2. CASE mine[q] # b
      BY <2>3, <3>2 DEF Iowoken
    <3> QED BY <3>1, <3>2
  <2>4. /\ n \in Nat /\ n >= 1 /\ Len(idequeue') = n - 1
        /\ \A i \in 1 .. n - 1 : idequeue'[i] = idequeue[i + 1]
    BY <2>1, <2>3, QueueHead
  <2>5. \A i \in 1 .. n - 1 : idequeue[i + 1] # b
    BY <2>2, <2>4 DEF QueueOK
  <2>6. \A i \in 1 .. n - 1 : \E q \in Procs : Unserved(q)' /\ mine'[q] = idequeue'[i]
    <3> SUFFICES ASSUME NEW i \in 1 .. n - 1
                 PROVE  \E q \in Procs : Unserved(q)' /\ mine'[q] = idequeue'[i]
      OBVIOUS
    <3>1. PICK q \in Procs : Unserved(q) /\ mine[q] = idequeue[i + 1]
      BY <2>4 DEF QueueOK
    <3> QED BY <2>3, <2>4, <2>5, <2>11, <3>1
  <2>7. \A i, j \in 1 .. n - 1 : idequeue'[i] = idequeue'[j] => i = j
    <3> SUFFICES ASSUME NEW i \in 1 .. n - 1, NEW j \in 1 .. n - 1, idequeue'[i] = idequeue'[j]
                 PROVE  i = j
      OBVIOUS
    <3>1. i + 1 \in 1 .. n /\ j + 1 \in 1 .. n /\ idequeue[i + 1] = idequeue[j + 1]
      BY <2>4
    <3>2. i + 1 = j + 1
      BY <3>1 DEF QueueOK
    <3> QED BY <3>2
  <2>8. \A q \in Procs : Unserved(q)' =>
            \E i \in DOMAIN idequeue' : idequeue'[i] = mine'[q]
    <3> SUFFICES ASSUME NEW q \in Procs, Unserved(q)'
                 PROVE  \E i \in DOMAIN idequeue' : idequeue'[i] = mine'[q]
      OBVIOUS
    <3>1. Unserved(q) /\ mine[q] # b
      BY <2>11
    <3>2. DOMAIN idequeue = 1 .. n /\ DOMAIN idequeue' = 1 .. n - 1
      BY <2>1, <2>3, <2>4, QueueHead, LenProperties
    <3>3. PICK i \in 1 .. n : idequeue[i] = mine[q]
      BY <3>1, <3>2 DEF IoPending
    <3>4. i # 1 /\ i - 1 \in 1 .. n - 1 /\ idequeue'[i - 1] = mine'[q]
      BY <2>2, <2>3, <2>4, <3>1, <3>3
    <3> QED BY <3>2, <3>4
  <2>9. CASE Tail(idequeue) = <<>>
    <3>1. state' = "idle"
      BY <1>12, <2>2, <2>9, IdeintrEffect
    <3>2. QueueOK'
      <4>1. HeadSent'
        BY <3>1 DEF HeadSent
      <4>2. n - 1 \in Nat
        BY <2>4
      <4> QED BY <2>4, <2>6, <2>7, <4>1, <4>2, QueueIs
    <3>3. IoPending'
      BY <2>3, <2>8, <2>9, <3>1 DEF IoPending
    <3> QED BY <3>2, <3>3
  <2>10. CASE Tail(idequeue) # <<>>
    <3>1. /\ n >= 2 /\ idequeue[2] \in Bufs /\ Head(idequeue)' = idequeue[2]
      BY <2>1, <2>3, <2>10, QueueHead
    <3>2. idequeue[2] # b
      BY <2>4, <2>5, <3>1
    <3>3. state' = "busy" /\ (dirty[idequeue[2]] => sent' = data[idequeue[2]])
      BY <1>12, <2>2, <2>10, IdeintrEffect DEF Idestart
    <3>4. dirty'[idequeue[2]] = dirty[idequeue[2]] /\ data'[idequeue[2]] = data[idequeue[2]]
      BY <2>3, <3>1, <3>2 DEF ReadIn
    <3>5. HeadSent'
      BY <3>1, <3>3, <3>4 DEF HeadSent
    <3>6. QueueOK'
      <4>1. n - 1 \in Nat
        BY <2>4
      <4> QED BY <2>4, <2>6, <2>7, <3>5, <4>1, QueueIs
    <3>7. IoPending'
      BY <2>3, <2>8, <2>10, <3>3 DEF IoPending
    <3> QED BY <3>6, <3>7
  <2> QED BY <2>9, <2>10
<1>13. CASE UNCHANGED vars
  BY <1>13, QueueKept DEF vars, procs, bcache, fields, ide
<1> QED
  BY <1>1, <1>2, <1>3, <1>4, <1>5, <1>6, <1>7, <1>8, <1>9, <1>10, <1>11, <1>12, <1>13,
     <1>14 DEF Next, BreadStep, HolderStep, IdeStep
-----------------------------------------------------------------------------
(* Pinned buffers. *)
LEMMA PinsFinite ==
    ASSUME NEW S, S \subseteq Bufs
    PROVE  IsFiniteSet(S) /\ Cardinality(S) \in Nat /\ Cardinality(S) <= NBUF
<1>1. IsFiniteSet(Bufs) /\ Cardinality(Bufs) = NBUF
  BY FS_Interval
<1> QED BY <1>1, FS_Subset, FS_CardinalityType
-----------------------------------------------------------------------------
(* The invariant of the buffer cache, of which each part needs others.     *)
LEMMA CacheInit == Init => CacheInv
BY InitFields, RefsInit, StartInit DEF CacheInv

LEMMA CacheNext == CacheInv /\ [Next]_vars => CacheInv'
BY FieldsNext, RefsNext, LocksNext, StaysNext, ContentsNext, QueueNext DEF CacheInv

(* CacheInv holds in every reachable state.                                *)
THEOREM Invariance == Spec => []CacheInv
BY CacheInit, CacheNext, PTL DEF Spec

(* The list of the buffers holds each once: brelse() finds the one that it *)
(* moves to the front, and leaves the order of the others.                 *)
LEMMA InList == ASSUME ListOK, NEW b \in Bufs PROVE \E i \in Bufs : mru[i] = b
<1>1. IsFiniteSet(Bufs)
  BY FS_Interval, BufferAssumption DEF Bufs
<1>2. mru \in Injection(Bufs, Bufs)
  BY DEF ListOK, Injection, IsInjective
<1>3. mru \in Surjection(Bufs, Bufs)
  BY <1>1, <1>2, FS_Injection
<1> QED BY <1>3 DEF Surjection

LEMMA ToFrontList ==
    ASSUME ListOK, NEW b \in Bufs
    PROVE  /\ ToFront(b) \in [Bufs -> Bufs]
           /\ \A i, j \in Bufs : ToFront(b)[i] = ToFront(b)[j] => i = j
<1> DEFINE k == PlaceOf(b)
<1>0. mru \in [Bufs -> Bufs] /\ \A i, j \in Bufs : mru[i] = mru[j] => i = j
  BY DEF ListOK
<1>1. k \in Bufs /\ mru[k] = b
  BY InList DEF PlaceOf
<1>2. \A i \in Bufs : i # 1 => i - 1 \in Bufs
  BY BufferAssumption DEF Bufs
<1>3. \A i \in Bufs : ToFront(b)[i] = IF i = 1 THEN b ELSE IF i <= k THEN mru[i - 1] ELSE mru[i]
  BY DEF ToFront
<1> HIDE DEF k
<1>4. \A i \in Bufs : ToFront(b)[i] \in Bufs
  <2> TAKE i \in Bufs
  <2>1. ToFront(b)[i] = b \/ ToFront(b)[i] = mru[i] \/ (i # 1 /\ ToFront(b)[i] = mru[i - 1])
    BY <1>3
  <2>2. \A j \in Bufs : mru[j] \in Bufs
    BY <1>0
  <2> QED BY <1>2, <2>1, <2>2
<1>5. ToFront(b) \in [Bufs -> Bufs]
  BY <1>4 DEF ToFront
<1> DEFINE Old(i) == IF i = 1 THEN k ELSE IF i <= k THEN i - 1 ELSE i
<1>6. \A i \in Bufs : Old(i) \in Bufs /\ ToFront(b)[i] = mru[Old(i)]
  BY <1>1, <1>2, <1>3
<1>7. \A i, j \in Bufs : Old(i) = Old(j) => i = j
  BY <1>1, BufferAssumption DEF Bufs
<1> HIDE DEF Old
<1>8. \A i, j \in Bufs : ToFront(b)[i] = ToFront(b)[j] => i = j
  BY <1>0, <1>6, <1>7
<1> QED BY <1>5, <1>8

LEMMA InitList == Binit => ListOK
BY BufferAssumption DEF Binit, ListOK, Bufs

LEMMA NextList == ASSUME FieldsOK, ListOK, [Next]_vars PROVE ListOK'
<1>1. ASSUME NEW p \in Procs, Brelse(p) PROVE ListOK'
  <2>1. mine[p] \in Bufs
    BY DEF FieldsOK
  <2>2. mru' = mru \/ mru' = ToFront(mine[p])
    BY <1>1 DEF Brelse
  <2>3. CASE mru' = mru
    BY <2>3 DEF ListOK
  <2>4. CASE mru' = ToFront(mine[p])
    <3>1. /\ mru' \in [Bufs -> Bufs]
          /\ \A i, j \in Bufs : mru'[i] = mru'[j] => i = j
      BY <2>1, <2>4, ToFrontList
    <3> QED BY <3>1 DEF ListOK
  <2> QED BY <2>2, <2>3, <2>4
<1>2. ASSUME mru' = mru PROVE ListOK'
  BY <1>2 DEF ListOK
<1>3. ASSUME NEW p \in Procs, BreadStep(p) PROVE mru' = mru
  BY <1>3 DEF BreadStep, BgetHit, BgetMiss, AcquireSleep, SleepOnLock, bcache
<1>4. ASSUME NEW p \in Procs, HolderStep(p), ~Brelse(p) PROVE mru' = mru
  BY <1>4 DEF HolderStep, ReleaseSleep, Bwrite, LogWrite, bcache, procs
<1>5. ASSUME NEW p \in Procs, IdeStep(p) PROVE mru' = mru
  BY <1>5 DEF IdeStep, Iderw, Killed, IderwWakes, bcache
<1>6. ASSUME DiskDone \/ Ideintr \/ UNCHANGED vars PROVE mru' = mru
  BY <1>6 DEF DiskDone, Ideintr, vars, bcache
<1> QED BY <1>1, <1>2, <1>3, <1>4, <1>5, <1>6 DEF Next

(* Every variable has its type, and the list, which bget() searches for an *)
(* unused buffer from its end, never loses a buffer and has none twice.    *)
THEOREM Types == Spec => []TypeOK
<1>1. Init => ListOK
  BY InitList DEF Init
<1>2. CacheInv /\ ListOK /\ [Next]_vars => ListOK'
  BY NextList DEF CacheInv
<1>3. CacheInv /\ ListOK => TypeOK
  BY DEF CacheInv, TypeOK
<1> QED BY <1>1, <1>2, <1>3, Invariance, PTL DEF Spec

(* Whatever other callers do between its bget() and its brelse(), a caller *)
(* has the buffer of the block that it asked for, and the block has no     *)
(* other buffer.                                                           *)
THEOREM Stays == Spec => []BufferStays
<1>1. CacheInv => BufferStays
  BY DEF CacheInv
<1> QED BY <1>1, Invariance, PTL

(* The driver loses no request: who sleeps in iderw() is on the queue, and *)
(* the disk works on it or has interrupted.                                *)
THEOREM Pending == Spec => []IoPending
<1>1. CacheInv => IoPending
  BY DEF CacheInv
<1> QED BY <1>1, Invariance, PTL

(* bget() panics only if the callers that have a buffer and the pinned     *)
(* buffers are no fewer than NBUF, however many there are of either.       *)
LEMMA EnoughBuffers == CacheInv => NoEarlyPanic
<1> SUFFICES ASSUME CacheInv, Cardinality(Using) + Cardinality(Pinned) < NBUF, Unused = {}
             PROVE  FALSE
  BY DEF NoEarlyPanic
<1> DEFINE R == {mine[q] : q \in Using}
<1>1. mine \in [Procs -> Bufs] /\ R \subseteq Bufs /\ Pinned \subseteq Bufs /\ Using \subseteq Procs
  BY DEF CacheInv, FieldsOK, Pinned, Using
<1>2. Cardinality(Using) \in Nat /\ IsFiniteSet(Using)
  BY <1>1, FS_Subset, FS_CardinalityType
<1>3. IsFiniteSet(R) /\ Cardinality(R) <= Cardinality(Using)
  <2>1. [q \in Using |-> mine[q]] \in Surjection(Using, R)
    BY <1>1 DEF Surjection
  <2> HIDE DEF R
  <2> QED BY <1>2, <2>1, FS_Surjection
<1>4. Bufs \subseteq R \cup Pinned
  <2> SUFFICES ASSUME NEW b \in Bufs, b \notin R PROVE b \in Pinned
    OBVIOUS
  <2>1. Users(b) = {}
    BY DEF Users, Using
  <2>2. refcnt[b] = 0
    BY <2>1, FS_EmptySet DEF CacheInv, RefsOK
  <2>3. dirty[b]
    BY <2>2 DEF Unused
  <2>4. b \notin Writing
    BY DEF Writing, Using
  <2> QED BY <2>3, <2>4 DEF Pinned
<1> HIDE DEF R
<1>5. Bufs = R \cup Pinned
  BY <1>1, <1>4
<1>6. Cardinality(R \cup Pinned) = NBUF
  <2>1. Cardinality(1 .. NBUF) = NBUF
    BY BufferAssumption, FS_Interval
  <2> QED BY <2>1, <1>5 DEF Bufs
<1>7. Cardinality(R \cup Pinned) <= Cardinality(R) + Cardinality(Pinned)
  <2>1. IsFiniteSet(Pinned) /\ IsFiniteSet(R)
    BY <1>1, <1>3, PinsFinite
  <2>2. IsFiniteSet(R \cap Pinned)
    BY <2>1, FS_Intersection
  <2>3. /\ Cardinality(R) \in Nat /\ Cardinality(Pinned) \in Nat
        /\ Cardinality(R \cap Pinned) \in Nat
    BY <2>1, <2>2, FS_CardinalityType
  <2>4. Cardinality(R \cup Pinned)
          = Cardinality(R) + Cardinality(Pinned) - Cardinality(R \cap Pinned)
    BY <2>1, FS_Union
  <2> QED BY <2>3, <2>4
<1>8. Cardinality(Pinned) \in Nat /\ Cardinality(R) \in Nat
  BY <1>1, <1>3, PinsFinite, FS_CardinalityType
<1> QED BY <1>2, <1>3, <1>6, <1>7, <1>8

THEOREM PanicsOnlyFull == Spec => []NoEarlyPanic
BY EnoughBuffers, Invariance, PTL
-----------------------------------------------------------------------------
(* Buffer implements BlockStore.  What a block is and whose it is follows  *)
(* from its valid buffer, of which there is at most one.                   *)
LEMMA OneBuffer ==
    ASSUME BufferStays, NEW b \in Bufs, blockno[b] \in Blocks, valid[b]
    PROVE  StoreVal[blockno[b]] = data[b] /\ StoreOwner[blockno[b]] = lock[b]
<1>1. Valid(blockno[b]) = {b}
  BY DEF Valid, Cached, BufferStays
<1>2. (CHOOSE c \in {b} : TRUE) = b
  OBVIOUS
<1> QED BY <1>1, <1>2 DEF StoreVal, StoreOwner

LEMMA OneBufferNext ==
    ASSUME BufferStays', NEW b \in Bufs, blockno'[b] \in Blocks, valid'[b]
    PROVE  StoreVal'[blockno'[b]] = data'[b] /\ StoreOwner'[blockno'[b]] = lock'[b]
<1>1. Valid(blockno[b])' = {b}
  BY DEF Valid, Cached, BufferStays
<1>2. (CHOOSE c \in {b} : TRUE) = b
  OBVIOUS
<1> QED BY <1>1, <1>2 DEF StoreVal, StoreOwner

LEMMA NoBuffer ==
    ASSUME NEW k \in Blocks, \A b \in Bufs : blockno[b] = k => ~valid[b]
    PROVE  StoreVal[k] = disk[k] /\ StoreOwner[k] = None
<1>1. Valid(k) = {}
  BY DEF Valid, Cached
<1> QED BY <1>1 DEF StoreVal, StoreOwner

(* A step that leaves alone the valid buffer of a block, or the disk if it *)
(* has none, leaves the block alone.                                       *)
SameBlock(k) == StoreVal'[k] = StoreVal[k] /\ StoreOwner'[k] = StoreOwner[k]

LEMMA Untouched ==
    ASSUME NEW k \in Blocks,
           \A b \in Bufs : (blockno[b] = k /\ valid[b]) <=> (blockno'[b] = k /\ valid'[b]),
           \A b \in Bufs : blockno[b] = k /\ valid[b] =>
                              data'[b] = data[b] /\ lock'[b] = lock[b],
           (\A b \in Bufs : blockno[b] = k => ~valid[b]) => disk'[k] = disk[k]
    PROVE  SameBlock(k)
<1>1. Valid(k)' = Valid(k)
  BY DEF Valid, Cached
<1>2. CASE Valid(k) = {}
  BY <1>1, <1>2 DEF StoreVal, StoreOwner, SameBlock, Valid, Cached
<1>3. CASE Valid(k) # {}
  <2>1. PICK b : b = CHOOSE c \in Valid(k) : TRUE
    OBVIOUS
  <2>2. b \in Valid(k)
    BY <1>3, <2>1
  <2>3. b \in Bufs /\ blockno[b] = k /\ valid[b]
    BY <2>2 DEF Valid, Cached
  <2>4. data'[b] = data[b] /\ lock'[b] = lock[b]
    BY <2>3
  <2>5. StoreVal[k] = data[b] /\ StoreOwner[k] = lock[b]
    BY <1>3, <2>1 DEF StoreVal, StoreOwner
  <2>6. StoreVal'[k] = data'[b] /\ StoreOwner'[k] = lock'[b]
    BY <1>1, <1>3, <2>1 DEF StoreVal, StoreOwner
  <2> QED BY <2>4, <2>5, <2>6 DEF SameBlock
<1> QED BY <1>2, <1>3

LEMMA StoreDomains ==
    /\ StoreVal = [k \in Blocks |-> StoreVal[k]]
    /\ StoreOwner = [k \in Blocks |-> StoreOwner[k]]
    /\ StoreVal' = [k \in Blocks |-> StoreVal'[k]]
    /\ StoreOwner' = [k \in Blocks |-> StoreOwner'[k]]
BY DEF StoreVal, StoreOwner

LEMMA StoreStutters ==
    ASSUME \A k \in Blocks : SameBlock(k)
    PROVE  UNCHANGED Store!bvars
<1>1. StoreVal' = StoreVal /\ StoreOwner' = StoreOwner
  BY StoreDomains DEF SameBlock
<1> QED BY <1>1 DEF Store!bvars

LEMMA StoreTake ==
    ASSUME NEW p \in Procs, NEW k \in Blocks, StoreOwner[k] = None, StoreOwner'[k] = p,
           StoreVal'[k] = StoreVal[k], \A l \in Blocks \ {k} : SameBlock(l)
    PROVE  Store!Next
<1>1. StoreVal' = StoreVal /\ StoreOwner' = [StoreOwner EXCEPT ![k] = p]
  BY StoreDomains DEF SameBlock
<1> QED BY <1>1 DEF Store!Next, Store!Take

LEMMA StoreGiveBack ==
    ASSUME NEW p \in Procs, NEW k \in Blocks, StoreOwner[k] = p, StoreOwner'[k] = None,
           StoreVal'[k] = StoreVal[k], \A l \in Blocks \ {k} : SameBlock(l)
    PROVE  Store!Next
<1>1. StoreVal' = StoreVal /\ StoreOwner' = [StoreOwner EXCEPT ![k] = None]
  BY StoreDomains DEF SameBlock
<1> QED BY <1>1 DEF Store!Next, Store!GiveBack

LEMMA StoreChange ==
    ASSUME NEW p \in Procs, NEW k \in Blocks, StoreOwner[k] = p, StoreOwner'[k] = p,
           StoreVal'[k] \in Data, \A l \in Blocks \ {k} : SameBlock(l)
    PROVE  Store!Next
<1>1. StoreOwner' = StoreOwner /\ StoreVal' = [StoreVal EXCEPT ![k] = StoreVal'[k]]
  BY StoreDomains DEF SameBlock
<1> QED BY <1>1 DEF Store!Next, Store!Change

LEMMA StoreStart == Init => Store!Init
<1> SUFFICES ASSUME Init PROVE Store!Init
  OBVIOUS
<1>1. /\ valid = [b \in Bufs |-> FALSE] /\ disk \in [Blocks -> Data]
  BY DEF Init, Binit, Ideinit
<1>2. \A k \in Blocks : StoreVal[k] = disk[k] /\ StoreOwner[k] = None
  BY <1>1, NoBuffer
<1>3. StoreVal \in [Blocks -> Data] /\ StoreOwner = [k \in Blocks |-> None]
  BY <1>1, <1>2, StoreDomains
<1> QED BY <1>3 DEF Store!Init

(* The block of the buffer that a caller has. *)
LEMMA MyBlock ==
    ASSUME CacheInv, NEW p \in Procs, pc[p] # "idle"
    PROVE  mine[p] \in Bufs /\ blockno[mine[p]] \in Blocks
BY DEF CacheInv, FieldsOK, BufferStays
LEMMA NoBufferNext ==
    ASSUME NEW k \in Blocks, \A b \in Bufs : blockno'[b] = k => ~valid'[b]
    PROVE  StoreVal'[k] = disk'[k] /\ StoreOwner'[k] = None
<1>1. Valid(k)' = {}
  BY DEF Valid, Cached
<1> QED BY <1>1 DEF StoreVal, StoreOwner

LEMMA QuietStep ==
    ASSUME UNCHANGED <<blockno, valid, data, disk, lock>>
    PROVE  UNCHANGED Store!bvars
<1>1. \A k \in Blocks : SameBlock(k)
  BY Untouched
<1> QED BY <1>1, StoreStutters

(* The buffer that bget() recycles is clean, and nobody has its lock: what *)
(* it held is on the disk.                                                 *)
LEMMA RecycleStep ==
    ASSUME CacheInv, CacheInv', NEW p \in Procs, NEW k \in Blocks, BgetMiss(p, k)
    PROVE  UNCHANGED Store!bvars
<1>1. PICK b \in Oldest : /\ blockno' = [blockno EXCEPT ![b] = k]
                          /\ valid' = [valid EXCEPT ![b] = FALSE]
  BY DEF BgetMiss
<1>2. /\ b \in Bufs /\ refcnt[b] = 0 /\ ~dirty[b]
      /\ UNCHANGED <<data, lock, disk>>
  BY <1>1 DEF BgetMiss, Oldest, Unused, ide
<1>3. lock[b] = None
  <2>1. \A q \in Procs : mine[q] = b => pc[q] = "idle"
    BY <1>2, Unreferred DEF CacheInv
  <2>2. \A q \in Procs : lock[b] # q
    BY <1>2, <2>1 DEF CacheInv, LocksOK, Holding, Io
  <2> QED BY <1>2, <2>2 DEF CacheInv, FieldsOK
<1>4. /\ blockno \in [Bufs -> Blocks \cup {None}] /\ valid \in [Bufs -> BOOLEAN]
      /\ \A c, d \in Bufs : blockno[c] = blockno[d] /\ blockno[c] # None => c = d
  BY DEF CacheInv, FieldsOK, BufferStays
<1>5. \A c \in Bufs : /\ c # b => blockno'[c] = blockno[c] /\ valid'[c] = valid[c]
                      /\ c = b => ~valid'[c]
  BY <1>1, <1>2, <1>4
<1>6. ASSUME NEW l \in Blocks PROVE SameBlock(l)
  <2>1. CASE blockno[b] = l /\ valid[b]
    <3>1. StoreVal[l] = data[b] /\ StoreOwner[l] = None
      BY <1>2, <1>3, <2>1, OneBuffer DEF CacheInv
    <3>2. data[b] = disk[l]
      BY <1>2, <2>1 DEF CacheInv, ContentsOK
    <3>3. ASSUME NEW c \in Bufs, blockno'[c] = l PROVE ~valid'[c]
      <4>1. CASE c = b
        BY <1>5, <4>1
      <4>2. CASE c # b
        <5>1. blockno[c] = l
          BY <1>5, <3>3, <4>2
        <5> QED BY <1>2, <1>4, <2>1, <4>2, <5>1
      <4> QED BY <4>1, <4>2
    <3>4. StoreVal'[l] = disk'[l] /\ StoreOwner'[l] = None
      BY <3>3, NoBufferNext
    <3> QED BY <1>2, <3>1, <3>2, <3>4 DEF SameBlock
  <2>2. CASE ~(blockno[b] = l /\ valid[b])
    <3>1. \A c \in Bufs : (blockno[c] = l /\ valid[c]) <=> (blockno'[c] = l /\ valid'[c])
      BY <1>5, <2>2
    <3>2. data' = data /\ lock' = lock /\ disk' = disk
      BY <1>2
    <3> HIDE <1>1, <1>2
    <3> QED BY <3>1, <3>2, Untouched
  <2> QED BY <2>1, <2>2
<1> QED BY <1>6, StoreStutters

LEMMA AcquireStep ==
    ASSUME CacheInv, CacheInv', NEW p \in Procs, AcquireSleep(p)
    PROVE  [Store!Next]_(Store!bvars)
<1>1. /\ pc[p] = "lock" /\ lock[mine[p]] = None
      /\ lock' = [lock EXCEPT ![mine[p]] = p]
      /\ UNCHANGED <<blockno, valid, data, disk>>
  BY DEF AcquireSleep, LockFree, bcache, fields, ide
<1>2. mine[p] \in Bufs /\ blockno[mine[p]] \in Blocks /\ lock \in [Bufs -> Procs \cup {None}]
  BY <1>1, MyBlock DEF CacheInv, FieldsOK
<1>3. \A c \in Bufs \ {mine[p]} : lock'[c] = lock[c]
  BY <1>1, <1>2
<1>4. CASE valid[mine[p]]
  <2>1. /\ StoreVal[blockno[mine[p]]] = data[mine[p]]
        /\ StoreOwner[blockno[mine[p]]] = None
    BY <1>1, <1>2, <1>4, OneBuffer DEF CacheInv
  <2>2. /\ StoreVal'[blockno[mine[p]]] = data[mine[p]]
        /\ StoreOwner'[blockno[mine[p]]] = p
    BY <1>1, <1>2, <1>4, OneBufferNext DEF CacheInv
  <2>3. \A l \in Blocks \ {blockno[mine[p]]} : SameBlock(l)
    BY <1>1, <1>3, Untouched
  <2> QED BY <1>2, <2>1, <2>2, <2>3, StoreTake
<1>5. CASE ~valid[mine[p]]
  <2>1. \A l \in Blocks : SameBlock(l)
    BY <1>1, <1>3, <1>5, Untouched
  <2> QED BY <2>1, StoreStutters
<1> QED BY <1>4, <1>5

(* A caller past bread() owns its block.                                   *)
LEMMA HeldBlock ==
    ASSUME CacheInv, NEW p \in Procs, pc[p] = "held"
    PROVE  /\ mine[p] \in Bufs /\ blockno[mine[p]] \in Blocks
           /\ valid[mine[p]] /\ lock[mine[p]] = p
           /\ StoreVal[blockno[mine[p]]] = data[mine[p]]
           /\ StoreOwner[blockno[mine[p]]] = p
<1>1. mine[p] \in Bufs /\ blockno[mine[p]] \in Blocks
  BY MyBlock
<1>2. valid[mine[p]] /\ lock[mine[p]] = p
  BY <1>1 DEF CacheInv, ContentsOK, LocksOK, Holding
<1> QED BY <1>1, <1>2, OneBuffer DEF CacheInv

LEMMA ReleaseStep ==
    ASSUME CacheInv, CacheInv', NEW p \in Procs, ReleaseSleep(p)
    PROVE  Store!Next
<1>1. /\ pc[p] = "held" /\ lock' = [lock EXCEPT ![mine[p]] = None]
      /\ UNCHANGED <<blockno, valid, data, disk>>
  BY DEF ReleaseSleep, bcache, fields, ide
<1>2. lock \in [Bufs -> Procs \cup {None}]
  BY DEF CacheInv, FieldsOK
<1>3. \A l \in Blocks \ {blockno[mine[p]]} : SameBlock(l)
  BY <1>1, <1>2, HeldBlock, Untouched
<1>4. /\ StoreVal'[blockno[mine[p]]] = data[mine[p]]
      /\ StoreOwner'[blockno[mine[p]]] = None
  BY <1>1, <1>2, HeldBlock, OneBufferNext DEF CacheInv
<1> QED BY <1>1, <1>3, <1>4, HeldBlock, StoreGiveBack

LEMMA WriteStep ==
    ASSUME CacheInv, CacheInv', NEW p \in Procs, NEW d \in Data,
           Bwrite(p, d) \/ LogWrite(p, d)
    PROVE  Store!Next
<1>1. /\ pc[p] = "held" /\ data' = [data EXCEPT ![mine[p]] = d]
      /\ UNCHANGED <<blockno, valid, lock, disk>>
  BY DEF Bwrite, LogWrite, ide
<1>2. data \in [Bufs -> Data]
  BY DEF CacheInv, FieldsOK
<1>3. \A l \in Blocks \ {blockno[mine[p]]} : SameBlock(l)
  BY <1>1, <1>2, HeldBlock, Untouched
<1>4. /\ StoreVal'[blockno[mine[p]]] = d
      /\ StoreOwner'[blockno[mine[p]]] = p
  BY <1>1, <1>2, HeldBlock, OneBufferNext DEF CacheInv
<1> QED BY <1>1, <1>3, <1>4, HeldBlock, StoreChange

(* The disk writes a dirty buffer, which is valid.                         *)
LEMMA DiskStep ==
    ASSUME CacheInv, CacheInv', DiskDone
    PROVE  UNCHANGED Store!bvars
<1>1. idequeue # <<>> /\ UNCHANGED <<blockno, valid, data, lock>>
  BY DEF DiskDone, CacheInv, IoPending, bcache, fields
<1>2. PICK h \in Bufs : h = Head(idequeue) /\ blockno[h] \in Blocks
  BY <1>1, HeadHolder DEF CacheInv
<1>3. disk \in [Blocks -> Data]
  BY DEF CacheInv, FieldsOK
<1>4. ASSUME NEW l \in Blocks PROVE SameBlock(l)
  <2>1. (\A b \in Bufs : blockno[b] = l => ~valid[b]) => disk'[l] = disk[l]
    BY <1>2, <1>3 DEF DiskDone, CacheInv, ContentsOK
  <2> QED BY <1>1, <2>1, Untouched
<1> QED BY <1>4, StoreStutters

(* The end of a read makes the buffer valid: its caller has the block.     *)
LEMMA IntrStep ==
    ASSUME CacheInv, CacheInv', Ideintr
    PROVE  [Store!Next]_(Store!bvars)
<1>1. PICK h \in Bufs : h = Head(idequeue)
  BY IdeintrEffect DEF CacheInv
<1>2. /\ idequeue # <<>> /\ data' = ReadIn(h) /\ valid' = [valid EXCEPT ![h] = TRUE]
      /\ UNCHANGED <<blockno, lock, disk>>
  BY <1>1, IdeintrEffect DEF CacheInv
<1>3. PICK p \in Procs : lock[h] = p /\ blockno[h] \in Blocks
  BY <1>1, <1>2, HeadHolder DEF CacheInv
<1>4. /\ valid \in [Bufs -> BOOLEAN] /\ data \in [Bufs -> Data]
      /\ dirty[h] => valid[h]
      /\ valid[h] /\ ~dirty[h] => data[h] = disk[blockno[h]]
      /\ \A c, d \in Bufs : blockno[c] = blockno[d] /\ blockno[c] # None => c = d
  BY DEF CacheInv, FieldsOK, ContentsOK, BufferStays
<1>5. \A c \in Bufs \ {h} : data'[c] = data[c] /\ valid'[c] = valid[c]
  BY <1>2, <1>4 DEF ReadIn
<1>6. CASE valid[h]
  <2>1. data'[h] = data[h] /\ valid'[h] = valid[h]
    BY <1>2, <1>4, <1>6 DEF ReadIn
  <2>2. \A l \in Blocks : SameBlock(l)
    BY <1>2, <1>5, <2>1, Untouched
  <2> QED BY <2>2, StoreStutters
<1>7. CASE ~valid[h]
  <2>1. data'[h] = disk[blockno[h]] /\ valid'[h]
    BY <1>2, <1>4, <1>7 DEF ReadIn
  <2>2. StoreVal[blockno[h]] = disk[blockno[h]] /\ StoreOwner[blockno[h]] = None
    BY <1>3, <1>4, <1>7, NoBuffer
  <2>3. StoreVal'[blockno[h]] = disk[blockno[h]] /\ StoreOwner'[blockno[h]] = p
    BY <1>2, <1>3, <2>1, OneBufferNext DEF CacheInv
  <2>4. \A l \in Blocks \ {blockno[h]} : SameBlock(l)
    BY <1>2, <1>5, Untouched
  <2> QED BY <1>3, <2>2, <2>3, <2>4, StoreTake
<1> QED BY <1>6, <1>7

LEMMA StoreNext == CacheInv /\ CacheInv' /\ [Next]_vars => [Store!Next]_(Store!bvars)
<1> SUFFICES ASSUME CacheInv, CacheInv', [Next]_vars
             PROVE  [Store!Next]_(Store!bvars)
  OBVIOUS
<1>1. ASSUME NEW p \in Procs, NEW k \in Blocks, BgetHit(p, k) PROVE UNCHANGED Store!bvars
  BY <1>1, QuietStep DEF BgetHit, fields, ide
<1>2. ASSUME NEW p \in Procs, NEW k \in Blocks, BgetMiss(p, k) PROVE UNCHANGED Store!bvars
  BY <1>2, RecycleStep
<1>3. ASSUME NEW p \in Procs, AcquireSleep(p) PROVE [Store!Next]_(Store!bvars)
  BY <1>3, AcquireStep
<1>4. ASSUME NEW p \in Procs, SleepOnLock(p) PROVE UNCHANGED Store!bvars
  BY <1>4, QuietStep DEF SleepOnLock, bcache, fields, ide
<1>5. ASSUME NEW p \in Procs, ReleaseSleep(p) PROVE Store!Next
  BY <1>5, ReleaseStep
<1>6. ASSUME NEW p \in Procs, Brelse(p) PROVE UNCHANGED Store!bvars
  BY <1>6, QuietStep DEF Brelse, fields, ide
<1>7. ASSUME NEW p \in Procs, NEW d \in Data, Bwrite(p, d) \/ LogWrite(p, d)
      PROVE  Store!Next
  BY <1>7, WriteStep
<1>8. ASSUME NEW p \in Procs, Iderw(p) PROVE UNCHANGED Store!bvars
  BY <1>8, IderwEffect, QuietStep
<1>9. ASSUME NEW p \in Procs, IderwWakes(p) PROVE UNCHANGED Store!bvars
  BY <1>9, QuietStep DEF IderwWakes, bcache, fields, ide
<1>13. ASSUME NEW p \in Procs, Killed(p) PROVE UNCHANGED Store!bvars
  BY <1>13, QuietStep DEF Killed, bcache, fields, ide
<1>10. ASSUME DiskDone PROVE UNCHANGED Store!bvars
  BY <1>10, DiskStep
<1>11. ASSUME Ideintr PROVE [Store!Next]_(Store!bvars)
  BY <1>11, IntrStep
<1>12. CASE UNCHANGED vars
  BY <1>12, QuietStep DEF vars, bcache, fields, ide
<1> QED
  BY <1>1, <1>2, <1>3, <1>4, <1>5, <1>6, <1>7, <1>8, <1>9, <1>10, <1>11, <1>12, <1>13
     DEF Next, BreadStep, HolderStep, IdeStep

(* The cache, its locks and the driver are a set of blocks, each with one  *)
(* process at a time, which reads what was last written to it: bread(),    *)
(* bwrite() and brelse() implement BlockStore.                             *)
THEOREM Implements == Spec => StoreSpec
<1>1. CacheInv /\ CacheInv' /\ [Next]_vars => [Store!Next]_(Store!bvars)
  BY StoreNext
<1> QED BY <1>1, StoreStart, Invariance, PTL DEF Spec, StoreSpec, Store!Spec
=============================================================================
