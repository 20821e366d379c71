------------------------------ MODULE LogProof ------------------------------
(***************************************************************************)
(* Proofs about Log, for every finite number of callers, every file system *)
(* and every size of the log: a crash at any step splits no call.          *)
(***************************************************************************)
EXTENDS Log, FiniteSetTheorems, FunctionTheorems, SequenceTheorems, TLAPS

USE LogAssumption, LogFits DEF Threads

-----------------------------------------------------------------------------
(* Headers.                                                                *)
LEMMA HeaderFacts ==
    ASSUME NEW h \in Header
    PROVE  /\ h \in Seq(Home) /\ Len(h) \in Nat /\ Len(h) <= LOGSIZE
           /\ \A i \in 1 .. Len(h) : h[i] \in Home
           /\ \A i, j \in 1 .. Len(h) : h[i] = h[j] => i = j
BY ElementOfSeq DEF Header

LEMMA EmptyHeader == <<>> \in Header /\ Len(<<>>) = 0
BY EmptySeq DEF Header

LEMMA AppendHeader ==
    ASSUME NEW h \in Header, NEW b \in Home,
           Len(h) < LOGSIZE, \A i \in 1 .. Len(h) : h[i] # b
    PROVE  /\ Append(h, b) \in Header /\ Len(Append(h, b)) = Len(h) + 1
           /\ Append(h, b)[Len(h) + 1] = b
           /\ \A i \in 1 .. Len(h) : Append(h, b)[i] = h[i]
<1> DEFINE g == Append(h, b)
<1>1. /\ g \in Seq(Home) /\ Len(g) = Len(h) + 1 /\ g[Len(h) + 1] = b
      /\ \A i \in 1 .. Len(h) : g[i] = h[i]
  BY HeaderFacts, AppendProperties
<1> HIDE DEF g
<1>2. \A i, j \in 1 .. Len(g) : g[i] = g[j] => i = j
  BY <1>1, HeaderFacts
<1>3. Len(g) <= LOGSIZE
  BY <1>1, HeaderFacts
<1>4. g \in Header
  BY <1>1, <1>2, <1>3 DEF Header
<1> QED BY <1>1, <1>4 DEF g

(* What log_write() leaves, whether it appends or absorbs.                 *)
LEMMA Appended ==
    ASSUME TypeOK, NEW p \in Procs, LogWrite(p)
    PROVE  \E b \in Home, d \in Data :
              /\ buf' = [buf EXCEPT ![b] = d] /\ dirty' = [dirty EXCEPT ![b] = TRUE]
              /\ wrote' = [wrote EXCEPT ![p] = @ \cup {b}]
              /\ Cardinality(wrote[p] \cup {b}) <= OpBlocks
              /\ lh' \in Header /\ Logged' = Logged \cup {b}
              /\ Len(lh') = IF b \in Logged THEN Len(lh) ELSE Len(lh) + 1
              /\ \A i \in 1 .. Len(lh) : lh'[i] = lh[i]
<1>1. PICK b \in Home, d \in Data :
          /\ buf' = [buf EXCEPT ![b] = d] /\ dirty' = Pinned(b)
          /\ lh' = IF b \in Logged THEN lh ELSE Append(lh, b)
          /\ wrote' = [wrote EXCEPT ![p] = @ \cup {b}]
          /\ Cardinality(wrote[p] \cup {b}) <= OpBlocks
  BY DEF LogWrite
<1>2. lh \in Header /\ Len(lh) < LOGSIZE
  BY DEF TypeOK, LogWrite
<1>3. CASE b \in Logged
  <2>1. Logged' = Logged \cup {b}
    BY <1>1, <1>3 DEF Logged
  <2> QED BY <1>1, <1>2, <1>3, <2>1 DEF Pinned
<1>4. CASE b \notin Logged
  <2>1. \A i \in 1 .. Len(lh) : lh[i] # b
    BY <1>4 DEF Logged
  <2>2. /\ lh' \in Header /\ Len(lh') = Len(lh) + 1 /\ lh'[Len(lh) + 1] = b
        /\ \A i \in 1 .. Len(lh) : lh'[i] = lh[i]
    BY <1>1, <1>2, <1>4, <2>1, AppendHeader
  <2>3. Logged' = Logged \cup {b}
    BY <1>2, <2>2, HeaderFacts DEF Logged
  <2> QED BY <1>1, <1>4, <2>2, <2>3 DEF Pinned
<1> QED BY <1>3, <1>4

-----------------------------------------------------------------------------
(* Type correctness.                                                       *)
LEMMA TypeInit == Init => TypeOK
<1> SUFFICES ASSUME Init PROVE TypeOK
  OBVIOUS
<1>1. /\ pc \in [Threads -> {"begin", "read_head"}] /\ \A p \in Procs : pc[p] = "begin"
      /\ pc[Boot] = "read_head"
  BY DEF Init, Booting
<1>2. /\ tail \in [Threads -> 1 .. LOGSIZE + 1] /\ wrote \in [Procs -> SUBSET Home]
      /\ buf \in [Home -> Data \cup {NotCached}] /\ dirty \in [Home -> BOOLEAN]
      /\ home \in [Home -> Data] /\ logd \in [1 .. LOGSIZE -> Data]
  BY DEF Init, Starts, Nothing, Empty, Clean
<1> QED BY <1>1, <1>2, EmptyHeader DEF Init, TypeOK

LEMMA OpenCount ==
    ASSUME PhasesOK
    PROVE  /\ IsFiniteSet(Open) /\ outstanding \in Nat /\ outstanding = Cardinality(Open)
           /\ outstanding = 0 <=> Open = {}
           /\ \A p \in Procs : pc[p] = "op" => outstanding >= 1
<1>1. IsFiniteSet(Open)
  BY FS_Subset DEF Open
<1>2. outstanding \in Nat /\ (outstanding = 0 <=> Open = {})
  BY <1>1, FS_CardinalityType, FS_EmptySet DEF PhasesOK
<1>3. \A p \in Procs : pc[p] = "op" => Open # {}
  BY DEF Open
<1> QED BY <1>1, <1>2, <1>3 DEF PhasesOK

LEMMA TypeNext == TypeOK /\ PhasesOK /\ [Next]_vars => TypeOK'
<1> SUFFICES ASSUME TypeOK, PhasesOK, [Next]_vars PROVE TypeOK'
  OBVIOUS
<1> USE DEF Goto, Committer
<1>0. 1 \in 1 .. LOGSIZE + 1
  OBVIOUS
<1>1. ASSUME NEW p \in Procs, BeginOp(p) \/ BeginWaits(p) \/ EndOp(p) PROVE TypeOK'
  <2>1. /\ \A t \in Threads \ {p} : pc'[t] = pc[t] \/ (pc'[t] = "begin" /\ pc[t] = "asleep")
        /\ pc'[p] \in {"begin", "asleep", "op", "done", "write_log"}
    BY <1>1 DEF BeginOp, BeginWaits, EndOp, Woken, TypeOK
  <2>2. /\ pc' \in [Threads -> {"begin", "asleep", "op", "read_head", "up"} \cup Committer]
        /\ \A q \in Procs : pc'[q] \notin {"read_head", "up"}
        /\ pc'[Boot] \in {"read_head", "install", "erase", "up"}
    BY <1>1, <2>1 DEF TypeOK, BeginOp, BeginWaits, EndOp, Woken
  <2>3. outstanding' \in Nat
    BY <1>1, OpenCount DEF BeginOp, BeginWaits, EndOp, TypeOK, log
  <2>4. wrote' \in [Procs -> SUBSET Home] /\ committing' \in BOOLEAN
    BY <1>1 DEF BeginOp, BeginWaits, EndOp, TypeOK, log
  <2>6. tail' = tail \/ tail' = [tail EXCEPT ![p] = 1]
    BY <1>1 DEF BeginOp, BeginWaits, EndOp
  <2>7. tail' \in [Threads -> 1 .. LOGSIZE + 1]
    BY <2>6, <1>0 DEF TypeOK
  <2>5. UNCHANGED <<lh, cache, disk>>
    BY <1>1 DEF BeginOp, BeginWaits, EndOp, log
  <2>8. /\ lh' = lh /\ hdr' = hdr /\ buf' = buf /\ dirty' = dirty
        /\ home' = home /\ logd' = logd
    BY <2>5 DEF cache, disk
  <2>9. /\ lh' \in Header /\ hdr' \in Header /\ buf' \in [Home -> Data \cup {NotCached}]
        /\ dirty' \in [Home -> BOOLEAN] /\ home' \in [Home -> Data]
        /\ logd' \in [1 .. LOGSIZE -> Data]
    BY <2>8 DEF TypeOK
  <2> HIDE DEF Committer
  <2> QED BY <2>2, <2>3, <2>4, <2>7, <2>9, Zenon DEF TypeOK
<1>2. ASSUME NEW p \in Procs, LogWrite(p) PROVE TypeOK'
  <2>1. PICK b \in Home, d \in Data :
              /\ buf' = [buf EXCEPT ![b] = d] /\ dirty' = [dirty EXCEPT ![b] = TRUE]
              /\ wrote' = [wrote EXCEPT ![p] = @ \cup {b}]
              /\ Cardinality(wrote[p] \cup {b}) <= OpBlocks
              /\ lh' \in Header /\ Logged' = Logged \cup {b}
              /\ Len(lh') = IF b \in Logged THEN Len(lh) ELSE Len(lh) + 1
              /\ \A i \in 1 .. Len(lh) : lh'[i] = lh[i]
    BY <1>2, Appended
  <2> QED BY <1>2, <2>1 DEF LogWrite, TypeOK, disk
<1>3. ASSUME NEW p \in Procs, WriteLog(p) PROVE TypeOK'
  <2>1. CASE tail[p] <= Len(lh)
    <3>1. Len(lh) \in Nat /\ Len(lh) <= LOGSIZE /\ lh[tail[p]] \in Home
      BY <2>1, HeaderFacts DEF TypeOK
    <3>2. Read(lh[tail[p]]) \in Data
      BY <3>1 DEF Read, TypeOK
    <3>3. tail[p] + 1 \in 1 .. LOGSIZE + 1
      BY <2>1, <3>1 DEF TypeOK
    <3>4. /\ logd' = [logd EXCEPT ![tail[p]] = Read(lh[tail[p]])]
          /\ tail' = [tail EXCEPT ![p] = @ + 1] /\ pc' = pc
          /\ UNCHANGED <<wrote, log, cache, home, hdr>>
      BY <1>3, <2>1 DEF WriteLog
    <3>5. logd' \in [1 .. LOGSIZE -> Data] /\ tail' \in [Threads -> 1 .. LOGSIZE + 1]
      BY <3>2, <3>3, <3>4 DEF TypeOK
    <3> QED BY <3>4, <3>5 DEF TypeOK, log, cache
  <2>2. CASE ~(tail[p] <= Len(lh))
    BY <1>3, <2>2 DEF WriteLog, TypeOK, log, cache
  <2> QED BY <2>1, <2>2
<1>4. ASSUME NEW p \in Procs, WriteHead(p) \/ CommitDone(p) PROVE TypeOK'
  <2>1. /\ pc' \in [Threads -> {"begin", "asleep", "op", "read_head", "up"} \cup Committer]
        /\ \A q \in Procs : pc'[q] \notin {"read_head", "up"}
        /\ pc'[Boot] \in {"read_head", "install", "erase", "up"}
    BY <1>4 DEF WriteHead, CommitDone, Woken, TypeOK
  <2>2. committing' \in BOOLEAN /\ hdr' \in Header
    BY <1>4 DEF WriteHead, CommitDone, TypeOK, log, disk
  <2>4. tail' = tail \/ tail' = [tail EXCEPT ![p] = 1]
    BY <1>4 DEF WriteHead, CommitDone
  <2>5. tail' \in [Threads -> 1 .. LOGSIZE + 1]
    BY <2>4, <1>0 DEF TypeOK
  <2>3. UNCHANGED <<wrote, outstanding, lh, cache, home, logd>>
    BY <1>4 DEF WriteHead, CommitDone, log, disk
  <2> QED BY <2>1, <2>2, <2>3, <2>5 DEF TypeOK, cache
<1>5. ASSUME NEW t \in Threads, InstallTrans(t) PROVE TypeOK'
  <2>1. CASE tail[t] <= Len(lh)
    <3>1. Len(lh) \in Nat /\ Len(lh) <= LOGSIZE /\ lh[tail[t]] \in Home
      BY <2>1, HeaderFacts DEF TypeOK
    <3>2. tail[t] \in 1 .. LOGSIZE /\ logd[tail[t]] \in Data /\ tail[t] + 1 \in 1 .. LOGSIZE + 1
      BY <2>1, <3>1 DEF TypeOK
    <3>3. /\ home' \in [Home -> Data] /\ buf' \in [Home -> Data \cup {NotCached}]
          /\ dirty' \in [Home -> BOOLEAN]
      BY <1>5, <2>1, <3>1, <3>2 DEF InstallTrans, TypeOK
    <3>5. tail' \in [Threads -> 1 .. LOGSIZE + 1]
      BY <1>5, <2>1, <3>1, <3>2 DEF InstallTrans, TypeOK
    <3>4. UNCHANGED <<pc, wrote, log, logd, hdr>>
      BY <1>5, <2>1 DEF InstallTrans
    <3> QED BY <3>3, <3>4, <3>5 DEF TypeOK, log
  <2>2. CASE ~(tail[t] <= Len(lh))
    BY <1>5, <2>2 DEF InstallTrans, TypeOK, log, cache
  <2> QED BY <2>1, <2>2
<1>6. ASSUME NEW t \in Threads, Erase(t) PROVE TypeOK'
  BY <1>6, EmptyHeader DEF Erase, TypeOK, cache
<1>7. CASE ReadHead
  BY <1>7 DEF ReadHead, Found, TypeOK, cache, disk
<1>8. CASE Crash
  <2>1. /\ pc' \in [Threads -> {"begin", "read_head"}] /\ \A p \in Procs : pc'[p] = "begin"
        /\ pc'[Boot] = "read_head"
    BY <1>8 DEF Crash, Booting
  <2>2. /\ tail' \in [Threads -> 1 .. LOGSIZE + 1] /\ wrote' \in [Procs -> SUBSET Home]
        /\ buf' \in [Home -> Data \cup {NotCached}] /\ dirty' \in [Home -> BOOLEAN]
    BY <1>8 DEF Crash, Starts, Nothing, Empty, Clean
  <2> QED BY <1>8, <2>1, <2>2, EmptyHeader DEF Crash, TypeOK, disk
<1>9. ASSUME NEW b \in Home, Cache(b) \/ Recycle(b) PROVE TypeOK'
  BY <1>9 DEF Cache, Recycle, TypeOK, procs, log, disk
<1>10. CASE UNCHANGED vars
  BY <1>10 DEF vars, TypeOK, procs, log, cache, disk
<1> QED BY <1>1, <1>2, <1>3, <1>4, <1>5, <1>6, <1>7, <1>8, <1>9, <1>10
        DEF Next, CallStep, CommitStep, LogStep
-----------------------------------------------------------------------------
(* Calls, commits and the boot thread.                                     *)
LEMMA PhasesInit == Init => PhasesOK
<1> SUFFICES ASSUME Init PROVE PhasesOK
  OBVIOUS
<1>1. /\ \A p \in Procs : pc[p] = "begin" /\ wrote[p] = {}
      /\ pc[Boot] = "read_head" /\ lh = <<>> /\ outstanding = 0 /\ ~committing
  BY DEF Init, Booting, Nothing
<1>2. Open = {}
  BY <1>1 DEF Open
<1> QED BY <1>1, <1>2, FS_EmptySet DEF PhasesOK, Committer, Up

LEMMA PhasesNext == TypeOK /\ PhasesOK /\ [Next]_vars => PhasesOK'
<1> SUFFICES ASSUME TypeOK, PhasesOK, [Next]_vars PROVE PhasesOK'
  OBVIOUS
<1> USE DEF Goto, Committer, Up
<1>1. ASSUME NEW p \in Procs, BeginOp(p) PROVE PhasesOK'
  <2>1. /\ pc' = [pc EXCEPT ![p] = "op"] /\ pc[p] = "begin" /\ pc[Boot] = "up"
        /\ ~committing /\ outstanding' = outstanding + 1
        /\ UNCHANGED <<wrote, committing, lh>>
    BY <1>1 DEF BeginOp, MayBegin
  <2>2. Open' = Open \cup {p} /\ p \notin Open
    BY <2>1 DEF Open, TypeOK
  <2>3. outstanding' = Cardinality(Open')
    BY <2>1, <2>2, OpenCount, FS_AddElement
  <2> QED BY <2>1, <2>2, <2>3 DEF PhasesOK, TypeOK
<1>2. ASSUME NEW p \in Procs, BeginWaits(p) PROVE PhasesOK'
  <2>1. /\ pc' = [pc EXCEPT ![p] = "asleep"] /\ pc[p] = "begin" /\ pc[Boot] = "up"
        /\ UNCHANGED <<wrote, outstanding, committing, lh>>
    BY <1>2 DEF BeginWaits, log
  <2>2. Open' = Open
    BY <2>1 DEF Open, TypeOK
  <2> QED BY <2>1, <2>2 DEF PhasesOK, TypeOK
<1>3. ASSUME NEW p \in Procs, LogWrite(p) PROVE PhasesOK'
  <2>1. /\ pc[p] = "op" /\ UNCHANGED <<pc, outstanding, committing>>
        /\ \A q \in Procs : q # p => wrote'[q] = wrote[q]
    BY <1>3 DEF LogWrite, TypeOK
  <2>2. Open' = Open /\ Open # {} /\ ~committing /\ pc[Boot] = "up"
    BY <2>1 DEF Open, PhasesOK
  <2>3. \A t \in Threads : pc[t] \notin {"done", "read_head"}
    BY <2>2 DEF PhasesOK, TypeOK
  <2> QED BY <2>1, <2>2, <2>3 DEF PhasesOK, TypeOK
<1>4. ASSUME NEW p \in Procs, EndOp(p) PROVE PhasesOK'
  <2>1. /\ pc[p] = "op" /\ ~committing /\ outstanding' = outstanding - 1 /\ lh' = lh
        /\ wrote' = [wrote EXCEPT ![p] = {}] /\ pc[Boot] = "up" /\ p \in Open
        /\ \A q \in Procs : pc[q] \notin Committer
    BY <1>4 DEF EndOp, PhasesOK, Open
  <2>2. ASSUME Open' = Open \ {p} PROVE outstanding' = Cardinality(Open')
    BY <2>1, <2>2, OpenCount, FS_RemoveElement
  <2>3. CASE outstanding = 1
    <3>1. /\ committing' = TRUE
          /\ pc' = [pc EXCEPT ![p] = IF lh = <<>> THEN "done" ELSE "write_log"]
      BY <1>4, <2>3 DEF EndOp
    <3>2. Open' = Open \ {p}
      BY <2>1, <3>1 DEF Open, TypeOK
    <3>3. Open' = {}
      BY <2>1, <2>2, <2>3, <3>2, OpenCount, FS_EmptySet, FS_RemoveElement
    <3> QED BY <2>1, <2>2, <3>1, <3>2, <3>3 DEF PhasesOK, TypeOK
  <2>4. CASE outstanding # 1
    <3>1. committing' = committing /\ pc' = Woken([pc EXCEPT ![p] = "begin"])
      BY <1>4, <2>4 DEF EndOp
    <3>2. Open' = Open \ {p}
      BY <2>1, <3>1 DEF Open, TypeOK, Woken
    <3>4. outstanding \in Nat /\ outstanding >= 1 /\ outstanding' = Cardinality(Open')
      BY <2>1, <2>2, <3>2, OpenCount
    <3>3. Open' # {}
      BY <2>1, <2>4, <3>4, FS_EmptySet
    <3> QED BY <2>1, <2>2, <3>1, <3>2, <3>3 DEF PhasesOK, TypeOK, Woken
  <2> QED BY <2>3, <2>4
<1>5. ASSUME NEW p \in Procs, WriteLog(p) \/ WriteHead(p) PROVE PhasesOK'
  <2>1. /\ pc[p] \in {"write_log", "write_head"}
        /\ pc' = pc \/ \E l \in {"write_head", "install"} : pc' = [pc EXCEPT ![p] = l]
        /\ UNCHANGED <<wrote, outstanding, committing, lh>>
    BY <1>5 DEF WriteLog, WriteHead, log
  <2>2. Open' = Open
    BY <2>1 DEF Open, TypeOK
  <2> QED BY <2>1, <2>2 DEF PhasesOK, TypeOK
<1>6. ASSUME NEW t \in Threads, InstallTrans(t) PROVE PhasesOK'
  <2>1. /\ pc[t] = "install"
        /\ pc' = pc \/ pc' = [pc EXCEPT ![t] = "erase"]
        /\ UNCHANGED <<wrote, outstanding, committing, lh>>
    BY <1>6 DEF InstallTrans, log
  <2>2. Open' = Open
    BY <2>1 DEF Open, TypeOK
  <2> QED BY <2>1, <2>2 DEF PhasesOK, TypeOK
<1>7. ASSUME NEW t \in Threads, Erase(t) PROVE PhasesOK'
  <2>1. /\ pc[t] = "erase" /\ lh' = <<>>
        /\ pc' = [pc EXCEPT ![t] = IF t = Boot THEN "up" ELSE "done"]
        /\ UNCHANGED <<wrote, outstanding, committing>>
    BY <1>7 DEF Erase
  <2>2. Open' = Open
    BY <2>1 DEF Open, TypeOK
  <2> QED BY <2>1, <2>2 DEF PhasesOK, TypeOK
<1>8. ASSUME NEW p \in Procs, CommitDone(p) PROVE PhasesOK'
  <2>1. /\ pc[p] = "done" /\ committing' = FALSE /\ pc' = Woken([pc EXCEPT ![p] = "begin"])
        /\ UNCHANGED <<wrote, outstanding, lh>>
    BY <1>8 DEF CommitDone
  <2>2. Open' = Open
    BY <2>1 DEF Open, TypeOK, Woken
  <2>3. lh = <<>> /\ committing /\ pc[Boot] = "up"
    BY <2>1 DEF PhasesOK
  <2> QED BY <2>1, <2>2, <2>3 DEF PhasesOK, TypeOK, Woken
<1>9. CASE ReadHead
  <2>1. /\ pc[Boot] = "read_head" /\ pc' = [pc EXCEPT ![Boot] = "install"]
        /\ UNCHANGED <<wrote, outstanding, committing>>
    BY <1>9 DEF ReadHead
  <2>2. Open' = Open
    BY <2>1 DEF Open, TypeOK
  <2> QED BY <2>1, <2>2 DEF PhasesOK, TypeOK
<1>10. CASE Crash
  <2>1. /\ \A p \in Procs : pc'[p] = "begin" /\ wrote'[p] = {}
        /\ pc'[Boot] = "read_head" /\ lh' = <<>> /\ outstanding' = 0 /\ ~committing'
    BY <1>10 DEF Crash, Booting, Nothing
  <2>2. Open' = {}
    BY <2>1 DEF Open
  <2> QED BY <2>1, <2>2, FS_EmptySet DEF PhasesOK
<1>11. ASSUME NEW b \in Home, Cache(b) \/ Recycle(b) PROVE PhasesOK'
  <2>1. UNCHANGED <<pc, wrote, outstanding, committing, lh>>
    BY <1>11 DEF Cache, Recycle, procs, log
  <2> QED BY <2>1 DEF PhasesOK, Open
<1>12. CASE UNCHANGED vars
  <2>1. UNCHANGED <<pc, wrote, outstanding, committing, lh>>
    BY <1>12 DEF vars, procs, log
  <2> QED BY <2>1 DEF PhasesOK, Open
<1> QED BY <1>1, <1>2, <1>3, <1>4, <1>5, <1>6, <1>7, <1>8, <1>9, <1>10, <1>11, <1>12
        DEF Next, CallStep, CommitStep, LogStep
-----------------------------------------------------------------------------
(* The cache.                                                              *)
LEMMA CacheKept ==
    ASSUME CacheOK, UNCHANGED <<buf, dirty, home>>, Up => Up', lh' = lh
    PROVE  CacheOK'
BY DEF CacheOK, Logged

LEMMA CacheNext == TypeOK /\ PhasesOK /\ DiskOK /\ CacheOK /\ [Next]_vars => CacheOK'
<1> SUFFICES ASSUME TypeOK, PhasesOK, DiskOK, CacheOK, [Next]_vars PROVE CacheOK'
  OBVIOUS
<1> USE DEF Goto
<1>1. ASSUME NEW p \in Procs,
             BeginOp(p) \/ BeginWaits(p) \/ EndOp(p) \/ CommitStep(p) PROVE CacheOK'
  <2>1. UNCHANGED <<buf, dirty, home, lh>>
    BY <1>1 DEF BeginOp, BeginWaits, EndOp, CommitStep, WriteLog, WriteHead, CommitDone,
                log, cache, disk
  <2>2. pc'[Boot] = pc[Boot] \/ (pc[Boot] = "asleep" /\ pc'[Boot] = "begin")
    BY <1>1 DEF BeginOp, BeginWaits, EndOp, CommitStep, WriteLog, WriteHead, CommitDone,
                Woken, TypeOK
  <2> QED BY <2>1, <2>2, CacheKept DEF Up
<1>2. ASSUME NEW p \in Procs, LogWrite(p) PROVE CacheOK'
  <2>1. PICK b \in Home, d \in Data :
            /\ buf' = [buf EXCEPT ![b] = d] /\ dirty' = [dirty EXCEPT ![b] = TRUE]
            /\ Logged' = Logged \cup {b}
    BY <1>2, Appended
  <2>2. pc[p] = "op" /\ UNCHANGED <<pc, home>>
    BY <1>2 DEF LogWrite, disk
  <2>3. Up /\ Up'
    BY <2>2 DEF PhasesOK, Up
  <2> QED BY <2>1, <2>2, <2>3 DEF CacheOK, TypeOK
<1>3. ASSUME NEW t \in Threads, InstallTrans(t) PROVE CacheOK'
  <2>1. CASE tail[t] <= Len(lh)
    <3>1. lh[tail[t]] \in Home
      BY <2>1, HeaderFacts DEF TypeOK
    <3>2. PICK b \in Home, d \in Data : /\ home' = [home EXCEPT ![b] = d] /\ buf' = [buf EXCEPT ![b] = d]
                                         /\ dirty' = [dirty EXCEPT ![b] = FALSE]
      <4>1. logd[tail[t]] \in Data
        BY <2>1, HeaderFacts DEF TypeOK
      <4> QED BY <1>3, <2>1, <3>1, <4>1 DEF InstallTrans
    <3>3. UNCHANGED <<pc, lh>>
      BY <1>3, <2>1 DEF InstallTrans, log
    <3> QED BY <3>2, <3>3 DEF CacheOK, TypeOK, Logged, Up
  <2>2. CASE ~(tail[t] <= Len(lh))
    <3>1. UNCHANGED <<buf, dirty, home, lh>> /\ pc[t] = "install" /\ pc' = [pc EXCEPT ![t] = "erase"]
      BY <1>3, <2>2 DEF InstallTrans, log, cache
    <3> QED BY <3>1, CacheKept DEF Up, TypeOK
  <2> QED BY <2>1, <2>2
<1>4. ASSUME NEW t \in Threads, Erase(t) PROVE CacheOK'
  <2>1. pc[t] = "erase" /\ UNCHANGED <<buf, dirty, home>>
    BY <1>4 DEF Erase, cache
  <2>2. \A b \in Home : ~dirty[b]
    <3> SUFFICES ASSUME NEW b \in Home, dirty[b] PROVE FALSE
      BY DEF TypeOK
    <3>1. PICK i \in 1 .. Len(lh) : b = lh[i]
      BY DEF CacheOK, Logged
    <3> QED BY <2>1, <3>1 DEF DiskOK, Installed, Redoing
  <2> QED BY <2>1, <2>2 DEF CacheOK
<1>5. CASE ReadHead
  <2>1. ~Up /\ UNCHANGED <<buf, dirty, home>>
    BY <1>5 DEF ReadHead, Up, cache, disk
  <2> QED BY <2>1 DEF CacheOK
<1>6. CASE Crash
  BY <1>6 DEF Crash, Empty, Clean, CacheOK
<1>7. ASSUME NEW b \in Home, Cache(b) \/ Recycle(b) PROVE CacheOK'
  <2>1. UNCHANGED <<pc, lh, dirty, home>>
    BY <1>7 DEF Cache, Recycle, procs, log, disk
  <2>2. \/ buf[b] = NotCached /\ buf' = [buf EXCEPT ![b] = home[b]]
        \/ ~dirty[b] /\ buf' = [buf EXCEPT ![b] = NotCached]
    BY <1>7 DEF Cache, Recycle
  <2>3. home[b] # NotCached
    BY DEF TypeOK
  <2> QED BY <2>1, <2>2, <2>3 DEF CacheOK, TypeOK, Logged, Up
<1>8. CASE UNCHANGED vars
  BY <1>8, CacheKept DEF vars, procs, log, cache, disk, Up
<1> QED BY <1>1, <1>2, <1>3, <1>4, <1>5, <1>6, <1>7, <1>8 DEF Next, CallStep, LogStep
-----------------------------------------------------------------------------
(* The disk.                                                               *)
LEMMA DiskInit == Init => DiskOK /\ CacheOK
<1> SUFFICES ASSUME Init PROVE DiskOK /\ CacheOK
  OBVIOUS
<1>1. /\ \A p \in Procs : pc[p] = "begin"
      /\ pc[Boot] = "read_head"
      /\ \A b \in Home : buf[b] = NotCached /\ ~dirty[b]
  BY DEF Init, Booting, Empty, Clean
<1> QED BY <1>1 DEF DiskOK, CacheOK, Redoing, Copied, Installed, Up

(* A step that changes neither the disk nor what reads return, and lets    *)
(* nobody copy or install.                                                 *)
LEMMA DiskKept ==
    ASSUME TypeOK, DiskOK, UNCHANGED <<lh, logd, home, hdr, dirty>>,
           \A b \in Home : Read(b)' = Read(b), Up' = Up,
           \A t \in Threads :
              \/ pc'[t] = pc[t] /\ tail'[t] = tail[t]
              \/ pc'[t] \notin {"write_log", "write_head", "install", "erase"} /\ ~Redoing(t)
              \/ pc'[t] = "write_log" /\ tail'[t] = 1 /\ ~Redoing(t)
    PROVE  DiskOK'
<1>1. \A t \in Threads : Redoing(t)' <=> Redoing(t)
  BY DEF Redoing
<1>2. \A t \in Threads, i \in 1 .. Len(lh) :
         (Copied(t, i)' => Copied(t, i)) /\ (Installed(t, i)' => Installed(t, i))
  <2> SUFFICES ASSUME NEW t \in Threads, NEW i \in 1 .. Len(lh)
               PROVE  (Copied(t, i)' => Copied(t, i)) /\ (Installed(t, i)' => Installed(t, i))
    OBVIOUS
  <2>1. i \in Nat /\ ~(i < 1)
    BY HeaderFacts DEF TypeOK
  <2> QED BY <2>1 DEF Redoing, Copied, Installed
<1>3. \A i \in 1 .. Len(lh) : lh[i] \in Home
  BY HeaderFacts DEF TypeOK
<1> QED BY <1>1, <1>2, <1>3 DEF DiskOK

LEMMA DiskNext == TypeOK /\ PhasesOK /\ DiskOK /\ CacheOK /\ [Next]_vars => DiskOK'
<1> SUFFICES ASSUME TypeOK, PhasesOK, DiskOK, CacheOK, [Next]_vars PROVE DiskOK'
  OBVIOUS
<1> USE DEF Goto
<1>0. \A i \in 1 .. Len(lh) : lh[i] \in Home
  BY HeaderFacts DEF TypeOK
<1>1. ASSUME NEW p \in Procs,
             BeginOp(p) \/ BeginWaits(p) \/ EndOp(p) \/ CommitDone(p) PROVE DiskOK'
  <2>1. UNCHANGED <<lh, logd, home, hdr, buf, dirty>>
    BY <1>1 DEF BeginOp, BeginWaits, EndOp, CommitDone, log, cache, disk
  <2>2. pc[p] \in {"begin", "op", "done"}
    BY <1>1 DEF BeginOp, BeginWaits, EndOp, CommitDone
  <2>3. /\ pc'[p] \in {"begin", "asleep", "op", "done"} \/ (pc'[p] = "write_log" /\ tail'[p] = 1)
        /\ \A t \in Threads \ {p} :
              /\ tail'[t] = tail[t]
              /\ pc'[t] = pc[t] \/ (pc[t] = "asleep" /\ pc'[t] = "begin")
    BY <1>1 DEF BeginOp, BeginWaits, EndOp, CommitDone, Woken, TypeOK
  <2>4. \A b \in Home : Read(b)' = Read(b)
    BY <2>1 DEF Read
  <2>5. Up' = Up
    BY <2>3, <2>2 DEF Up, TypeOK
  <2> QED BY <2>1, <2>2, <2>3, <2>4, <2>5, DiskKept DEF Redoing
<1>2. ASSUME NEW p \in Procs, LogWrite(p) PROVE DiskOK'
  <2>1. pc[p] = "op" /\ UNCHANGED <<pc, tail, home, hdr, logd>>
    BY <1>2 DEF LogWrite, disk
  <2>2. Up /\ Up' /\ \A q \in Procs : pc[q] \notin Committer
    BY <2>1 DEF PhasesOK, Open, Up
  <2>3. \A t \in Threads : pc[t] \notin {"write_log", "write_head", "install", "erase"}
    BY <2>2 DEF Committer, Up
  <2> QED BY <2>1, <2>2, <2>3 DEF DiskOK, Redoing, Copied, Installed
<1>3. ASSUME NEW p \in Procs, WriteLog(p) \/ WriteHead(p) PROVE DiskOK'
  <2>1. /\ pc[p] \in {"write_log", "write_head"} /\ UNCHANGED <<lh, buf, dirty, home>>
        /\ \A t \in Threads \ {p} : pc'[t] = pc[t] /\ tail'[t] = tail[t]
    BY <1>3 DEF WriteLog, WriteHead, log, cache, TypeOK
  <2>2. /\ Up /\ Up'
        /\ \A t \in Threads \ {p} : pc[t] \notin {"write_log", "write_head", "install", "erase"}
    BY <2>1 DEF PhasesOK, Committer, Up
  <2>3. \A b \in Home : Read(b)' = Read(b)
    BY <2>1 DEF Read
  <2>4. \A i \in 1 .. Len(lh) : i \in Nat
    BY HeaderFacts DEF TypeOK
  <2>5. CASE WriteLog(p) /\ tail[p] <= Len(lh)
    <3>1. /\ logd' = [logd EXCEPT ![tail[p]] = Read(lh[tail[p]])] /\ tail'[p] = tail[p] + 1
          /\ UNCHANGED <<pc, hdr>> /\ pc[p] = "write_log"
      BY <2>5 DEF WriteLog, TypeOK
    <3>2. \A i \in 1 .. Len(lh) : i < tail[p] + 1 => logd'[i] = Read(lh[i])
      <4> SUFFICES ASSUME NEW i \in 1 .. Len(lh), i < tail[p] + 1
                   PROVE  logd'[i] = Read(lh[i])
        OBVIOUS
      <4>1. i \in 1 .. LOGSIZE /\ (i < tail[p] \/ i = tail[p])
        BY HeaderFacts DEF TypeOK
      <4>2. i < tail[p] => logd[i] = Read(lh[i])
        BY <3>1 DEF DiskOK, Copied
      <4> QED BY <3>1, <4>1, <4>2 DEF TypeOK
    <3> QED BY <1>0, <2>1, <2>2, <2>3, <3>1, <3>2 DEF DiskOK, Redoing, Copied, Installed
  <2>6. CASE WriteLog(p) /\ ~(tail[p] <= Len(lh))
    <3>1. pc'[p] = "write_head" /\ UNCHANGED <<logd, tail, hdr>> /\ pc[p] = "write_log"
      BY <2>6 DEF WriteLog, TypeOK
    <3>2. \A i \in 1 .. Len(lh) : logd[i] = Read(lh[i])
      <4>1. \A i \in 1 .. Len(lh) : i < tail[p]
        BY <2>6, HeaderFacts DEF TypeOK
      <4> QED BY <3>1, <4>1 DEF DiskOK, Copied
    <3> QED BY <1>0, <2>1, <2>2, <2>3, <3>1, <3>2 DEF DiskOK, Redoing, Copied, Installed
  <2>7. CASE WriteHead(p)
    <3>1. /\ pc'[p] = "install" /\ pc[p] = "write_head" /\ tail'[p] = 1
          /\ hdr' = lh /\ logd' = logd
      BY <2>7 DEF WriteHead, TypeOK
    <3>2. \A i \in 1 .. Len(lh) : logd[i] = Read(lh[i]) /\ ~(i < 1)
      BY <3>1, <2>4 DEF DiskOK, Copied
    <3> QED BY <1>0, <2>1, <2>2, <2>3, <3>1, <3>2 DEF DiskOK, Redoing, Copied, Installed
  <2> QED BY <1>3, <2>5, <2>6, <2>7
<1>4. ASSUME NEW t \in Threads, InstallTrans(t) PROVE DiskOK'
  <2>1. /\ pc[t] = "install" /\ UNCHANGED <<lh, logd, hdr>>
        /\ \A u \in Threads \ {t} : pc'[u] = pc[u] /\ tail'[u] = tail[u]
        /\ pc'[t] \in {"install", "erase"}
    BY <1>4 DEF InstallTrans, log, TypeOK
  <2>2. /\ Up' = Up /\ hdr = lh
        /\ \A u \in Threads \ {t} : pc[u] \notin {"write_log", "write_head", "install", "erase"}
    BY <2>1 DEF PhasesOK, DiskOK, Redoing, Committer, Up, TypeOK
  <2>3. CASE tail[t] <= Len(lh)
    <3> DEFINE k == tail[t]
    <3>1. /\ home' = [home EXCEPT ![lh[k]] = logd[k]] /\ buf' = [buf EXCEPT ![lh[k]] = logd[k]]
          /\ dirty' = [dirty EXCEPT ![lh[k]] = FALSE]
          /\ pc' = pc /\ tail'[t] = k + 1
      BY <1>4, <2>3 DEF InstallTrans, TypeOK
    <3>2. k \in 1 .. Len(lh) /\ Len(lh) \in Nat /\ logd[k] \in Data
      BY <2>3, HeaderFacts DEF TypeOK
    <3>3. \A i \in 1 .. Len(lh) :
             /\ i = k => home'[lh[i]] = logd[i] /\ ~dirty'[lh[i]] /\ Read(lh[i])' = logd[i]
             /\ i # k => /\ home'[lh[i]] = home[lh[i]] /\ dirty'[lh[i]] = dirty[lh[i]]
                         /\ Read(lh[i])' = Read(lh[i])
      BY <1>0, <2>1, <3>1, <3>2, HeaderFacts DEF TypeOK, Read
    <3>4. \A i \in 1 .. Len(lh) : i < k + 1 => i = k \/ Installed(t, i)
      BY <2>1, <3>2 DEF Installed, Redoing
    <3>5. \A i \in 1 .. Len(lh) : i < k + 1 => home'[lh[i]] = logd[i] /\ ~dirty'[lh[i]]
      BY <3>3, <3>4 DEF DiskOK
    <3>6. t \in Procs => \A i \in 1 .. Len(lh) : Read(lh[i])' = logd[i]
      BY <2>1, <3>3 DEF DiskOK, Copied
    <3> QED BY <2>1, <2>2, <3>1, <3>5, <3>6 DEF DiskOK, Redoing, Copied, Installed
  <2>4. CASE ~(tail[t] <= Len(lh))
    <3>1. UNCHANGED <<home, buf, dirty, tail>> /\ pc'[t] = "erase"
      BY <1>4, <2>4 DEF InstallTrans, cache, TypeOK
    <3>2. \A i \in 1 .. Len(lh) : i < tail[t]
      BY <2>4, HeaderFacts DEF TypeOK
    <3>3. \A i \in 1 .. Len(lh) : home[lh[i]] = logd[i] /\ ~dirty[lh[i]]
      BY <2>1, <3>2 DEF DiskOK, Installed, Redoing
    <3>4. t \in Procs => \A i \in 1 .. Len(lh) : Read(lh[i])' = logd[i]
      BY <2>1, <3>1 DEF DiskOK, Copied, Read
    <3> QED BY <2>1, <2>2, <3>1, <3>3, <3>4 DEF DiskOK, Redoing, Copied, Installed
  <2> QED BY <2>3, <2>4
<1>5. ASSUME NEW t \in Threads, Erase(t) PROVE DiskOK'
  <2>1. lh' = <<>> /\ hdr' = <<>>
    BY <1>5 DEF Erase
  <2>2. \A i \in 1 .. Len(lh') : FALSE
    BY <2>1, EmptyHeader
  <2> QED BY <2>1, <2>2 DEF DiskOK
<1>6. CASE ReadHead
  <2>1. /\ pc[Boot] = "read_head" /\ lh' = hdr /\ hdr' = hdr
        /\ pc'[Boot] = "install" /\ tail'[Boot] = 1
        /\ \A p \in Procs : pc'[p] = pc[p]
    BY <1>6 DEF ReadHead, Found, disk, TypeOK
  <2>2. \A p \in Procs : pc[p] = "begin"
    BY <2>1 DEF PhasesOK, Up
  <2>3. \A i \in 1 .. Len(lh') : ~(i < 1)
    BY <2>1, HeaderFacts DEF TypeOK
  <2> QED BY <2>1, <2>2, <2>3 DEF DiskOK, Redoing, Copied, Installed, Up
<1>7. CASE Crash
  <2>1. \A t \in Threads : pc'[t] \in {"begin", "read_head"}
    BY <1>7 DEF Crash, Booting
  <2>2. pc'[Boot] = "read_head"
    BY <1>7 DEF Crash, Booting
  <2> QED BY <2>1, <2>2 DEF DiskOK, Redoing, Copied, Installed, Up
<1>8. ASSUME NEW b \in Home, Cache(b) \/ Recycle(b) PROVE DiskOK'
  <2>1. UNCHANGED <<pc, tail, lh, logd, home, hdr, dirty>>
    BY <1>8 DEF Cache, Recycle, procs, log, disk
  <2>2. \/ buf[b] = NotCached /\ buf' = [buf EXCEPT ![b] = home[b]]
        \/ buf[b] # NotCached /\ ~dirty[b] /\ buf' = [buf EXCEPT ![b] = NotCached]
    BY <1>8 DEF Cache, Recycle
  <2>3. \A c \in Home : Read(c)' = Read(c)
    BY <2>1, <2>2 DEF CacheOK, Read, TypeOK
  <2> QED BY <2>1, <2>3, DiskKept DEF Up
<1>9. CASE UNCHANGED vars
  <2>1. UNCHANGED <<pc, tail, lh, logd, home, hdr, buf, dirty>>
    BY <1>9 DEF vars, procs, log, cache, disk
  <2>2. \A c \in Home : Read(c)' = Read(c)
    BY <2>1 DEF Read
  <2> QED BY <2>1, <2>2, DiskKept DEF Up
<1> QED BY <1>1, <1>2, <1>3, <1>4, <1>5, <1>6, <1>7, <1>8, <1>9
        DEF Next, CallStep, CommitStep, LogStep
-----------------------------------------------------------------------------
(* Reservations.                                                           *)
LEMMA CreditFinite ==
    /\ IsFiniteSet(Procs \X (1 .. MAXOPBLOCKS))
    /\ \A S \in SUBSET (Procs \X (1 .. MAXOPBLOCKS)) : IsFiniteSet(S) /\ Cardinality(S) \in Nat
<1>1. IsFiniteSet(1 .. MAXOPBLOCKS)
  BY FS_Interval
<1>2. IsFiniteSet(Procs \X (1 .. MAXOPBLOCKS))
  BY <1>1, FS_Product
<1> QED BY <1>2, FS_Subset, FS_CardinalityType

(* A reservation of a block more is gone.                                  *)
LEMMA CreditLess ==
    ASSUME NEW S \in SUBSET (Procs \X (1 .. MAXOPBLOCKS)), NEW r \in S,
           NEW T \in SUBSET (S \ {r})
    PROVE  Cardinality(T) \in Nat /\ Cardinality(T) + 1 <= Cardinality(S)
<1>1. IsFiniteSet(S \ {r}) /\ Cardinality(S \ {r}) = Cardinality(S) - 1
  BY CreditFinite, FS_RemoveElement
<1> QED BY <1>1, CreditFinite, FS_Subset

LEMMA CreditInit == Init => CreditOK
<1> SUFFICES ASSUME Init PROVE CreditOK
  OBVIOUS
<1>1. /\ \A p \in Procs : pc[p] = "begin" /\ wrote[p] = {}
      /\ lh = <<>> /\ outstanding = 0
  BY DEF Init, Booting, Nothing
<1>2. Credit = {}
  BY <1>1 DEF Credit
<1> QED BY <1>1, <1>2, EmptyHeader, FS_EmptySet DEF CreditOK

(* No call is open, and none was.                                          *)
LEMMA CreditNone ==
    ASSUME lh' \in Header, \A p \in Procs : pc'[p] # "op" /\ wrote'[p] = {}, outstanding' # 1
    PROVE  CreditOK'
<1>1. Credit' = {}
  BY DEF Credit
<1>2. Len(lh') + Cardinality(Credit') <= LOGSIZE
  BY <1>1, HeaderFacts, FS_EmptySet
<1>3. \A p \in Procs : /\ IsFiniteSet(wrote'[p]) /\ Cardinality(wrote'[p]) <= OpBlocks
                       /\ wrote'[p] \subseteq Logged'
  BY FS_EmptySet
<1> QED BY <1>2, <1>3 DEF CreditOK

LEMMA CreditKept ==
    ASSUME CreditOK, UNCHANGED <<wrote, lh, outstanding>>,
           \A p \in Procs : pc'[p] = "op" <=> pc[p] = "op"
    PROVE  CreditOK'
<1>1. Credit' = Credit /\ Open' = Open /\ Logged' = Logged
  BY DEF Credit, Open, Logged
<1>2. Len(lh') + Cardinality(Credit') = Len(lh) + Cardinality(Credit)
  BY <1>1
<1>3. \A p \in Procs : /\ IsFiniteSet(wrote'[p]) /\ Cardinality(wrote'[p]) <= OpBlocks
                       /\ wrote'[p] \subseteq Logged'
  BY <1>1 DEF CreditOK
<1>4. outstanding' = 1 => \/ Len(lh') + Cardinality(Credit') < LOGSIZE
                         \/ \A p \in Open' : Logged' = wrote'[p]
  BY <1>1, <1>2 DEF CreditOK
<1>5. Len(lh') + Cardinality(Credit') <= LOGSIZE
  BY <1>2 DEF CreditOK
<1> QED BY <1>3, <1>4, <1>5 DEF CreditOK

LEMMA CreditNext == TypeOK /\ PhasesOK /\ CreditOK /\ [Next]_vars => CreditOK'
<1> SUFFICES ASSUME TypeOK, PhasesOK, CreditOK, [Next]_vars PROVE CreditOK'
  OBVIOUS
<1> USE DEF Goto
<1>0. /\ Credit \in SUBSET (Procs \X (1 .. MAXOPBLOCKS)) /\ Cardinality(Credit) \in Nat
      /\ Len(lh) \in Nat
  BY CreditFinite, HeaderFacts DEF Credit, TypeOK
<1>1. ASSUME NEW p \in Procs, BeginOp(p) PROVE CreditOK'
  <2>1. /\ pc' = [pc EXCEPT ![p] = "op"] /\ pc[p] = "begin" /\ Up /\ ~committing
        /\ outstanding' = outstanding + 1 /\ UNCHANGED <<wrote, lh>>
        /\ Len(lh) + (outstanding + 1) * MAXOPBLOCKS <= LOGSIZE
    BY <1>1 DEF BeginOp, MayBegin, Reserved
  <2>2. Open' = Open \cup {p} /\ p \notin Open
    BY <2>1 DEF Open, TypeOK
  <2>3. IsFiniteSet(Open') /\ Cardinality(Open') = outstanding + 1 /\ outstanding \in Nat
    BY <2>2, OpenCount, FS_AddElement
  <2>4. IsFiniteSet(1 .. MAXOPBLOCKS) /\ Cardinality(1 .. MAXOPBLOCKS) = MAXOPBLOCKS
    BY FS_Interval
  <2>5. /\ IsFiniteSet(Open' \X (1 .. MAXOPBLOCKS))
        /\ Cardinality(Open' \X (1 .. MAXOPBLOCKS)) = (outstanding + 1) * MAXOPBLOCKS
    <3>1. /\ IsFiniteSet(Open' \X (1 .. MAXOPBLOCKS))
          /\ Cardinality(Open' \X (1 .. MAXOPBLOCKS))
               = Cardinality(Open') * Cardinality(1 .. MAXOPBLOCKS)
      BY <2>3, <2>4, FS_Product, Zenon
    <3> QED BY <2>3, <2>4, <3>1, Zenon
  <2>6. Credit' \subseteq Open' \X (1 .. MAXOPBLOCKS)
    BY DEF Credit, Open
  <2>7. Cardinality(Credit') <= (outstanding + 1) * MAXOPBLOCKS
    BY <2>5, <2>6, FS_Subset
  <2>8. Cardinality(Credit') \in Nat /\ (outstanding + 1) * MAXOPBLOCKS \in Nat
    BY <2>3, CreditFinite DEF Credit
  <2>9. Len(lh') + Cardinality(Credit') <= LOGSIZE
    BY <1>0, <2>1, <2>7, <2>8
  <2>10. outstanding' = 1 => \A q \in Open' : Logged' = wrote'[q]
    <3> SUFFICES ASSUME outstanding' = 1, NEW q \in Open' PROVE Logged' = wrote'[q]
      OBVIOUS
    <3>3. outstanding = 0
      BY <2>1, <2>3
    <3>4. Open = {}
      BY <3>3, OpenCount
    <3>1. Open = {} /\ q = p
      BY <2>2, <3>4
    <3>2. lh = <<>> /\ wrote[p] = {}
      BY <2>1, <3>1 DEF PhasesOK
    <3> QED BY <2>1, <3>1, <3>2, EmptyHeader DEF Logged
  <2>11. \A q \in Procs : /\ IsFiniteSet(wrote'[q]) /\ Cardinality(wrote'[q]) <= OpBlocks
                          /\ wrote'[q] \subseteq Logged'
    BY <2>1 DEF CreditOK, Logged
  <2> QED BY <2>9, <2>10, <2>11 DEF CreditOK
<1>2. ASSUME NEW p \in Procs, LogWrite(p) PROVE CreditOK'
  <2>1. PICK b \in Home :
            /\ wrote' = [wrote EXCEPT ![p] = @ \cup {b}]
            /\ Cardinality(wrote[p] \cup {b}) <= OpBlocks
            /\ lh' \in Header /\ Logged' = Logged \cup {b}
            /\ Len(lh') = IF b \in Logged THEN Len(lh) ELSE Len(lh) + 1
    BY <1>2, Appended
  <2>2. pc[p] = "op" /\ UNCHANGED <<pc, outstanding>>
    BY <1>2 DEF LogWrite
  <2> DEFINE n == Cardinality(wrote[p])
  <2>3. /\ IsFiniteSet(wrote[p]) /\ n \in Nat
        /\ IsFiniteSet(wrote'[p]) /\ wrote'[p] = wrote[p] \cup {b}
        /\ Cardinality(wrote'[p]) = IF b \in wrote[p] THEN n ELSE n + 1
        /\ \A q \in Procs : q # p => wrote'[q] = wrote[q]
    BY <2>1, FS_AddElement, FS_CardinalityType DEF CreditOK, TypeOK
  <2>4. \A q \in Procs : /\ IsFiniteSet(wrote'[q]) /\ Cardinality(wrote'[q]) <= OpBlocks
                         /\ wrote'[q] \subseteq Logged'
    BY <2>1, <2>3 DEF CreditOK
  <2>5. \A r \in Credit' : r \in Credit
    <3> SUFFICES ASSUME NEW r \in Credit' PROVE r \in Credit
      OBVIOUS
    <3>1. /\ r \in Procs \X (1 .. MAXOPBLOCKS) /\ pc[r[1]] = "op" /\ r[1] \in Procs
          /\ r[2] \in Nat /\ r[2] > Cardinality(wrote'[r[1]])
      BY <2>2 DEF Credit
    <3>3. r[1] = p => Cardinality(wrote'[p]) \in {n, n + 1}
      BY <2>3
    <3>2. r[2] > Cardinality(wrote[r[1]])
      <4>1. CASE r[1] = p
        <5>1. r[2] > Cardinality(wrote'[p])
          BY <3>1, <4>1
        <5>2. r[2] > n
          BY <2>3, <3>1, <3>3, <5>1
        <5> QED BY <4>1, <5>2
      <4>2. CASE r[1] # p
        BY <2>3, <3>1, <4>2
      <4> QED BY <4>1, <4>2
    <3> QED BY <3>1, <3>2 DEF Credit
  <2>7. Len(lh') + Cardinality(Credit') <= Len(lh) + Cardinality(Credit)
    <3>1. CASE b \in Logged
      <4>1. Cardinality(Credit') \in Nat /\ Cardinality(Credit') <= Cardinality(Credit)
        BY <1>0, <2>5, CreditFinite, FS_Subset
      <4> QED BY <1>0, <2>1, <3>1, <4>1
    <3>2. CASE b \notin Logged
      <4>1. b \notin wrote[p] /\ n + 1 <= OpBlocks
        BY <2>1, <2>3, <3>2 DEF CreditOK
      <4>2. <<p, n + 1>> \in Credit
        BY <2>2, <2>3, <4>1 DEF Credit
      <4>6. Cardinality(wrote'[p]) = n + 1 /\ ~(n + 1 > n + 1)
        BY <2>3, <4>1
      <4>3. <<p, n + 1>> \notin Credit'
        BY <4>6 DEF Credit
      <4>4. Credit' \in SUBSET (Credit \ {<<p, n + 1>>})
        BY <2>5, <4>3
      <4>5. Cardinality(Credit') \in Nat /\ Cardinality(Credit') + 1 <= Cardinality(Credit)
        BY <1>0, <4>2, <4>4, CreditLess
      <4> QED BY <1>0, <2>1, <3>2, <4>5
    <3> QED BY <3>1, <3>2
  <2>8. Len(lh') \in Nat /\ Cardinality(Credit') \in Nat
    BY <1>0, <2>1, <2>5, CreditFinite, HeaderFacts
  <2>9. ASSUME outstanding = 1, \A q \in Open : Logged = wrote[q]
        PROVE  \A q \in Open' : Logged' = wrote'[q]
    <3>1. PICK x : Open = {x}
      BY <2>9, OpenCount, FS_Singleton
    <3>2. p \in Open /\ Open' = Open
      BY <2>2 DEF Open
    <3>3. Logged = wrote[p]
      BY <2>9, <3>2
    <3> QED BY <2>1, <2>3, <3>1, <3>2, <3>3
  <2> QED BY <1>0, <2>2, <2>4, <2>7, <2>8, <2>9 DEF CreditOK
<1>3. ASSUME NEW p \in Procs, EndOp(p) PROVE CreditOK'
  <2>1. /\ pc[p] = "op" /\ lh' = lh /\ wrote' = [wrote EXCEPT ![p] = {}]
        /\ pc'[p] # "op" /\ \A q \in Procs : pc'[q] = "op" => pc[q] = "op" /\ q # p
    BY <1>3 DEF EndOp, Woken, TypeOK
  <2>2. Cardinality(wrote[p]) \in Nat /\ Cardinality(wrote[p]) <= OpBlocks
    BY FS_CardinalityType DEF CreditOK
  <2>3. <<p, MAXOPBLOCKS>> \in Credit
    BY <2>1, <2>2 DEF Credit
  <2>4. Credit' \in SUBSET (Credit \ {<<p, MAXOPBLOCKS>>})
    BY <2>1 DEF Credit, TypeOK
  <2>5. Cardinality(Credit') \in Nat /\ Cardinality(Credit') + 1 <= Cardinality(Credit)
    BY <1>0, <2>3, <2>4, CreditLess
  <2>6. \A q \in Procs : /\ IsFiniteSet(wrote'[q]) /\ Cardinality(wrote'[q]) <= OpBlocks
                         /\ wrote'[q] \subseteq Logged'
    BY <2>1, FS_EmptySet DEF CreditOK, Logged, TypeOK
  <2> QED BY <1>0, <2>1, <2>5, <2>6 DEF CreditOK
<1>4. ASSUME NEW p \in Procs, BeginWaits(p) \/ WriteLog(p) \/ WriteHead(p) \/ CommitDone(p)
      PROVE  CreditOK'
  <2>1. UNCHANGED <<wrote, lh, outstanding>>
    BY <1>4 DEF BeginWaits, WriteLog, WriteHead, CommitDone, log
  <2>2. \A q \in Procs : pc'[q] = "op" <=> pc[q] = "op"
    BY <1>4 DEF BeginWaits, WriteLog, WriteHead, CommitDone, Woken, TypeOK
  <2> QED BY <2>1, <2>2, CreditKept
<1>5. ASSUME NEW t \in Threads, InstallTrans(t) PROVE CreditOK'
  <2>1. UNCHANGED <<wrote, lh, outstanding>>
    BY <1>5 DEF InstallTrans, log
  <2>2. \A q \in Procs : pc'[q] = "op" <=> pc[q] = "op"
    BY <1>5 DEF InstallTrans, TypeOK
  <2> QED BY <2>1, <2>2, CreditKept
<1>6. ASSUME NEW t \in Threads, Erase(t) PROVE CreditOK'
  <2>1. /\ pc[t] = "erase" /\ lh' = <<>> /\ UNCHANGED <<wrote, outstanding>>
        /\ \A q \in Procs : pc'[q] = "op" => pc[q] = "op"
    BY <1>6 DEF Erase, TypeOK
  <2>2. Open = {}
    BY <2>1 DEF PhasesOK, Open, Up, Committer
  <2>3. outstanding = 0 /\ \A q \in Procs : pc[q] # "op" /\ wrote[q] = {}
    BY <2>2, OpenCount DEF PhasesOK, Open
  <2> QED BY <2>1, <2>3, EmptyHeader, CreditNone
<1>7. CASE ReadHead
  <2>1. /\ pc[Boot] = "read_head" /\ lh' = hdr /\ UNCHANGED <<wrote, outstanding>>
        /\ \A q \in Procs : pc'[q] = pc[q]
    BY <1>7 DEF ReadHead, Found, TypeOK
  <2>2. \A q \in Procs : pc[q] = "begin" /\ wrote[q] = {}
    BY <2>1 DEF PhasesOK, Up
  <2>3. outstanding = 0
    BY <2>2, OpenCount DEF Open
  <2> QED BY <2>1, <2>2, <2>3, CreditNone DEF TypeOK
<1>8. CASE Crash
  BY <1>8, EmptyHeader, CreditNone DEF Crash, Booting, Nothing
<1>9. ASSUME NEW b \in Home, Cache(b) \/ Recycle(b) PROVE CreditOK'
  BY <1>9, CreditKept DEF Cache, Recycle, procs, log
<1>10. CASE UNCHANGED vars
  BY <1>10, CreditKept DEF vars, procs, log
<1> QED BY <1>1, <1>2, <1>3, <1>4, <1>5, <1>6, <1>7, <1>8, <1>9, <1>10
        DEF Next, CallStep, CommitStep, LogStep
-----------------------------------------------------------------------------
(* Waiters.                                                                *)
LEMMA WaiterNext ==
    TypeOK /\ PhasesOK /\ NoLostWaiter /\ PhasesOK' /\ [Next]_vars => NoLostWaiter'
<1> SUFFICES ASSUME TypeOK, PhasesOK, NoLostWaiter, PhasesOK', [Next]_vars PROVE NoLostWaiter'
  OBVIOUS
<1> USE DEF Goto, Committer
<1>1. ASSUME NEW p \in Procs, BeginOp(p) PROVE NoLostWaiter'
  BY <1>1 DEF BeginOp, NoLostWaiter, TypeOK
<1>2. ASSUME NEW p \in Procs, BeginWaits(p) PROVE NoLostWaiter'
  <2>1. /\ Up /\ pc[p] = "begin" /\ pc' = [pc EXCEPT ![p] = "asleep"]
        /\ committing \/ Reserved > LOGSIZE
    BY <1>2, OpenCount, HeaderFacts DEF BeginWaits, MayBegin, Reserved, TypeOK
  <2>2. \E q \in Procs : pc[q] = "op" \/ pc[q] \in Committer
    <3>1. CASE committing
      BY <3>1 DEF PhasesOK
    <3>2. CASE ~committing
      <4>1. Open # {}
        <5> SUFFICES ASSUME Open = {} PROVE FALSE
          OBVIOUS
        <5>1. lh = <<>> /\ outstanding = 0
          BY <2>1, <3>2, OpenCount DEF PhasesOK
        <5> QED BY <2>1, <3>2, <5>1, EmptyHeader DEF Reserved
      <4> QED BY <4>1 DEF Open
    <3> QED BY <3>1, <3>2
  <2> QED BY <2>1, <2>2 DEF NoLostWaiter, TypeOK
<1>3. ASSUME NEW p \in Procs, EndOp(p) PROVE NoLostWaiter'
  <2>1. CASE outstanding = 1
    <3>1. pc'[p] \in {"done", "write_log"}
      BY <1>3, <2>1 DEF EndOp, TypeOK
    <3> QED BY <3>1 DEF NoLostWaiter
  <2>2. CASE outstanding # 1
    <3>1. \A q \in Procs : pc'[q] # "asleep"
      BY <1>3, <2>2 DEF EndOp, Woken, TypeOK
    <3> QED BY <3>1 DEF NoLostWaiter
  <2> QED BY <2>1, <2>2
<1>4. ASSUME NEW p \in Procs, CommitDone(p) PROVE NoLostWaiter'
  <2>1. \A q \in Procs : pc'[q] # "asleep"
    BY <1>4 DEF CommitDone, Woken, TypeOK
  <2> QED BY <2>1 DEF NoLostWaiter
<1>5. ASSUME NEW t \in Threads, t \in Procs => WriteLog(t) \/ WriteHead(t) \/ LogStep(t),
             t \notin Procs => LogStep(t) \/ ReadHead
      PROVE  NoLostWaiter'
  <2>1. /\ pc'[t] \in Committer \/ t \notin Procs
        /\ \A u \in Threads \ {t} : pc'[u] = pc[u]
    BY <1>5 DEF WriteLog, WriteHead, LogStep, InstallTrans, Erase, ReadHead, TypeOK
  <2>2. \/ \E q \in Procs : pc'[q] \in Committer
        \/ \A q \in Procs : pc'[q] = pc[q]
    BY <2>1
  <2> QED BY <2>2 DEF NoLostWaiter
<1>6. CASE Crash
  <2>1. \A q \in Procs : pc'[q] = "begin"
    BY <1>6 DEF Crash, Booting
  <2> QED BY <2>1 DEF NoLostWaiter
<1>7. ASSUME pc' = pc PROVE NoLostWaiter'
  BY <1>7 DEF NoLostWaiter
<1>8. ASSUME NEW p \in Procs, LogWrite(p) PROVE NoLostWaiter'
  BY <1>7, <1>8 DEF LogWrite
<1>9. ASSUME NEW b \in Home, Cache(b) \/ Recycle(b) PROVE NoLostWaiter'
  BY <1>7, <1>9 DEF Cache, Recycle, procs
<1>10. CASE UNCHANGED vars
  BY <1>7, <1>10 DEF vars, procs
<1>11. ASSUME NEW t \in Threads, LogStep(t) PROVE NoLostWaiter'
  BY <1>5, <1>11
<1>12. CASE ReadHead
  BY <1>5, <1>12
<1>13. ASSUME NEW p \in Procs, WriteLog(p) \/ WriteHead(p) PROVE NoLostWaiter'
  BY <1>5, <1>13
<1> QED BY <1>1, <1>2, <1>3, <1>4, <1>6, <1>8, <1>9, <1>10, <1>11, <1>12, <1>13
        DEF Next, CallStep, CommitStep

-----------------------------------------------------------------------------
LEMMA LogInit == Init => LogInv
<1>1. Init => NoLostWaiter
  BY DEF Init, Booting, NoLostWaiter
<1> QED BY <1>1, TypeInit, PhasesInit, DiskInit, CreditInit DEF LogInv

LEMMA LogNext == LogInv /\ [Next]_vars => LogInv'
BY TypeNext, PhasesNext, DiskNext, CacheNext, CreditNext, WaiterNext DEF LogInv

(* LogInv is an invariant of the log: calls and commits take turns, the    *)
(* disk, the log and the cache agree, and every reservation is honoured.   *)
THEOREM Invariance == Spec => []LogInv
BY LogInit, LogNext, PTL DEF Spec

(* Every variable has its type: the header in memory and the one on disk   *)
(* name blocks of the file system and never more than the log has room for.*)
THEOREM Types == Spec => []TypeOK
<1>1. LogInv => TypeOK
  BY DEF LogInv
<1> QED BY <1>1, Invariance, PTL

(* A block whose cached contents are not on disk at home stays in the      *)
(* cache until install_trans() has written it there.                       *)
THEOREM Pinning == Spec => []PinnedUntilInstalled
<1>1. LogInv => PinnedUntilInstalled
  BY DEF LogInv, CacheOK, PinnedUntilInstalled
<1> QED BY <1>1, Invariance, PTL

(* Whoever sleeps in begin_op() will be woken: a call is open, or a commit *)
(* runs.                                                                   *)
THEOREM Waking == Spec => []NoLostWaiter
<1>1. LogInv => NoLostWaiter
  BY DEF LogInv
<1> QED BY <1>1, Invariance, PTL

(* The panics of log_write() and end_op() are unreachable.                 *)
THEOREM NeverPanics == Spec => []NoPanic
<1>1. ASSUME LogInv PROVE NoPanic
  <2> USE <1>1 DEF LogInv
  <2> SUFFICES ASSUME NEW p \in Procs, pc[p] = "op"
               PROVE  ~committing /\ outstanding >= 1 /\ Len(lh) + 2 <= LOGSIZE
    BY HeaderFacts DEF NoPanic, TypeOK
  <2>1. ~committing /\ outstanding \in Nat /\ outstanding >= 1 /\ p \in Open
    BY OpenCount DEF PhasesOK, Open
  <2>2. /\ Credit \in SUBSET (Procs \X (1 .. MAXOPBLOCKS)) /\ Cardinality(Credit) \in Nat
        /\ Len(lh) \in Nat
    BY CreditFinite, HeaderFacts DEF Credit, TypeOK
  <2>3. \A q \in Open : <<q, MAXOPBLOCKS>> \in Credit
    <3> SUFFICES ASSUME NEW q \in Open PROVE <<q, MAXOPBLOCKS>> \in Credit
      OBVIOUS
    <3>1. Cardinality(wrote[q]) \in Nat /\ Cardinality(wrote[q]) <= OpBlocks
      BY FS_CardinalityType DEF CreditOK, Open
    <3> QED BY <3>1 DEF Credit, Open
  <2>4. CASE outstanding = 1
    <3>4. Credit # {}
      BY <2>1, <2>3
    <3>1. Cardinality(Credit) >= 1
      BY <2>2, <3>4, CreditFinite, FS_EmptySet
    <3>2. CASE Len(lh) + Cardinality(Credit) < LOGSIZE
      BY <2>1, <2>2, <3>1, <3>2
    <3>3. CASE \A q \in Open : Logged = wrote[q]
      <4>1. Logged = wrote[p]
        BY <2>1, <3>3
      <4>2. Len(lh) <= Cardinality(Logged)
        <5>1. lh \in [1 .. Len(lh) -> Logged]
          BY HeaderFacts DEF Logged, TypeOK
        <5>2. \A i, j \in 1 .. Len(lh) : lh[i] = lh[j] => i = j
          BY HeaderFacts DEF TypeOK
        <5>3. lh \in Injection(1 .. Len(lh), Logged)
          BY <5>1, <5>2 DEF Injection, IsInjective
        <5>4. IsFiniteSet(Logged)
          BY <4>1 DEF CreditOK
        <5>5. Cardinality(1 .. Len(lh)) <= Cardinality(Logged)
          BY <5>3, <5>4, FS_Injection
        <5>6. Cardinality(1 .. Len(lh)) = Len(lh)
          <6>1. \A k \in Nat : Cardinality(1 .. k) = k
            BY FS_Interval
          <6> QED BY <2>2, <6>1
        <5> QED BY <5>5, <5>6
      <4>3. Cardinality(Logged) \in Nat /\ Cardinality(Logged) <= OpBlocks
        BY <4>1, FS_CardinalityType DEF CreditOK
      <4> QED BY <2>1, <2>2, <4>2, <4>3
    <3> QED BY <2>4, <3>2, <3>3 DEF CreditOK
  <2>5. CASE outstanding # 1
    <3>1. PICK q \in Open : q # p
      <4>1. Open # {p}
        BY <2>5, OpenCount, FS_Singleton
      <4> QED BY <2>1, <4>1
    <3>2. <<p, MAXOPBLOCKS>> \in Credit /\ <<q, MAXOPBLOCKS>> \in Credit \ {<<p, MAXOPBLOCKS>>}
      BY <2>1, <2>3, <3>1
    <3>3. /\ Cardinality(Credit \ {<<p, MAXOPBLOCKS>>}) \in Nat
          /\ Cardinality(Credit \ {<<p, MAXOPBLOCKS>>}) + 1 <= Cardinality(Credit)
      BY <2>2, <3>2, CreditLess
    <3>4. Cardinality(Credit \ {<<p, MAXOPBLOCKS>>}) # 0
      BY <2>2, <3>2, CreditFinite, FS_EmptySet
    <3>5. Len(lh) + Cardinality(Credit) <= LOGSIZE
      BY DEF CreditOK
    <3> QED BY <2>1, <2>2, <3>3, <3>4, <3>5
  <2> QED BY <2>4, <2>5
<1> QED BY <1>1, Invariance, PTL
-----------------------------------------------------------------------------
(* What a restart would find: a header names each block once.              *)
LEMMA HeaderIndex ==
    ASSUME NEW h \in Header, NEW i \in 1 .. Len(h)
    PROVE  (CHOOSE j \in 1 .. Len(h) : h[j] = h[i]) = i
BY HeaderFacts

LEMMA HeaderChoice ==
    ASSUME NEW h \in Header, NEW b, NEW i \in 1 .. Len(h), h[i] = b
    PROVE  (CHOOSE j \in 1 .. Len(h) : h[j] = b) = i
BY HeaderIndex

LEMMA RecoveredNow ==
    ASSUME hdr \in Header
    PROVE  /\ \A b \in Home, i \in 1 .. Len(hdr) : hdr[i] = b => Recovered(b) = logd[i]
           /\ \A b \in Home : (\A i \in 1 .. Len(hdr) : hdr[i] # b) => Recovered(b) = home[b]
<1>1. ASSUME NEW b \in Home, NEW i \in 1 .. Len(hdr), hdr[i] = b PROVE Recovered(b) = logd[i]
  <2>1. (CHOOSE j \in 1 .. Len(hdr) : hdr[j] = b) = i
    BY <1>1, HeaderChoice
  <2> QED BY <1>1, <2>1 DEF Recovered
<1>2. ASSUME NEW b \in Home, \A i \in 1 .. Len(hdr) : hdr[i] # b PROVE Recovered(b) = home[b]
  BY <1>2 DEF Recovered
<1> QED BY <1>1, <1>2

LEMMA RecoveredThen ==
    ASSUME hdr' \in Header
    PROVE  /\ \A b \in Home, i \in 1 .. Len(hdr') : hdr'[i] = b => Recovered(b)' = logd'[i]
           /\ \A b \in Home :
                 (\A i \in 1 .. Len(hdr') : hdr'[i] # b) => Recovered(b)' = home'[b]
<1>1. ASSUME NEW b \in Home, NEW i \in 1 .. Len(hdr'), hdr'[i] = b PROVE Recovered(b)' = logd'[i]
  <2>1. (CHOOSE j \in 1 .. Len(hdr') : hdr'[j] = b) = i
    BY <1>1, HeaderChoice
  <2> QED BY <1>1, <2>1 DEF Recovered
<1>2. ASSUME NEW b \in Home, \A i \in 1 .. Len(hdr') : hdr'[i] # b PROVE Recovered(b)' = home'[b]
  BY <1>2 DEF Recovered
<1> QED BY <1>1, <1>2

LEMMA NothingToRecover ==
    /\ hdr = <<>> => \A b \in Home : Recovered(b) = home[b]
    /\ hdr' = <<>> => \A b \in Home : Recovered(b)' = home'[b]
BY EmptyHeader, RecoveredNow, RecoveredThen

(* Everything that was written survives when no call is open and no commit *)
(* runs.                                                                   *)
THEOREM Durability == Spec => []Durable
<1>1. ASSUME LogInv PROVE Durable
  <2> USE <1>1 DEF LogInv
  <2> SUFFICES ASSUME Up, outstanding = 0, ~committing, NEW b \in Home
               PROVE  Read(b) = Recovered(b)
    BY DEF Durable
  <2>1. lh = <<>> /\ \A p \in Procs : pc[p] \notin Committer
    BY OpenCount DEF PhasesOK
  <2>2. hdr = <<>>
    BY <2>1 DEF DiskOK, Redoing, Committer
  <2>3. ~dirty[b]
    BY <2>1, EmptyHeader DEF CacheOK, Logged
  <2> QED BY <2>2, <2>3, NothingToRecover DEF CacheOK, Read
<1> QED BY <1>1, Invariance, PTL

-----------------------------------------------------------------------------
(* The refinement.  Now and Saved as functions.                            *)
LEMMA AtomicInit == Init => Atomic!Init
<1> SUFFICES ASSUME Init PROVE Atomic!Init
  OBVIOUS
<1>1. /\ \A p \in Procs : pc[p] = "begin"
      /\ pc[Boot] = "read_head" /\ hdr = <<>> /\ \A b \in Home : home[b] = Blank
  BY DEF Init, Booting
<1>2. \A b \in Home : Recovered(b) = Blank
  BY <1>1, NothingToRecover
<1> QED BY <1>1, <1>2 DEF Atomic!Init, Now, Saved, Open, Up

(* Steps that change nothing that can be seen.                             *)
LEMMA AtomicStutter ==
    ASSUME Open' = Open, \A b \in Home : Now'[b] = Now[b] /\ Saved'[b] = Saved[b]
    PROVE  UNCHANGED Atomic!dvars
BY DEF Atomic!dvars, Now, Saved

LEMMA QuietStep ==
    ASSUME Up' = Up, \A p \in Procs : pc'[p] = "op" <=> pc[p] = "op",
           \A b \in Home : Recovered(b)' = Recovered(b) /\ (Up => Read(b)' = Read(b))
    PROVE  UNCHANGED Atomic!dvars
BY AtomicStutter DEF Open, Now, Saved

(* begin_op(), log_write() and end_op(). *)
LEMMA CallIsAtomic ==
    ASSUME LogInv, NEW p \in Procs, CallStep(p)
    PROVE  [Atomic!Next]_(Atomic!dvars)
<1> USE DEF LogInv, Goto
<1>1. hdr' = hdr /\ home' = home /\ logd' = logd
  BY DEF CallStep, BeginOp, BeginWaits, LogWrite, EndOp, disk
<1>2. \A b \in Home : Recovered(b)' = Recovered(b)
  BY <1>1 DEF Recovered
<1>3. Up /\ Up'
  BY DEF CallStep, BeginOp, BeginWaits, LogWrite, EndOp, PhasesOK, Woken, Up, TypeOK
<1>4. CASE BeginOp(p)
  <2>1. Open' = Open \cup {p} /\ UNCHANGED <<home, buf>>
    BY <1>4 DEF BeginOp, Open, TypeOK, cache, disk
  <2>2. Now' = Now /\ Saved' = Saved
    BY <1>2, <1>3, <2>1 DEF Now, Saved, Read
  <2> QED BY <2>1, <2>2 DEF Atomic!Next, Atomic!Begin
<1>5. CASE BeginWaits(p)
  <2>1. UNCHANGED <<home, buf>> /\ \A q \in Procs : pc'[q] = "op" <=> pc[q] = "op"
    BY <1>5 DEF BeginWaits, TypeOK, cache, disk
  <2> QED BY <1>2, <1>3, <2>1, QuietStep DEF Read
<1>6. CASE LogWrite(p)
  <2>1. PICK b \in Home, d \in Data : buf' = [buf EXCEPT ![b] = d]
    BY <1>6 DEF LogWrite
  <2>2. pc[p] = "op" /\ Open' = Open
    BY <1>6 DEF LogWrite, Open
  <2>3. \A c \in Home : Read(c)' = IF c = b THEN d ELSE Read(c)
    BY <1>1, <2>1 DEF Read, TypeOK
  <2>4. Now' = [Now EXCEPT ![b] = d] /\ Saved' = Saved
    BY <1>2, <1>3, <2>3 DEF Now, Saved
  <2> QED BY <2>2, <2>4 DEF Atomic!Next, Atomic!Write, Open
<1>7. CASE EndOp(p)
  <2>1. Open' = Open \ {p} /\ UNCHANGED <<home, buf>>
    BY <1>7 DEF EndOp, Woken, Open, TypeOK, cache, disk
  <2>2. Now' = Now /\ Saved' = Saved
    BY <1>2, <1>3, <2>1 DEF Now, Saved, Read
  <2> QED BY <2>1, <2>2 DEF Atomic!Next, Atomic!End
<1> QED BY <1>4, <1>5, <1>6, <1>7 DEF CallStep

(* Of a commit, the write of the header is the step that saves.            *)
LEMMA CommitIsAtomic ==
    ASSUME LogInv, LogInv', NEW p \in Procs, CommitStep(p)
    PROVE  [Atomic!Next]_(Atomic!dvars)
<1> USE DEF LogInv, Goto
<1>1. /\ pc[p] \in {"write_log", "write_head", "done"} /\ UNCHANGED <<lh, buf, home>>
      /\ \A q \in Procs : pc'[q] = "op" <=> pc[q] = "op"
  BY DEF CommitStep, WriteLog, WriteHead, CommitDone, Woken, TypeOK, log, cache, disk
<1>2. Up /\ Open = {} /\ Up'
  BY <1>1 DEF CommitStep, WriteLog, WriteHead, CommitDone, Woken, PhasesOK, Committer, Up, TypeOK
<1>3. hdr = <<>>
  BY <1>1, <1>2 DEF PhasesOK, DiskOK, Committer, Redoing
<1>4. \A b \in Home : Read(b)' = Read(b)
  BY <1>1 DEF Read
<1>5. CASE WriteLog(p) \/ CommitDone(p)
  <2>1. hdr' = hdr
    BY <1>5 DEF WriteLog, CommitDone, disk
  <2> QED BY <1>1, <1>2, <1>3, <1>4, <2>1, NothingToRecover, QuietStep
<1>6. CASE WriteHead(p)
  <2>1. pc[p] = "write_head" /\ hdr' = lh /\ logd' = logd
    BY <1>6 DEF WriteHead
  <2>2. \A b \in Home : Recovered(b)' = Read(b)
    <3> SUFFICES ASSUME NEW b \in Home PROVE Recovered(b)' = Read(b)
      OBVIOUS
    <3>1. CASE \E i \in 1 .. Len(lh) : lh[i] = b
      <4>1. PICK i \in 1 .. Len(lh) : lh[i] = b
        BY <3>1
      <4>2. logd[i] = Read(b)
        BY <2>1, <4>1 DEF DiskOK, Copied
      <4>3. Recovered(b)' = logd'[i]
        BY <2>1, <4>1, RecoveredThen DEF TypeOK
      <4> QED BY <2>1, <4>2, <4>3
    <3>2. CASE \A i \in 1 .. Len(lh) : lh[i] # b
      <4>1. Read(b) = home[b]
        BY <3>2 DEF CacheOK, Logged, Read
      <4>2. Recovered(b)' = home'[b]
        BY <2>1, <3>2, RecoveredThen DEF TypeOK
      <4> QED BY <1>1, <4>1, <4>2
    <3> QED BY <3>1, <3>2
  <2>3. Saved' = Now /\ Now' = Now /\ Open' = Open
    BY <1>1, <1>2, <1>4, <2>2 DEF Now, Saved, Open
  <2> QED BY <1>2, <2>3 DEF Atomic!Next, Atomic!Save
<1> QED BY <1>5, <1>6 DEF CommitStep

(* Installing, by a commit or at boot, moves to its place what a restart   *)
(* would find in the log.                                                  *)
LEMMA InstallIsQuiet ==
    ASSUME LogInv, NEW t \in Threads, InstallTrans(t)
    PROVE  UNCHANGED Atomic!dvars
<1> USE DEF LogInv, Goto
<1>1. /\ pc[t] = "install" /\ hdr = lh /\ UNCHANGED <<hdr, logd>>
      /\ \A u \in Threads : pc'[u] = pc[u] \/ (pc[u] = "install" /\ pc'[u] = "erase")
  BY DEF InstallTrans, DiskOK, Redoing, TypeOK
<1>2. Up' = Up /\ \A q \in Procs : pc'[q] = "op" <=> pc[q] = "op"
  BY <1>1 DEF Up
<1>3. Up => t \in Procs
  BY <1>1 DEF Up
<1>4. CASE tail[t] <= Len(lh)
  <2> DEFINE k == tail[t]
  <2>1. /\ home' = [home EXCEPT ![lh[k]] = logd[k]] /\ buf' = [buf EXCEPT ![lh[k]] = logd[k]]
        /\ k \in 1 .. Len(lh) /\ lh[k] \in Home /\ logd[k] \in Data
    BY <1>4, HeaderFacts DEF InstallTrans, TypeOK
  <2>2. \A b \in Home : b # lh[k] => home'[b] = home[b] /\ Read(b)' = Read(b)
    BY <2>1 DEF TypeOK, Read
  <2>3. \A b \in Home : b = lh[k] => Read(b)' = logd[k]
    BY <2>1 DEF TypeOK, Read
  <2>4. Up => \A b \in Home : b = lh[k] => Read(b) = logd[k]
    BY <1>1, <1>3, <2>1 DEF DiskOK, Copied
  <2>5. \A b \in Home : Recovered(b)' = Recovered(b)
    <3> SUFFICES ASSUME NEW b \in Home PROVE Recovered(b)' = Recovered(b)
      OBVIOUS
    <3>1. CASE \E i \in 1 .. Len(hdr) : hdr[i] = b
      BY <1>1, <3>1 DEF Recovered
    <3>2. CASE \A i \in 1 .. Len(hdr) : hdr[i] # b
      <4>1. home'[b] = home[b]
        BY <1>1, <2>1, <2>2, <3>2
      <4> QED BY <1>1, <3>2, <4>1 DEF Recovered
    <3> QED BY <3>1, <3>2
  <2>6. Up => \A b \in Home : Read(b)' = Read(b)
    BY <2>2, <2>3, <2>4
  <2> QED BY <1>2, <2>5, <2>6, QuietStep
<1>5. CASE ~(tail[t] <= Len(lh))
  <2>1. UNCHANGED <<home, buf>>
    BY <1>5 DEF InstallTrans, cache
  <2> QED BY <1>1, <1>2, <2>1, QuietStep DEF Recovered, Read
<1> QED BY <1>4, <1>5

(* Erasing the header changes nothing once its blocks are at home.         *)
LEMMA EraseIsQuiet ==
    ASSUME LogInv, LogInv', NEW t \in Threads, Erase(t)
    PROVE  UNCHANGED Atomic!dvars
<1> USE DEF LogInv, Goto
<1>1. /\ pc[t] = "erase" /\ hdr = lh /\ hdr' = <<>> /\ UNCHANGED <<home, logd, buf>>
      /\ pc' = [pc EXCEPT ![t] = IF t = Boot THEN "up" ELSE "done"]
  BY DEF Erase, DiskOK, Redoing, cache
<1>2. \A i \in 1 .. Len(lh) : home[lh[i]] = logd[i]
  BY <1>1 DEF DiskOK, Installed, Redoing
<1>3. \A b \in Home : Recovered(b) = home[b]
  <2> SUFFICES ASSUME NEW b \in Home PROVE Recovered(b) = home[b]
    OBVIOUS
  <2>1. CASE \E i \in 1 .. Len(hdr) : hdr[i] = b
    BY <1>1, <1>2, <2>1, RecoveredNow DEF TypeOK
  <2>2. CASE \A i \in 1 .. Len(hdr) : hdr[i] # b
    BY <2>2, RecoveredNow DEF TypeOK
  <2> QED BY <2>1, <2>2
<1>4. \A b \in Home : Recovered(b)' = Recovered(b)
  BY <1>1, <1>3, NothingToRecover
<1>5. \A b \in Home : Read(b)' = Read(b)
  BY <1>1 DEF Read
<1>6. \A q \in Procs : pc'[q] = "op" <=> pc[q] = "op"
  BY <1>1 DEF TypeOK
<1>7. CASE t = Boot
  <2>1. ~Up /\ Up'
    BY <1>1, <1>7 DEF Up, TypeOK
  <2>2. \A b \in Home : Read(b) = home[b]
    BY <2>1 DEF CacheOK, Read
  <2>3. Open' = Open /\ \A b \in Home : Now'[b] = Now[b] /\ Saved'[b] = Saved[b]
    BY <1>3, <1>4, <1>5, <1>6, <2>1, <2>2 DEF Now, Saved, Open
  <2> QED BY <2>3, AtomicStutter
<1>8. CASE t # Boot
  <2>1. Up' = Up
    BY <1>1, <1>8 DEF Up, TypeOK
  <2> QED BY <1>4, <1>5, <1>6, <2>1, QuietStep
<1> QED BY <1>7, <1>8

LEMMA AtomicNext == LogInv /\ LogInv' /\ [Next]_vars => [Atomic!Next]_(Atomic!dvars)
<1> SUFFICES ASSUME LogInv, LogInv', [Next]_vars PROVE [Atomic!Next]_(Atomic!dvars)
  OBVIOUS
<1>1. ASSUME NEW p \in Procs, CallStep(p) \/ CommitStep(p)
      PROVE  [Atomic!Next]_(Atomic!dvars)
  BY <1>1, CallIsAtomic, CommitIsAtomic
<1>2. ASSUME NEW t \in Threads, LogStep(t) PROVE UNCHANGED Atomic!dvars
  BY <1>2, InstallIsQuiet, EraseIsQuiet DEF LogStep
<1>3. CASE ReadHead
  <2>1. /\ UNCHANGED <<home, logd, hdr>> /\ ~Up /\ ~Up'
        /\ \A q \in Procs : pc'[q] = "op" <=> pc[q] = "op"
    BY <1>3 DEF ReadHead, Goto, Up, disk, LogInv, TypeOK
  <2>2. Up' = Up /\ \A b \in Home : Recovered(b)' = Recovered(b)
    BY <2>1 DEF Recovered, Up
  <2> QED BY <2>1, <2>2, QuietStep
<1>4. CASE Crash
  <2>1. /\ UNCHANGED <<home, logd, hdr>> /\ ~Up'
        /\ \A q \in Procs : pc'[q] = "begin"
    BY <1>4 DEF Crash, Booting, Up, disk
  <2>2. \A b \in Home : Recovered(b)' = Recovered(b)
    BY <2>1 DEF Recovered
  <2>3. Open' = {} /\ Now' = Saved /\ Saved' = Saved
    BY <2>1, <2>2 DEF Open, Now, Saved
  <2> QED BY <2>3 DEF Atomic!Next, Atomic!Crash
<1>5. ASSUME NEW b \in Home, Cache(b) \/ Recycle(b) PROVE UNCHANGED Atomic!dvars
  <2>1. UNCHANGED <<pc, home, logd, hdr>>
    BY <1>5 DEF Cache, Recycle, procs, disk
  <2>2. \/ buf[b] = NotCached /\ buf' = [buf EXCEPT ![b] = home[b]]
        \/ buf[b] # NotCached /\ ~dirty[b] /\ buf' = [buf EXCEPT ![b] = NotCached]
    BY <1>5 DEF Cache, Recycle
  <2>3. \A c \in Home : Read(c)' = Read(c)
    BY <2>1, <2>2 DEF LogInv, CacheOK, Read, TypeOK
  <2> QED BY <2>1, <2>3, QuietStep DEF Recovered, Up
<1>6. CASE UNCHANGED vars
  <2>1. UNCHANGED <<pc, home, logd, hdr, buf>>
    BY <1>6 DEF vars, procs, cache, disk
  <2>2. /\ Up' = Up
        /\ \A b \in Home : Recovered(b)' = Recovered(b) /\ Read(b)' = Read(b)
    BY <2>1 DEF Recovered, Read, Up
  <2> QED BY <2>1, <2>2, QuietStep
<1> QED BY <1>1, <1>2, <1>3, <1>4, <1>5, <1>6 DEF Next

(* The log implements Transactions: what the calls open at one time write  *)
(* reaches the disk together or not at all, whichever step a crash cuts    *)
(* off, a step of recovery included.                                       *)
THEOREM Implements == Spec => AtomicSpec
<1>1. LogInv /\ LogInv' /\ [Next]_vars => [Atomic!Next]_(Atomic!dvars)
  BY AtomicNext
<1> QED BY <1>1, AtomicInit, Invariance, PTL DEF Spec, AtomicSpec, Atomic!Spec
=============================================================================
