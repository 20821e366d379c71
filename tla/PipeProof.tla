----------------------------- MODULE PipeProof -----------------------------
(***************************************************************************)
(* Proofs about Pipe, for every finite number of processes, any number of  *)
(* files, descriptors and pipes, and any size of a pipe.                   *)
(***************************************************************************)
EXTENDS Pipe, FiniteSetTheorems, SequenceTheorems, WellFoundedInduction, TLAPS

USE PipeAssumption, NoneAssumption

-----------------------------------------------------------------------------
(* Who refers to file f, with descriptors o and calls c.                   *)
Descs(o, f) == {pd \in Procs \X Fds : o[pd[1]][pd[2]] = f}
Calls(c, f) == {pi \in Procs \X (1 .. 2) :
                  pi[2] <= Len(c[pi[1]]) /\ c[pi[1]][pi[2]] = f}
Refs(o, c, f) == Cardinality(Descs(o, f)) + Cardinality(Calls(c, f))

Tables == [Procs -> [Fds -> Files \cup {None}]]
Lists  == [Procs -> Seq(Files)]

One(v, f) == IF v = f THEN 1 ELSE 0
Times(s, f) == (IF Len(s) >= 1 /\ s[1] = f THEN 1 ELSE 0)
             + (IF Len(s) >= 2 /\ s[2] = f THEN 1 ELSE 0)

LEMMA CountsAre == RefCounts <=> \A f \in Files : file[f].ref = Refs(ofile, closing, f)
BY DEF RefCounts, Refs, Descs, Calls

LEMMA FiniteRefs ==
    ASSUME NEW o, NEW c, NEW f
    PROVE  /\ IsFiniteSet(Descs(o, f)) /\ IsFiniteSet(Calls(c, f))
           /\ Cardinality(Descs(o, f)) \in Nat /\ Cardinality(Calls(c, f)) \in Nat
<1>1. IsFiniteSet(Fds) /\ IsFiniteSet(1 .. 2)
  <2>1. 1 \in Int /\ 2 \in Int /\ NOFILE \in Int
    OBVIOUS
  <2> QED BY <2>1, FS_Interval DEF Fds
<1>2. IsFiniteSet(Procs \X Fds) /\ IsFiniteSet(Procs \X (1 .. 2))
  BY <1>1, FS_Product
<1>3. Descs(o, f) \in SUBSET (Procs \X Fds) /\ Calls(c, f) \in SUBSET (Procs \X (1 .. 2))
  BY DEF Descs, Calls
<1>4. IsFiniteSet(Descs(o, f)) /\ IsFiniteSet(Calls(c, f))
  BY <1>2, <1>3, FS_Subset
<1> QED BY <1>4, FS_CardinalityType

(* A set without x, and the set with x in it if b.                         *)
LEMMA WithOne ==
    ASSUME NEW S, NEW T, NEW x, NEW b \in BOOLEAN, IsFiniteSet(S), x \notin S,
           T = IF b THEN S \cup {x} ELSE S
    PROVE  Cardinality(T) = Cardinality(S) + (IF b THEN 1 ELSE 0)
BY FS_AddElement, FS_CardinalityType

LEMMA DescPut ==
    ASSUME NEW o \in Tables, NEW n \in Tables, NEW p \in Procs, NEW d \in Fds,
           \A q \in Procs, e \in Fds : q # p \/ e # d => n[q][e] = o[q][e],
           NEW f \in Files
    PROVE  Cardinality(Descs(n, f)) + One(o[p][d], f)
             = Cardinality(Descs(o, f)) + One(n[p][d], f)
<1> DEFINE O == Descs(o, f) \ {<<p, d>>}
<1>1. IsFiniteSet(O) /\ <<p, d>> \notin O
  BY FiniteRefs, FS_RemoveElement
<1>2. Descs(o, f) = IF o[p][d] = f THEN O \cup {<<p, d>>} ELSE O
  BY DEF Descs
<1>3. Descs(n, f) = IF n[p][d] = f THEN O \cup {<<p, d>>} ELSE O
  BY DEF Descs
<1>4. Cardinality(Descs(o, f)) = Cardinality(O) + One(o[p][d], f)
  BY <1>1, <1>2, WithOne DEF One
<1>5. Cardinality(Descs(n, f)) = Cardinality(O) + One(n[p][d], f)
  BY <1>1, <1>3, WithOne DEF One
<1>6. Cardinality(O) \in Nat
  BY <1>1, FS_CardinalityType
<1> QED BY <1>4, <1>5, <1>6 DEF One

LEMMA CallsPut ==
    ASSUME NEW c \in Lists, NEW n \in Lists, NEW p \in Procs,
           \A q \in Procs : q # p => n[q] = c[q], NEW f \in Files
    PROVE  Cardinality(Calls(n, f)) + Times(c[p], f)
             = Cardinality(Calls(c, f)) + Times(n[p], f)
<1> DEFINE Rest(t) == {pi \in Calls(t, f) : pi[1] # p}
           Half(t) == IF Len(t[p]) >= 1 /\ t[p][1] = f THEN Rest(t) \cup {<<p, 1>>}
                                                       ELSE Rest(t)
<1>1. ASSUME NEW t \in Lists
      PROVE  /\ Cardinality(Calls(t, f)) = Cardinality(Rest(t)) + Times(t[p], f)
             /\ Cardinality(Rest(t)) \in Nat
  <2>1. Rest(t) \in SUBSET Calls(t, f)
    OBVIOUS
  <2>2. IsFiniteSet(Rest(t)) /\ <<p, 1>> \notin Rest(t) /\ <<p, 2>> \notin Rest(t)
    BY <2>1, FiniteRefs, FS_Subset
  <2>3. Cardinality(Half(t)) = Cardinality(Rest(t)) + (IF Len(t[p]) >= 1 /\ t[p][1] = f THEN 1 ELSE 0)
    BY <2>2, WithOne
  <2>4. IsFiniteSet(Half(t)) /\ <<p, 2>> \notin Half(t)
    <3>1. <<p, 1>> # <<p, 2>>
      OBVIOUS
    <3>2. IsFiniteSet(Rest(t) \cup {<<p, 1>>})
      BY <2>2, FS_AddElement
    <3> QED BY <2>2, <3>1, <3>2
  <2>5. Len(t[p]) \in Nat
    BY DEF Lists
  <2>6. Calls(t, f) = IF Len(t[p]) >= 2 /\ t[p][2] = f THEN Half(t) \cup {<<p, 2>>}
                                                       ELSE Half(t)
    <3>1. ASSUME NEW x
          PROVE  x \in Calls(t, f) <=>
                   \/ x \in Rest(t)
                   \/ x = <<p, 1>> /\ Len(t[p]) >= 1 /\ t[p][1] = f
                   \/ x = <<p, 2>> /\ Len(t[p]) >= 2 /\ t[p][2] = f
      BY <2>5 DEF Calls
    <3> QED BY <3>1
  <2>7. Cardinality(Calls(t, f)) = Cardinality(Half(t)) + (IF Len(t[p]) >= 2 /\ t[p][2] = f THEN 1 ELSE 0)
    BY <2>4, <2>6, WithOne
  <2>8. Cardinality(Rest(t)) \in Nat
    BY <2>2, FS_CardinalityType
  <2> QED BY <2>3, <2>7, <2>8 DEF Times, One
<1>2. Rest(n) = Rest(c)
  BY DEF Calls, Lists
<1>3. Cardinality(Calls(n, f)) = Cardinality(Rest(n)) + Times(n[p], f)
  BY <1>1
<1>4. Cardinality(Calls(c, f)) = Cardinality(Rest(c)) + Times(c[p], f)
  BY <1>1
<1>5. Cardinality(Rest(c)) \in Nat
  BY <1>1
<1> HIDE DEF Rest, Half
<1> QED BY <1>2, <1>3, <1>4, <1>5 DEF Times

(* A call or descriptor that refers to f counts, and two count twice.      *)
LEMMA DescCounts ==
    ASSUME NEW o \in Tables, NEW c, NEW p \in Procs, NEW d \in Fds, o[p][d] \in Files
    PROVE  Refs(o, c, o[p][d]) >= 1
<1> DEFINE f == o[p][d]
<1>1. <<p, d>> \in Descs(o, f)
  BY DEF Descs
<1>2. Cardinality(Descs(o, f)) # 0
  BY <1>1, FiniteRefs, FS_EmptySet
<1> QED BY <1>2, FiniteRefs DEF Refs

LEMMA CallCounts ==
    ASSUME NEW o \in Tables, NEW c \in Lists, NEW p \in Procs, NEW i \in 1 .. 2,
           i <= Len(c[p])
    PROVE  /\ Refs(o, c, c[p][i]) >= 1
           /\ Refs(o, c, c[p][i]) = 1 =>
                /\ \A q \in Procs, d \in Fds : o[q][d] # c[p][i]
                /\ \A q \in Procs, j \in 1 .. 2 :
                     j <= Len(c[q]) /\ c[q][j] = c[p][i] => q = p /\ j = i
<1> DEFINE f == c[p][i]
<1>1. <<p, i>> \in Calls(c, f)
  BY DEF Calls
<1>2. Cardinality(Calls(c, f)) # 0
  BY <1>1, FiniteRefs, FS_EmptySet
<1>3. ASSUME Refs(o, c, f) = 1
      PROVE  Cardinality(Descs(o, f)) = 0 /\ Cardinality(Calls(c, f)) = 1
  BY <1>2, <1>3, FiniteRefs DEF Refs
<1>4. ASSUME Refs(o, c, f) = 1, NEW q \in Procs, NEW d \in Fds PROVE o[q][d] # f
  <2>1. Descs(o, f) = {}
    BY <1>3, <1>4, FiniteRefs, FS_EmptySet
  <2>2. <<q, d>> \notin Descs(o, f)
    BY <2>1
  <2> QED BY <2>2 DEF Descs
<1>5. ASSUME Refs(o, c, f) = 1, NEW q \in Procs, NEW j \in 1 .. 2,
             j <= Len(c[q]), c[q][j] = f
      PROVE  q = p /\ j = i
  <2>1. \E x : Calls(c, f) = {x}
    BY <1>3, <1>5, FiniteRefs, FS_Singleton
  <2>2. <<q, j>> \in Calls(c, f)
    BY <1>5 DEF Calls
  <2> QED BY <1>1, <2>1, <2>2
<1> QED BY <1>2, <1>4, <1>5, FiniteRefs DEF Refs

-----------------------------------------------------------------------------
(* The least of some natural numbers is one of them.                       *)
LEMMA LeastIn ==
    ASSUME NEW S \in SUBSET Nat, S # {}
    PROVE  Least(S) \in S
<1>1. IsWellFoundedOn({r \in Nat \X Nat : r[1] < r[2]}, Nat)
  BY NatLessThanWellFounded DEF OpToRel
<1>2. PICK i \in S : \A j \in S : <<j, i>> \notin {r \in Nat \X Nat : r[1] < r[2]}
  BY <1>1, WFMin
<1>3. ASSUME NEW j \in S PROVE i <= j
  <2>1. <<j, i>> \notin {r \in Nat \X Nat : r[1] < r[2]}
    BY <1>2
  <2> QED BY <2>1
<1> QED BY <1>3 DEF Least

(* What the invariant says of an open file, of a caller and of a closer.   *)
LEMMA Referred ==
    ASSUME TypeOK, RefCounts
    PROVE  /\ \A p \in Procs, d \in Fds : ofile[p][d] # None =>
                /\ ofile[p][d] \in Files
                /\ file[ofile[p][d]].ref >= 1
           /\ \A p \in Procs, i \in 1 .. 2 : i <= Len(closing[p]) =>
                /\ closing[p][i] \in Files
                /\ file[closing[p][i]].ref >= 1
                /\ file[closing[p][i]].ref = 1 =>
                     /\ \A q \in Procs, d \in Fds : ofile[q][d] # closing[p][i]
                     /\ \A q \in Procs, j \in 1 .. 2 :
                          j <= Len(closing[q]) /\ closing[q][j] = closing[p][i]
                            => q = p /\ j = i
<1>1. ofile \in Tables /\ closing \in Lists
  BY DEF TypeOK, Tables, Lists
<1>2. ASSUME NEW p \in Procs, NEW d \in Fds, ofile[p][d] # None
      PROVE  ofile[p][d] \in Files /\ file[ofile[p][d]].ref >= 1
  <2>1. ofile[p][d] \in Files
    BY <1>2 DEF TypeOK
  <2>2. Refs(ofile, closing, ofile[p][d]) >= 1
    BY <1>1, <2>1, DescCounts
  <2> QED BY <2>1, <2>2, CountsAre
<1>3. ASSUME NEW p \in Procs, NEW i \in 1 .. 2, i <= Len(closing[p])
      PROVE  /\ closing[p][i] \in Files
             /\ file[closing[p][i]].ref = Refs(ofile, closing, closing[p][i])
  <2>1. closing[p] \in Seq(Files) /\ i \in 1 .. Len(closing[p])
    BY <1>3 DEF TypeOK
  <2>2. closing[p][i] \in Files
    BY <2>1, ElementOfSeq
  <2> QED BY <2>2, CountsAre
<1> QED BY <1>1, <1>2, <1>3, CallCounts

LEMMA CallerEnd ==
    ASSUME PipeInv, NEW p \in Procs, pc[p] \in Readers \cup Writers
    PROVE  /\ cur[p] \in OpenEnd /\ cur[p] # None /\ cur[p].pipe \in Live
           /\ pipe[cur[p].pipe] \in Page
           /\ pc[p] \in Readers => ~cur[p].writable /\ pipe[cur[p].pipe].readopen
           /\ pc[p] \in Writers => cur[p].writable /\ pipe[cur[p].pipe].writeopen
<1>1. cur[p] \in OpenEnd /\ cur[p] # None
  BY DEF PipeInv, PhasesOK, TypeOK
<1>2. /\ pc[p] \in Readers => ~cur[p].writable
      /\ pc[p] \in Writers => cur[p].writable
  BY DEF PipeInv, PhasesOK
<1> DEFINE k == cur[p].pipe
           w == cur[p].writable
<1>3. PICK d \in Fds : ofile[p][d] # None /\ IsEnd(ofile[p][d], k, w)
  BY DEF PipeInv, CallersOK
<1>4. ofile[p][d] \in Files /\ file[ofile[p][d]].ref >= 1
      /\ file[ofile[p][d]].ref \in Nat
  BY <1>3, Referred DEF PipeInv, TypeOK, Entry
<1>5. EndOpen(k, w)
  BY <1>3, <1>4 DEF EndOpen, IsEnd
<1>6. k \in Pipes /\ w \in BOOLEAN
  BY <1>1 DEF OpenEnd
<1>7. /\ k \in Live /\ (w => pipe[k].writeopen) /\ (~w => pipe[k].readopen)
  <2>1. CASE w
    BY <1>5, <1>6, <2>1 DEF PipeInv, EndsOpen
  <2>2. CASE ~w
    BY <1>5, <1>6, <2>2 DEF PipeInv, EndsOpen
  <2> QED BY <2>1, <2>2
<1>8. pipe[k] \in Page
  BY <1>6, <1>7 DEF PipeInv, TypeOK, Live
<1> QED BY <1>1, <1>2, <1>7, <1>8

LEMMA CloserEnd ==
    ASSUME PipeInv, NEW p \in Procs, pc[p] \in {"closing", "exit"}, cur[p] # None
    PROVE  /\ cur[p] \in OpenEnd /\ cur[p].pipe \in Live
           /\ pipe[cur[p].pipe] \in Page
           /\ ~cur[p].writable => pipe[cur[p].pipe].readopen
           /\ cur[p].writable => pipe[cur[p].pipe].writeopen
<1>1. cur[p] \in OpenEnd
  BY DEF PipeInv, TypeOK
<1> DEFINE k == cur[p].pipe
           w == cur[p].writable
<1>2. k \in Pipes /\ w \in BOOLEAN
  BY <1>1 DEF OpenEnd
<1>3. EndOpen(k, w)
  BY DEF EndOpen
<1>4. /\ k \in Live /\ (w => pipe[k].writeopen) /\ (~w => pipe[k].readopen)
  <2>1. CASE w
    BY <1>2, <1>3, <2>1 DEF PipeInv, EndsOpen
  <2>2. CASE ~w
    BY <1>2, <1>3, <2>2 DEF PipeInv, EndsOpen
  <2> QED BY <2>1, <2>2
<1>5. pipe[k] \in Page
  BY <1>2, <1>4 DEF PipeInv, TypeOK, Live
<1> QED BY <1>1, <1>4, <1>5

-----------------------------------------------------------------------------
(* Counters that wrap.                                                     *)
USE RingAssumption

LEMMA WrapIs ==
    ASSUME NEW a \in 0 .. Counts - 1, NEW n \in 0 .. Counts - 1
    PROVE  /\ (a + n) % Counts = IF a + n < Counts THEN a + n ELSE a + n - Counts
           /\ (a + n) % Counts \in 0 .. Counts - 1
<1>1. CASE a + n < Counts
  BY <1>1
<1>2. CASE a + n >= Counts
  BY <1>2
<1> QED BY <1>1, <1>2

LEMMA UsedIs ==
    ASSUME NEW q \in Page
    PROVE  /\ Used(q) = IF q.nread <= q.nwrite THEN q.nwrite - q.nread
                                              ELSE q.nwrite - q.nread + Counts
           /\ Used(q) \in 0 .. Counts - 1
           /\ Used(q) = 0 <=> q.nread = q.nwrite
<1>1. q.nread \in 0 .. Counts - 1 /\ q.nwrite \in 0 .. Counts - 1
  BY DEF Page
<1>2. CASE q.nread <= q.nwrite
  BY <1>1, <1>2 DEF Used
<1>3. CASE q.nread > q.nwrite
  BY <1>1, <1>3 DEF Used
<1> QED BY <1>1, <1>2, <1>3

LEMMA UsedAfterRead ==
    ASSUME NEW q \in Page, NEW n \in Nat, n <= Used(q)
    PROVE  /\ [q EXCEPT !.nread = (@ + n) % Counts] \in Page
           /\ Used([q EXCEPT !.nread = (@ + n) % Counts]) = Used(q) - n
<1> DEFINE r == (q.nread + n) % Counts
           t == [q EXCEPT !.nread = r]
<1>1. /\ q.nread \in 0 .. Counts - 1 /\ q.nwrite \in 0 .. Counts - 1
      /\ n \in 0 .. Counts - 1
  BY UsedIs DEF Page
<1>2. /\ r = IF q.nread + n < Counts THEN q.nread + n ELSE q.nread + n - Counts
      /\ r \in 0 .. Counts - 1
  BY <1>1, WrapIs
<1> HIDE DEF r
<1>3. t \in Page /\ t.nread = r /\ t.nwrite = q.nwrite
  BY <1>2 DEF Page
<1>4. Used(t) = Used(q) - n
  <2>1. Used(t) = IF t.nread <= t.nwrite THEN t.nwrite - t.nread
                                          ELSE t.nwrite - t.nread + Counts
    BY <1>3, UsedIs
  <2>2. Used(q) = IF q.nread <= q.nwrite THEN q.nwrite - q.nread
                                          ELSE q.nwrite - q.nread + Counts
    BY UsedIs
  <2> HIDE DEF t
  <2> QED BY <1>1, <1>2, <1>3, <2>1, <2>2
<1> QED BY <1>3, <1>4 DEF r

LEMMA FilledIs ==
    ASSUME NEW q \in Page, NEW n \in Nat, Used(q) + n <= PIPESIZE,
           NEW s \in [1 .. n -> Bytes]
    PROVE  /\ Len(s) = n /\ Filled(q, s) \in Page
           /\ Filled(q, s).nread = q.nread
           /\ Filled(q, s).readopen = q.readopen
           /\ Filled(q, s).writeopen = q.writeopen
           /\ Filled(q, s).cut = q.cut
           /\ Used(Filled(q, s)) = Used(q) + n
           /\ Filled(q, s).nwrite = (q.nwrite + n) % Counts
<1>1. s \in Seq(Bytes) /\ Len(s) = n
  OBVIOUS
<1> DEFINE At(i) == {j \in 1 .. Len(s) : (q.nwrite + j - 1) % PIPESIZE = i}
           dat == [i \in 0 .. PIPESIZE - 1 |->
                     IF At(i) = {} THEN q.data[i] ELSE s[CHOOSE j \in At(i) : TRUE]]
           w == (q.nwrite + n) % Counts
           t == [q EXCEPT !.data = dat, !.nwrite = w]
<1>2. /\ q.nread \in 0 .. Counts - 1 /\ q.nwrite \in 0 .. Counts - 1
      /\ n \in 0 .. Counts - 1
  BY UsedIs DEF Page
<1>3. /\ w = IF q.nwrite + n < Counts THEN q.nwrite + n ELSE q.nwrite + n - Counts
      /\ w \in 0 .. Counts - 1
  BY <1>2, WrapIs
<1>4. dat \in [0 .. PIPESIZE - 1 -> Bytes \cup {None}]
  <2>1. ASSUME NEW i \in 0 .. PIPESIZE - 1, At(i) # {}
        PROVE  s[CHOOSE j \in At(i) : TRUE] \in Bytes
    <3>1. (CHOOSE j \in At(i) : TRUE) \in At(i)
      BY <2>1
    <3>2. (CHOOSE j \in At(i) : TRUE) \in 1 .. n
      BY <1>1, <3>1
    <3> QED BY <3>2
  <2> QED BY <2>1 DEF Page
<1>5. Filled(q, s) = t
  BY <1>1 DEF Filled
<1> HIDE DEF w, dat
<1>6. /\ t \in Page /\ t.nwrite = w /\ t.nread = q.nread /\ t.readopen = q.readopen
      /\ t.writeopen = q.writeopen /\ t.cut = q.cut
  BY <1>3, <1>4 DEF Page
<1> HIDE DEF t
<1> HIDE RingAssumption
<1>7. Used(t) = Used(q) + n
  <2>1. Used(t) = IF t.nread <= t.nwrite THEN t.nwrite - t.nread
                                          ELSE t.nwrite - t.nread + Counts
    BY <1>6, UsedIs
  <2>2. Used(q) = IF q.nread <= q.nwrite THEN q.nwrite - q.nread
                                          ELSE q.nwrite - q.nread + Counts
    BY UsedIs
  <2>3. Used(q) + n < Counts /\ Counts \in Nat /\ n \in Nat
    <3>1. Used(q) \in 0 .. Counts - 1
      BY UsedIs
    <3>2. Used(q) + n <= PIPESIZE /\ PIPESIZE < Counts /\ Counts \in Nat /\ PIPESIZE \in Nat
      BY RingAssumption
    <3> QED BY <1>2, <3>1, <3>2
  <2>4. CASE q.nwrite + n < Counts
    BY <1>2, <1>3, <1>6, <2>1, <2>2, <2>3, <2>4
  <2>5. CASE q.nwrite + n >= Counts
    <3>1. w = q.nwrite + n - Counts
      BY <1>2, <1>3, <2>3, <2>5
    <3>2. q.nread <= q.nwrite
      BY <1>2, <2>2, <2>3, <2>5
    <3>3. w < q.nread
      BY <1>2, <2>2, <2>3, <3>1, <3>2
    <3>4. Used(t) = w - q.nread + Counts
      BY <1>2, <1>3, <1>6, <2>1, <3>3
    <3>5. Used(q) = q.nwrite - q.nread
      BY <2>2, <3>2
    <3>6. q.nread \in Int /\ q.nwrite \in Int /\ n \in Int /\ Counts \in Int
      BY <1>2, <2>3
    <3> QED BY <3>1, <3>4, <3>5, <3>6
  <2> QED BY <1>2, <2>3, <2>4, <2>5
<1> QED BY <1>1, <1>5, <1>6, <1>7 DEF w

HIDE RingAssumption

-----------------------------------------------------------------------------
(* The types.                                                              *)
LEMMA FreeFile ==
    ASSUME TypeOK, FreeFiles # {}
    PROVE  Least(FreeFiles) \in Files /\ file[Least(FreeFiles)].ref = 0
<1>1. FreeFiles \in SUBSET Nat
  BY DEF FreeFiles, Files
<1> QED BY <1>1, LeastIn DEF FreeFiles

LEMMA LeastFd ==
    ASSUME NEW S \in SUBSET Fds, S # {}
    PROVE  Least(S) \in S
BY LeastIn DEF Fds

LEMMA TwoFree ==
    ASSUME NEW p \in Procs, Cardinality(FreeFds(p)) >= 2
    PROVE  /\ Least(FreeFds(p)) \in FreeFds(p)
           /\ Least(FreeFds(p) \ {Least(FreeFds(p))})
                \in FreeFds(p) \ {Least(FreeFds(p))}
<1> DEFINE S == FreeFds(p)
           d == Least(S)
<1>1. S \in SUBSET Fds /\ IsFiniteSet(Fds) /\ IsFiniteSet(S)
  <2>1. S \in SUBSET Fds
    BY DEF FreeFds
  <2>2. IsFiniteSet(Fds)
    BY FS_Interval DEF Fds
  <2> QED BY <2>1, <2>2, FS_Subset
<1>2. S # {}
  BY FS_EmptySet
<1>3. d \in S
  BY <1>1, <1>2, LeastFd
<1> HIDE DEF d
<1>4. IsFiniteSet(S \ {d}) /\ Cardinality(S \ {d}) = Cardinality(S) - 1
  BY <1>1, <1>3, FS_RemoveElement
<1>5. Cardinality(S) \in Nat
  BY <1>1, FS_CardinalityType
<1>6. S \ {d} # {}
  BY <1>4, <1>5, FS_EmptySet
<1>7. Least(S \ {d}) \in S \ {d}
  BY <1>1, <1>6, LeastFd
<1> QED BY <1>3, <1>7 DEF d

LEMMA TypeInit == Init => TypeOK
BY DEF Init, TypeOK, Files, Fds, Closed, Console, Readers, Writers, Entry

LEMMA Counted ==
    ASSUME TypeOK, NEW f \in Files
    PROVE  /\ [file EXCEPT ![f].ref = 1] \in [Files -> Entry]
           /\ Filedup(f) \in [Files -> Entry]
           /\ file[f].ref >= 1 => [file EXCEPT ![f].ref = @ - 1] \in [Files -> Entry]
           /\ [file EXCEPT ![f] = Closed] \in [Files -> Entry]
<1>1. file \in [Files -> Entry] /\ file[f] \in Entry /\ file[f].ref \in Nat
  BY DEF TypeOK, Entry
<1>2. ASSUME NEW n \in Nat PROVE [file[f] EXCEPT !.ref = n] \in Entry
  BY <1>1 DEF Entry
<1>3. ASSUME NEW e \in Entry PROVE [file EXCEPT ![f] = e] \in [Files -> Entry]
  BY <1>1
<1>4. Closed \in Entry
  BY DEF Closed, Entry
<1>5. /\ [file[f] EXCEPT !.ref = 1] \in Entry
      /\ [file[f] EXCEPT !.ref = @ + 1] \in Entry
      /\ file[f].ref >= 1 => [file[f] EXCEPT !.ref = @ - 1] \in Entry
  <2>1. /\ file[f].ref + 1 \in Nat
        /\ file[f].ref >= 1 => file[f].ref - 1 \in Nat
    BY <1>1
  <2> QED BY <1>2, <2>1
<1> QED BY <1>3, <1>4, <1>5 DEF Filedup

LEMMA ListPut ==
    ASSUME TypeOK, NEW p \in Procs, NEW s \in Seq(Files)
    PROVE  [closing EXCEPT ![p] = s] \in [Procs -> Seq(Files)]
BY DEF TypeOK

LEMMA TablePut ==
    ASSUME TypeOK, NEW p \in Procs, NEW d \in Fds, NEW v \in Files \cup {None}
    PROVE  [ofile EXCEPT ![p][d] = v] \in [Procs -> [Fds -> Files \cup {None}]]
BY DEF TypeOK

LEMMA TypePipe ==
    ASSUME PipeInv, NEW p \in Procs, PipeStep(p)
    PROVE  TypeOK'
<1> USE DEF PipeInv, TypeOK
<1>1. CASE PipeStart(p)
  <2>1. Least(FreeFiles) \in Files
    BY <1>1, FreeFile DEF PipeStart
  <2>2. file' \in [Files -> Entry]
    BY <1>1, <2>1, Counted DEF PipeStart, Filealloc
  <2>3. closing' \in [Procs -> Seq(Files)]
    BY <1>1, <2>1, ListPut DEF PipeStart
  <2> QED BY <1>1, <2>2, <2>3 DEF PipeStart, Goto
<1>2. CASE PipeSecond(p)
  <2>1. CASE FreeFiles # {} /\ file' = Filealloc
    <3>1. Least(FreeFiles) \in Files
      BY <2>1, FreeFile
    <3>2. Append(closing[p], Least(FreeFiles)) \in Seq(Files)
      BY <3>1
    <3>3. file' \in [Files -> Entry]
      BY <2>1, <3>1, Counted DEF Filealloc
    <3>4. closing' \in [Procs -> Seq(Files)]
      BY <1>2, <2>1, <3>2, ListPut DEF PipeSecond
    <3> QED BY <1>2, <2>1, <3>3, <3>4 DEF PipeSecond
  <2>2. CASE FreeFiles = {}
    BY <1>2, <2>2 DEF PipeSecond, Goto
  <2> QED BY <1>2, <2>1, <2>2 DEF PipeSecond
<1>3. CASE PipeReady(p)
  <2>1. closing[p][1] \in Files /\ closing[p][2] \in Files
    <3>1. closing[p] \in Seq(Files) /\ 1 \in 1 .. Len(closing[p]) /\ 2 \in 1 .. Len(closing[p])
      BY <1>3 DEF PipeReady
    <3> QED BY <3>1, ElementOfSeq
  <2>2. NewPipe \in Page
    BY RingAssumption DEF NewPipe, Page
  <2>3. PICK k \in Pipes :
          /\ pipe' = [pipe EXCEPT ![k] = NewPipe]
          /\ file' = [file EXCEPT ![closing[p][1]] = End(FALSE, k),
                                  ![closing[p][2]] = End(TRUE, k)]
    BY <1>3 DEF PipeReady
  <2>4. pipe' \in [Pipes -> {None} \cup Page]
    BY <2>2, <2>3
  <2>5. file' \in [Files -> Entry]
    <3>1. End(FALSE, k) \in Entry /\ End(TRUE, k) \in Entry
      BY DEF End, Entry
    <3> QED BY <2>1, <2>3, <3>1
  <2>6. ofile' \in [Procs -> [Fds -> Files \cup {None}]]
    <3> DEFINE d == Least(FreeFds(p))
               e == Least(FreeFds(p) \ {d})
    <3>1. CASE Cardinality(FreeFds(p)) >= 2
      <4>1. d \in Fds /\ e \in Fds
        BY <3>1, TwoFree DEF FreeFds
      <4> HIDE DEF d, e
      <4>2. ofile' = [ofile EXCEPT ![p][d] = closing[p][1], ![p][e] = closing[p][2]]
        BY <1>3, <3>1 DEF PipeReady, d, e
      <4> QED BY <2>1, <4>1, <4>2
    <3> QED BY <1>3, <3>1 DEF PipeReady
  <2>7. /\ closing' \in [Procs -> Seq(Files)]
        /\ pc' \in [Procs -> {"unused", "embryo", "user", "fork", "exit", "pipealloc", "closing"}
                            \cup Readers \cup Writers]
    <3>1. closing' = closing \/ closing' = [closing EXCEPT ![p] = <<>>]
      BY <1>3 DEF PipeReady
    <3>2. <<>> \in Seq(Files)
      OBVIOUS
    <3>3. closing' \in [Procs -> Seq(Files)]
      BY <3>1, <3>2, ListPut
    <3> QED BY <1>3, <3>3 DEF PipeReady, Goto
  <2> QED BY <1>3, <2>4, <2>5, <2>6, <2>7 DEF PipeReady
<1>4. CASE PipeNoPage(p)
  BY <1>4 DEF PipeNoPage, Goto, calls
<1> QED BY <1>1, <1>2, <1>3, <1>4 DEF PipeStep

LEMMA TypeFd ==
    ASSUME PipeInv, NEW p \in Procs, FdStep(p)
    PROVE  TypeOK'
<1> USE DEF PipeInv, TypeOK
<1>1. CASE Dup(p)
  <2>1. PICK d \in Fds \ FreeFds(p) :
          /\ ofile' = [ofile EXCEPT ![p][Least(FreeFds(p))] = ofile[p][d]]
          /\ file' = Filedup(ofile[p][d])
    BY <1>1 DEF Dup
  <2>2. ofile[p][d] \in Files
    BY DEF FreeFds
  <2>3. Least(FreeFds(p)) \in Fds
    <3>1. FreeFds(p) \in SUBSET Fds /\ FreeFds(p) # {}
      BY <1>1 DEF Dup, FreeFds
    <3> QED BY <3>1, LeastFd
  <2>4. /\ file' \in [Files -> Entry]
        /\ ofile' \in [Procs -> [Fds -> Files \cup {None}]]
    BY <2>1, <2>2, <2>3, Counted, TablePut
  <2> QED BY <1>1, <2>4 DEF Dup, calls
<1>2. CASE Close(p)
  <2>1. PICK d \in Fds \ FreeFds(p) :
          /\ closing' = [closing EXCEPT ![p] = <<ofile[p][d]>>]
          /\ ofile' = [ofile EXCEPT ![p][d] = None]
    BY <1>2 DEF Close
  <2>2. ofile[p][d] \in Files
    BY DEF FreeFds
  <2>3. <<ofile[p][d]>> \in Seq(Files)
    BY <2>2
  <2>4. /\ closing' \in [Procs -> Seq(Files)]
        /\ ofile' \in [Procs -> [Fds -> Files \cup {None}]]
    BY <2>1, <2>3, ListPut, TablePut
  <2> QED BY <1>2, <2>4 DEF Close, Goto
<1>3. CASE Fileclose(p)
  <2> DEFINE f == Head(closing[p])
  <2>1. f \in Files /\ Tail(closing[p]) \in Seq(Files) /\ f = closing[p][1]
        /\ 1 \in 1 .. Len(closing[p])
    BY <1>3, HeadTailProperties, EmptySeq DEF Fileclose
  <2>2. closing' \in [Procs -> Seq(Files)]
    BY <1>3, <2>1 DEF Fileclose
  <2>3. file[f].ref \in Nat /\ file[f].ref >= 1
    <3>1. 1 \in 1 .. 2 /\ 1 <= Len(closing[p])
      BY <2>1
    <3> QED BY <2>1, <3>1, Referred DEF Entry
  <2> HIDE DEF f
  <2>4. CASE file[f].ref > 1
    <3>1. file' = [file EXCEPT ![f].ref = @ - 1]
      BY <1>3, <2>4 DEF Fileclose, f
    <3>2. file' \in [Files -> Entry]
      BY <2>1, <2>3, <3>1, Counted
    <3> QED BY <1>3, <2>2, <2>4, <3>2 DEF Fileclose, f
  <2>5. CASE ~(file[f].ref > 1)
    <3>1. file[f].type = "pipe" => file[f] \in OpenEnd
      BY <2>1 DEF FilesOK, OpenEnd, Entry
    <3>2. cur' \in [Procs -> {None} \cup OpenEnd]
      BY <1>3, <2>5, <3>1 DEF Fileclose, f
    <3>3. file' \in [Files -> Entry]
      <4>1. file' = [file EXCEPT ![f] = Closed]
        BY <1>3, <2>5 DEF Fileclose, f
      <4> QED BY <2>1, <4>1, Counted
    <3> QED BY <1>3, <2>2, <3>2, <3>3 DEF Fileclose
  <2> QED BY <2>4, <2>5
<1>4. CASE CloseDone(p)
  BY <1>4 DEF CloseDone, Goto, calls
<1>5. CASE Pipeclose(p)
  <2> DEFINE k == cur[p].pipe
  <2>1. k \in Pipes /\ pipe[k] \in Page
    BY <1>5, CloserEnd DEF Pipeclose, OpenEnd, Live
  <2>2. /\ AfterClose([pipe[k] EXCEPT !.writeopen = FALSE]) \in {None} \cup Page
        /\ AfterClose([pipe[k] EXCEPT !.readopen = FALSE]) \in {None} \cup Page
    BY <2>1 DEF AfterClose, Page
  <2>3. pipe' \in [Pipes -> {None} \cup Page]
    BY <1>5, <2>1, <2>2 DEF Pipeclose
  <2>4. pc' \in [Procs -> {"unused", "embryo", "user", "fork", "exit", "pipealloc", "closing"}
                            \cup Readers \cup Writers]
    BY <1>5 DEF Pipeclose, ReadersWoken, WritersWoken, Readers, Writers
  <2> QED BY <1>5, <2>3, <2>4 DEF Pipeclose
<1> QED BY <1>1, <1>2, <1>3, <1>4, <1>5 DEF FdStep

LEMMA TypeProc ==
    ASSUME PipeInv, NEW p \in Procs, ProcStep(p)
    PROVE  TypeOK'
<1> USE DEF PipeInv, TypeOK
<1>1. CASE Fork(p)
  BY <1>1 DEF Fork
<1>2. CASE ForkFile(p)
  <2> DEFINE d == Least(Uncopied(p))
  <2>1. d \in Uncopied(p)
    BY <1>2, LeastFd DEF ForkFile, Uncopied
  <2>2. ofile[p][d] \in Files /\ child[p] \in Procs
    BY <1>2, <2>1 DEF Uncopied, PhasesOK, ForkFile
  <2> HIDE DEF d
  <2>3. /\ ofile' = [ofile EXCEPT ![child[p]][d] = ofile[p][d]]
        /\ file' = Filedup(ofile[p][d])
    BY <1>2 DEF ForkFile, ForkDup, d
  <2>4. /\ file' \in [Files -> Entry]
        /\ ofile' \in [Procs -> [Fds -> Files \cup {None}]]
    BY <2>1, <2>2, <2>3, Counted, TablePut DEF Uncopied
  <2> QED BY <1>2, <2>4 DEF ForkFile, calls
<1>3. CASE ForkReady(p)
  BY <1>3 DEF ForkReady
<1>4. CASE Exit(p)
  BY <1>4 DEF Exit, Goto, calls
<1>5. CASE ExitFile(p)
  <2> DEFINE d == Least(Fds \ FreeFds(p))
  <2>1. d \in Fds \ FreeFds(p)
    <3>1. Fds \ FreeFds(p) # {}
      BY <1>5 DEF ExitFile, FreeFds
    <3> QED BY <3>1, LeastFd
  <2>2. <<ofile[p][d]>> \in Seq(Files)
    BY <2>1 DEF FreeFds
  <2> HIDE DEF d
  <2>3. /\ closing' = [closing EXCEPT ![p] = <<ofile[p][d]>>]
        /\ ofile' = [ofile EXCEPT ![p][d] = None]
    BY <1>5 DEF ExitFile, d
  <2>4. /\ closing' \in [Procs -> Seq(Files)]
        /\ ofile' \in [Procs -> [Fds -> Files \cup {None}]]
    BY <2>1, <2>2, <2>3, ListPut, TablePut
  <2> QED BY <1>5, <2>4 DEF ExitFile
<1>6. CASE Exited(p)
  BY <1>6 DEF Exited, Goto, calls
<1> QED BY <1>1, <1>2, <1>3, <1>4, <1>5, <1>6 DEF ProcStep

(* What a read or a write leaves in the pipe.                              *)
LEMMA PipereadIs ==
    ASSUME PipeInv, NEW p \in Procs, Piperead(p)
    PROVE  \E k \in Live, q \in Page, n \in Nat :
              /\ k = cur[p].pipe /\ q = pipe[k] /\ n <= Used(q)
              /\ pc[p] = "read" /\ cur[p] # None /\ ~Locked(k)
              /\ Used(q) # 0 \/ ~q.writeopen
              /\ pipe' = [pipe EXCEPT ![k] = [q EXCEPT !.nread = (@ + n) % Counts]]
              /\ pipe'[k] \in Page /\ Used(pipe'[k]) = Used(q) - n
              /\ n = Lesser(left[p], Used(q))
<1> DEFINE k == cur[p].pipe
           q == pipe[k]
           n == Lesser(left[p], Used(q))
<1>1. pc[p] = "read" /\ k \in Live /\ q \in Page /\ cur[p] # None /\ ~Locked(k)
  BY CallerEnd DEF Piperead, Readers
<1>2. n \in Nat /\ n <= Used(q)
  BY <1>1, UsedIs DEF Lesser, PipeInv, TypeOK
<1>3. Used(q) # 0 \/ ~q.writeopen
  BY <1>1, UsedIs DEF Piperead
<1>4. pipe' = [pipe EXCEPT ![k] = [q EXCEPT !.nread = (@ + n) % Counts]]
  BY DEF Piperead
<1>5. pipe'[k] = [q EXCEPT !.nread = (@ + n) % Counts]
  BY <1>1, <1>4 DEF PipeInv, TypeOK, Live
<1>6. pipe'[k] \in Page /\ Used(pipe'[k]) = Used(q) - n
  BY <1>1, <1>2, <1>5, UsedAfterRead
<1> HIDE DEF n, q, k
<1> QED BY <1>1, <1>2, <1>3, <1>4, <1>6 DEF k, q, n

(* What a pipewrite() of p does to its pipe k, whose page q gets n bytes.   *)
PageWritten(p, k, q, n, s) ==
    /\ k = cur[p].pipe /\ q = pipe[k] /\ Used(q) + n <= PIPESIZE
    /\ pc[p] = "write" /\ cur[p] # None /\ ~Locked(k)
    /\ n = Lesser(left[p], PIPESIZE - Used(q))
    /\ pipe' = [pipe EXCEPT ![k] = pipe'[k]]
    /\ pipe'[k] = [Filled(q, s) EXCEPT !.cut = pipe'[k].cut]
    /\ pipe'[k] \in Page /\ Used(pipe'[k]) = Used(q) + n
    /\ pipe'[k].readopen = q.readopen /\ pipe'[k].writeopen = q.writeopen
    /\ pipe'[k].cut = (n < left[p] /\ killed[p] /\ (q.cut \/ n > 0))

LEMMA PipewriteIs ==
    ASSUME PipeInv, NEW p \in Procs, Pipewrite(p)
    PROVE  \E k \in Live, q \in Page, n \in Nat : \E s \in [1 .. n -> Bytes] :
              PageWritten(p, k, q, n, s)
<1> DEFINE k == cur[p].pipe
           q == pipe[k]
           n == Lesser(left[p], PIPESIZE - Used(q))
           c == n < left[p] /\ killed[p] /\ (q.cut \/ n > 0)
<1>1. /\ pc[p] = "write" /\ k \in Live /\ q \in Page /\ cur[p] # None /\ ~Locked(k)
      /\ k \in Pipes
  BY CallerEnd DEF Pipewrite, Writers, Live
<1>2. Used(q) \in Nat /\ Used(q) <= PIPESIZE
  BY <1>1, UsedIs DEF PipeInv, AwaitOK
<1>3. n \in Nat /\ Used(q) + n <= PIPESIZE
  BY <1>2, RingAssumption DEF Lesser, PipeInv, TypeOK
<1>4. PICK s \in [1 .. n -> Bytes] :
         pipe' = [pipe EXCEPT ![k] = [Filled(q, s) EXCEPT
                     !.cut = n < left[p] /\ killed[p] /\ (@ \/ n > 0)]]
  BY DEF Pipewrite
<1> HIDE DEF n, q, k
<1>5. /\ Filled(q, s) \in Page /\ Used(Filled(q, s)) = Used(q) + n
      /\ Filled(q, s).readopen = q.readopen /\ Filled(q, s).writeopen = q.writeopen
      /\ Filled(q, s).cut = q.cut
  BY <1>1, <1>3, FilledIs
<1>6. c \in BOOLEAN
  OBVIOUS
<1>7. pipe' = [pipe EXCEPT ![k] = [Filled(q, s) EXCEPT !.cut = c]]
  BY <1>4, <1>5
<1> HIDE DEF c
<1>8. pipe'[k] = [Filled(q, s) EXCEPT !.cut = c]
  BY <1>1, <1>7 DEF PipeInv, TypeOK
<1>9. /\ pipe'[k] \in Page /\ pipe'[k].nread = Filled(q, s).nread
      /\ pipe'[k].nwrite = Filled(q, s).nwrite
      /\ pipe'[k].readopen = q.readopen /\ pipe'[k].writeopen = q.writeopen
      /\ pipe'[k].cut = c
  BY <1>5, <1>6, <1>8 DEF Page
<1>10. Used(pipe'[k]) = Used(q) + n
  BY <1>5, <1>9 DEF Used
<1>11. pipe' = [pipe EXCEPT ![k] = pipe'[k]]
  BY <1>7, <1>8
<1>12. pipe'[k].cut = (n < left[p] /\ killed[p] /\ (q.cut \/ n > 0))
  BY <1>9 DEF c
<1>13. pipe'[k] = [Filled(q, s) EXCEPT !.cut = pipe'[k].cut]
  BY <1>8, <1>9
<1>14. PageWritten(p, k, q, n, s)
  BY <1>1, <1>3, <1>9, <1>10, <1>11, <1>12, <1>13, Zenon DEF PageWritten, k, q, n
<1> QED BY <1>1, <1>3, <1>14, Zenon

LEMMA PipewriteType ==
    ASSUME PipeInv, NEW p \in Procs, Pipewrite(p)
    PROVE  /\ pipe' \in [Pipes -> {None} \cup Page]
           /\ Lesser(left[p], PIPESIZE - Used(pipe[cur[p].pipe])) \in Nat
           /\ Lesser(left[p], PIPESIZE - Used(pipe[cur[p].pipe])) <= left[p]
<1>0. PICK k \in Live, q \in Page, n \in Nat : \E s \in [1 .. n -> Bytes] :
         PageWritten(p, k, q, n, s)
  BY PipewriteIs, Zenon
<1>1. /\ k = cur[p].pipe /\ q = pipe[k]
      /\ n = Lesser(left[p], PIPESIZE - Used(q))
      /\ pipe' = [pipe EXCEPT ![k] = pipe'[k]]
      /\ pipe'[k] \in Page /\ Used(q) + n <= PIPESIZE
  BY <1>0, Zenon DEF PageWritten
<1>2. pipe' \in [Pipes -> {None} \cup Page]
  BY <1>1 DEF PipeInv, TypeOK, Live
<1>3. Used(pipe[cur[p].pipe]) \in Nat /\ left[p] \in Nat
  BY <1>1, UsedIs DEF PipeInv, TypeOK
<1> QED BY <1>1, <1>2, <1>3 DEF Lesser

LEMMA TypeIo ==
    ASSUME PipeInv, NEW p \in Procs, IoStep(p) \/ Kill(p)
    PROVE  TypeOK'
<1> USE DEF PipeInv, TypeOK
<1>1. ASSUME NEW w \in BOOLEAN, NEW l \in {"read", "write"}, Call(p, w, l)
      PROVE  TypeOK'
  <2>1. PICK d \in Fds \ FreeFds(p) :
          /\ file[ofile[p][d]].type = "pipe" /\ file[ofile[p][d]].writable = w
          /\ cur' = [cur EXCEPT ![p] = [file[ofile[p][d]] EXCEPT !.ref = 1]]
    BY <1>1 DEF Call
  <2>2. ofile[p][d] \in Files
    BY DEF FreeFds
  <2>3. [file[ofile[p][d]] EXCEPT !.ref = 1] \in OpenEnd
    <3>1. /\ file[ofile[p][d]] \in Entry /\ file[ofile[p][d]].type = "pipe"
          /\ file[ofile[p][d]].pipe \in Pipes
      BY <2>1, <2>2 DEF FilesOK
    <3> QED BY <3>1 DEF Entry, OpenEnd
  <2>4. cur' \in [Procs -> {None} \cup OpenEnd]
    BY <2>1, <2>3
  <2>5. left' \in [Procs -> Nat]
    BY <1>1 DEF Call
  <2> QED BY <1>1, <2>4, <2>5 DEF Call, Goto, Readers, Writers
<1>2. CASE ReadCall(p)
  BY <1>1, <1>2 DEF ReadCall
<1>3. CASE WriteCall(p)
  BY <1>1, <1>3 DEF WriteCall
<1>4. CASE PipereadEmpty(p)
  <2>1. cur' \in [Procs -> {None} \cup OpenEnd] /\ left' \in [Procs -> Nat]
    <3>1. CASE Return(p)
      BY <3>1 DEF Return
    <3>2. CASE UNCHANGED <<cur, left>>
      BY <3>2
    <3> QED BY <1>4, <3>1, <3>2 DEF PipereadEmpty
  <2>2. pc' \in [Procs -> {"unused", "embryo", "user", "fork", "exit", "pipealloc", "closing"}
                            \cup Readers \cup Writers]
    BY <1>4 DEF PipereadEmpty, Goto, Readers
  <2> QED BY <1>4, <2>1, <2>2 DEF PipereadEmpty
<1>5. CASE Piperead(p)
  <2>1. pipe' \in [Pipes -> {None} \cup Page]
    BY <1>5, PipereadIs DEF Live
  <2>2. pc' \in [Procs -> {"unused", "embryo", "user", "fork", "exit", "pipealloc", "closing"}
                            \cup Readers \cup Writers]
    BY <1>5 DEF Piperead, WritersWoken, Readers, Writers
  <2> QED BY <1>5, <2>1, <2>2 DEF Piperead, Return
<1>6. CASE Pipewrite(p)
  <2>1. pipe' \in [Pipes -> {None} \cup Page]
    BY <1>6, PipewriteType
  <2>2. pc' \in [Procs -> {"unused", "embryo", "user", "fork", "exit", "pipealloc", "closing"}
                            \cup Readers \cup Writers]
    <3> DEFINE k == cur[p].pipe
               P == {"unused", "embryo", "user", "fork", "exit", "pipealloc", "closing"}
                       \cup Readers \cup Writers
    <3>1. \E l \in {"user", "wsleeping"} :
             pc' = [ReadersWoken(k) EXCEPT ![p] = l] \/ pc' = [pc EXCEPT ![p] = l]
      BY <1>6 DEF Pipewrite, Goto
    <3>2. pc \in [Procs -> P] /\ ReadersWoken(k) \in [Procs -> P]
      BY DEF ReadersWoken, Readers
    <3>3. {"user", "wsleeping"} \subseteq P
      BY DEF Writers
    <3>4. pc' \in [Procs -> P]
      <4> HIDE DEF k, P, PipeInv, TypeOK
      <4> QED BY <3>1, <3>2, <3>3
    <3> QED BY <3>4
  <2>3. left' \in [Procs -> Nat] /\ cur' \in [Procs -> {None} \cup OpenEnd]
    <3> DEFINE n == Lesser(left[p], PIPESIZE - Used(pipe[cur[p].pipe]))
    <3>1. n \in Nat /\ n <= left[p]
      BY <1>6, PipewriteType
    <3> HIDE DEF n
    <3>2. CASE Return(p)
      BY <3>2 DEF Return
    <3>3. CASE left' = [left EXCEPT ![p] = @ - n] /\ n < left[p] /\ UNCHANGED cur
      BY <3>1, <3>3
    <3> QED BY <1>6, <3>2, <3>3 DEF Pipewrite, n
  <2> QED BY <1>6, <2>1, <2>2, <2>3 DEF Pipewrite
<1>7. CASE Sleep(p)
  BY <1>7 DEF Sleep, Goto, calls, Readers, Writers
<1>8. CASE Kill(p)
  BY <1>8 DEF Kill, calls, Readers, Writers
<1> QED BY <1>2, <1>3, <1>4, <1>5, <1>6, <1>7, <1>8 DEF IoStep

LEMMA TypeStep == PipeInv /\ [Next]_vars => TypeOK'
<1> SUFFICES ASSUME PipeInv, [Next]_vars PROVE TypeOK'
  OBVIOUS
<1>1. CASE UNCHANGED vars
  BY <1>1 DEF vars, calls, PipeInv, TypeOK
<1>2. CASE Next
  BY <1>2, TypePipe, TypeFd, TypeProc, TypeIo DEF Next
<1> QED BY <1>1, <1>2

-----------------------------------------------------------------------------
(* The counts of files.                                                    *)
LEMMA SameCounts ==
    ASSUME RefCounts, UNCHANGED <<ofile, closing>>,
           \A f \in Files : file'[f].ref = file[f].ref
    PROVE  RefCounts'
<1>1. \A f \in Files : file[f].ref = Refs(ofile, closing, f)
  BY CountsAre
<1>2. \A f \in Files : file'[f].ref = Refs(ofile', closing', f)
  BY <1>1
<1> QED BY <1>2 DEF RefCounts, Refs, Descs, Calls

LEMMA CountCall ==
    ASSUME TypeOK, TypeOK', RefCounts, NEW p \in Procs,
           ofile' = ofile, \A q \in Procs : q # p => closing'[q] = closing[q],
           \A f \in Files : file'[f].ref + Times(closing[p], f)
                              = file[f].ref + Times(closing'[p], f)
    PROVE  RefCounts'
<1>1. ASSUME NEW f \in Files PROVE file'[f].ref = Refs(ofile', closing', f)
  <2>1. closing \in Lists /\ closing' \in Lists /\ file'[f].ref \in Nat
    BY DEF TypeOK, Lists, Entry
  <2>2. Cardinality(Calls(closing', f)) + Times(closing[p], f)
          = Cardinality(Calls(closing, f)) + Times(closing'[p], f)
    BY <2>1, CallsPut
  <2>3. file[f].ref = Cardinality(Descs(ofile, f)) + Cardinality(Calls(closing, f))
    BY CountsAre DEF Refs
  <2>4. /\ Cardinality(Descs(ofile, f)) \in Nat /\ Cardinality(Calls(closing, f)) \in Nat
        /\ Cardinality(Calls(closing', f)) \in Nat
    BY FiniteRefs
  <2>5. Times(closing[p], f) \in Nat /\ Times(closing'[p], f) \in Nat
    BY DEF Times
  <2>6. file'[f].ref + Times(closing[p], f) = file[f].ref + Times(closing'[p], f)
    OBVIOUS
  <2>7. file'[f].ref = Cardinality(Descs(ofile, f)) + Cardinality(Calls(closing', f))
    BY <2>1, <2>2, <2>3, <2>4, <2>5, <2>6
  <2> QED BY <2>7 DEF Refs
<1> QED BY <1>1 DEF RefCounts, Refs, Descs, Calls

LEMMA CountDesc ==
    ASSUME TypeOK, TypeOK', RefCounts, NEW p \in Procs, NEW d \in Fds, ofile[p][d] = None,
           closing' = closing,
           \A q \in Procs, e \in Fds : q # p \/ e # d => ofile'[q][e] = ofile[q][e],
           \A f \in Files : file'[f].ref = file[f].ref + One(ofile'[p][d], f)
    PROVE  RefCounts'
<1>1. ASSUME NEW f \in Files PROVE file'[f].ref = Refs(ofile', closing', f)
  <2>1. ofile \in Tables /\ ofile' \in Tables
    BY DEF TypeOK, Tables
  <2>2. Cardinality(Descs(ofile', f)) + One(ofile[p][d], f)
          = Cardinality(Descs(ofile, f)) + One(ofile'[p][d], f)
    BY <2>1, DescPut
  <2>3. file[f].ref = Cardinality(Descs(ofile, f)) + Cardinality(Calls(closing, f))
    BY CountsAre DEF Refs
  <2>4. /\ Cardinality(Descs(ofile, f)) \in Nat /\ Cardinality(Calls(closing, f)) \in Nat
        /\ Cardinality(Descs(ofile', f)) \in Nat
    BY FiniteRefs
  <2>5. One(ofile[p][d], f) = 0 /\ One(ofile'[p][d], f) \in Nat
    BY DEF One, Files
  <2>6. file'[f].ref = file[f].ref + One(ofile'[p][d], f)
    OBVIOUS
  <2>7. file'[f].ref = Cardinality(Descs(ofile', f)) + Cardinality(Calls(closing, f))
    BY <2>2, <2>3, <2>4, <2>5, <2>6
  <2> QED BY <2>7 DEF Refs
<1> QED BY <1>1 DEF RefCounts, Refs, Descs, Calls

(* A descriptor gives way to a call that is going to close its file.       *)
LEMMA CountClose ==
    ASSUME TypeOK, TypeOK', RefCounts, NEW p \in Procs, NEW d \in Fds, ofile[p][d] # None,
           closing[p] = <<>>, closing'[p] = <<ofile[p][d]>>, ofile'[p][d] = None,
           \A q \in Procs : q # p => closing'[q] = closing[q],
           \A q \in Procs, e \in Fds : q # p \/ e # d => ofile'[q][e] = ofile[q][e],
           file' = file
    PROVE  RefCounts'
<1>1. ASSUME NEW f \in Files PROVE file'[f].ref = Refs(ofile', closing', f)
  <2>1. ofile \in Tables /\ closing \in Lists /\ ofile' \in Tables /\ closing' \in Lists
    BY DEF TypeOK, Tables, Lists
  <2>2. Cardinality(Descs(ofile', f)) + One(ofile[p][d], f)
          = Cardinality(Descs(ofile, f)) + One(ofile'[p][d], f)
    BY <2>1, DescPut
  <2>3. Cardinality(Calls(closing', f)) + Times(closing[p], f)
          = Cardinality(Calls(closing, f)) + Times(closing'[p], f)
    BY <2>1, CallsPut
  <2>4. /\ Times(closing[p], f) = 0 /\ Times(closing'[p], f) = One(ofile[p][d], f)
        /\ One(ofile'[p][d], f) = 0 /\ One(ofile[p][d], f) \in Nat
    BY DEF Times, One, Files
  <2>5. file[f].ref = Cardinality(Descs(ofile, f)) + Cardinality(Calls(closing, f))
    BY CountsAre DEF Refs
  <2>6. /\ Cardinality(Descs(ofile, f)) \in Nat /\ Cardinality(Calls(closing, f)) \in Nat
        /\ Cardinality(Descs(ofile', f)) \in Nat /\ Cardinality(Calls(closing', f)) \in Nat
    BY FiniteRefs
  <2>7. file'[f].ref = Cardinality(Descs(ofile', f)) + Cardinality(Calls(closing', f))
    BY <2>2, <2>3, <2>4, <2>5, <2>6
  <2> QED BY <2>7 DEF Refs
<1> QED BY <1>1 DEF RefCounts, Refs, Descs, Calls

(* Two files go from a call to two descriptors.                            *)
LEMMA CountOpen ==
    ASSUME TypeOK, TypeOK', RefCounts, NEW p \in Procs, NEW d \in Fds, NEW e \in Fds, d # e,
           ofile[p][d] = None, ofile[p][e] = None, Len(closing[p]) = 2, closing'[p] = <<>>,
           ofile'[p][d] = closing[p][1], ofile'[p][e] = closing[p][2],
           \A q \in Procs : q # p => closing'[q] = closing[q],
           \A q \in Procs, x \in Fds : q # p \/ (x # d /\ x # e) => ofile'[q][x] = ofile[q][x],
           \A f \in Files : file'[f].ref = file[f].ref
    PROVE  RefCounts'
<1> DEFINE o == [ofile EXCEPT ![p][d] = ofile'[p][d]]
<1>1. ofile \in Tables /\ closing \in Lists /\ ofile' \in Tables /\ closing' \in Lists
  BY DEF TypeOK, Tables, Lists
<1>2. /\ o \in Tables /\ o[p][e] = None /\ o[p][d] = closing[p][1]
      /\ \A q \in Procs, x \in Fds : q # p \/ x # d => o[q][x] = ofile[q][x]
      /\ \A q \in Procs, x \in Fds : q # p \/ x # e => ofile'[q][x] = o[q][x]
  BY <1>1 DEF Tables
<1> HIDE DEF o
<1>3. ASSUME NEW f \in Files PROVE file'[f].ref = Refs(ofile', closing', f)
  <2>1. Cardinality(Descs(o, f)) + One(ofile[p][d], f)
          = Cardinality(Descs(ofile, f)) + One(o[p][d], f)
    BY <1>1, <1>2, DescPut
  <2>2. Cardinality(Descs(ofile', f)) + One(o[p][e], f)
          = Cardinality(Descs(o, f)) + One(ofile'[p][e], f)
    BY <1>1, <1>2, DescPut
  <2>3. Cardinality(Calls(closing', f)) + Times(closing[p], f)
          = Cardinality(Calls(closing, f)) + Times(closing'[p], f)
    BY <1>1, CallsPut
  <2>4. /\ Times(closing'[p], f) = 0
        /\ Times(closing[p], f) = One(o[p][d], f) + One(ofile'[p][e], f)
        /\ One(ofile[p][d], f) = 0 /\ One(o[p][e], f) = 0
        /\ One(o[p][d], f) \in Nat /\ One(ofile'[p][e], f) \in Nat
    BY <1>2 DEF Times, One, Files
  <2>5. file[f].ref = Cardinality(Descs(ofile, f)) + Cardinality(Calls(closing, f))
    BY CountsAre DEF Refs
  <2>6. /\ Cardinality(Descs(ofile, f)) \in Nat /\ Cardinality(Calls(closing, f)) \in Nat
        /\ Cardinality(Descs(ofile', f)) \in Nat /\ Cardinality(Calls(closing', f)) \in Nat
        /\ Cardinality(Descs(o, f)) \in Nat
    BY FiniteRefs
  <2>7. file'[f].ref = file[f].ref
    OBVIOUS
  <2>8. file'[f].ref = Cardinality(Descs(ofile', f)) + Cardinality(Calls(closing', f))
    BY <2>1, <2>2, <2>3, <2>4, <2>5, <2>6, <2>7
  <2> QED BY <2>8 DEF Refs
<1> QED BY <1>3 DEF RefCounts, Refs, Descs, Calls

(* A file that pipealloc() holds is in nobody else's hands.                *)
LEMMA FreshFile ==
    ASSUME PipeInv, NEW q \in Procs, pc[q] = "pipealloc", NEW i \in 1 .. Len(closing[q])
    PROVE  /\ i \in 1 .. 2 /\ closing[q][i] \in Files
           /\ file[closing[q][i]].ref = 1 /\ file[closing[q][i]].type = "none"
           /\ \A p \in Procs, d \in Fds : ofile[p][d] # closing[q][i]
           /\ \A p \in Procs : \A j \in 1 .. Len(closing[p]) :
                closing[p][j] = closing[q][i] => p = q /\ j = i
<1>1. closing[q] \in Seq(Files) /\ Len(closing[q]) <= 2
  BY DEF PipeInv, TypeOK, PhasesOK
<1>2. i \in 1 .. 2 /\ i <= Len(closing[q])
  BY <1>1
<1>3. file[closing[q][i]].ref = 1 /\ file[closing[q][i]].type = "none"
  BY DEF PipeInv, FilesOK
<1>4. ASSUME NEW p \in Procs, NEW j \in 1 .. Len(closing[p])
      PROVE  j \in 1 .. 2 /\ j <= Len(closing[p])
  <2>1. closing[p] \in Seq(Files) /\ Len(closing[p]) <= 2
    BY DEF PipeInv, TypeOK, PhasesOK
  <2> QED BY <2>1
<1>5. TypeOK /\ RefCounts
  BY DEF PipeInv
<1> QED BY <1>2, <1>3, <1>4, <1>5, Referred

LEMMA CountsPipe ==
    ASSUME PipeInv, TypeOK', NEW p \in Procs, PipeStep(p)
    PROVE  RefCounts'
<1>0. TypeOK /\ RefCounts
  BY DEF PipeInv
<1>1. CASE PipeStart(p)
  <2> DEFINE n == Least(FreeFiles)
  <2>1. n \in Files /\ file[n].ref = 0
    BY <1>0, <1>1, FreeFile DEF PipeStart
  <2>2. /\ closing[p] = <<>> /\ closing'[p] = <<n>> /\ ofile' = ofile
        /\ \A q \in Procs : q # p => closing'[q] = closing[q]
    BY <1>0, <1>1 DEF PipeStart, Running, PipeInv, PhasesOK, TypeOK
  <2>3. \A f \in Files : file'[f].ref = IF f = n THEN 1 ELSE file[f].ref
    BY <1>0, <1>1, <2>1 DEF PipeStart, Filealloc, TypeOK, Entry
  <2> HIDE DEF n
  <2>4. ASSUME NEW f \in Files
        PROVE  file'[f].ref + Times(closing[p], f) = file[f].ref + Times(closing'[p], f)
    <3>1. Times(closing[p], f) = 0 /\ Times(closing'[p], f) = IF f = n THEN 1 ELSE 0
      BY <2>2 DEF Times
    <3>2. file[f].ref \in Nat
      BY <1>0 DEF TypeOK, Entry
    <3> QED BY <2>1, <2>3, <3>1, <3>2
  <2> QED BY <1>0, <2>2, <2>4, CountCall
<1>2. CASE PipeSecond(p)
  <2>1. CASE FreeFiles # {} /\ file' = Filealloc
                /\ closing' = [closing EXCEPT ![p] = Append(@, Least(FreeFiles))]
    <3> DEFINE n == Least(FreeFiles)
    <3>1. n \in Files /\ file[n].ref = 0
      BY <1>0, <2>1, FreeFile
    <3>2. \A f \in Files : file'[f].ref = IF f = n THEN 1 ELSE file[f].ref
      BY <1>0, <2>1, <3>1 DEF Filealloc, TypeOK, Entry
    <3> HIDE DEF n
    <3>3. /\ ofile' = ofile /\ Len(closing[p]) = 1 /\ closing[p] \in Seq(Files)
          /\ closing'[p] = Append(closing[p], n)
          /\ \A q \in Procs : q # p => closing'[q] = closing[q]
      BY <1>0, <1>2, <2>1 DEF PipeSecond, TypeOK, n
    <3>4. Len(closing'[p]) = 2 /\ closing'[p][1] = closing[p][1] /\ closing'[p][2] = n
      BY <3>1, <3>3
    <3>5. ASSUME NEW f \in Files
          PROVE  file'[f].ref + Times(closing[p], f) = file[f].ref + Times(closing'[p], f)
      <4>1. file[f].ref \in Nat
        BY <1>0 DEF TypeOK, Entry
      <4>2. Times(closing'[p], f) = Times(closing[p], f) + (IF f = n THEN 1 ELSE 0)
        BY <3>3, <3>4 DEF Times
      <4>3. Times(closing[p], f) \in Nat
        BY DEF Times
      <4> QED BY <3>1, <3>2, <4>1, <4>2, <4>3
    <3> QED BY <1>0, <3>3, <3>5, CountCall
  <2>2. CASE UNCHANGED <<file, closing>>
    BY <1>0, <1>2, <2>2, SameCounts DEF PipeSecond
  <2> QED BY <1>2, <2>1, <2>2 DEF PipeSecond
<1>3. CASE PipeReady(p)
  <2>1. ASSUME NEW f \in Files PROVE file'[f].ref = file[f].ref
    <3>1. PICK k \in Pipes : file' = [file EXCEPT ![closing[p][1]] = End(FALSE, k),
                                               ![closing[p][2]] = End(TRUE, k)]
      BY <1>3 DEF PipeReady
    <3>2. pc[p] = "pipealloc" /\ 1 \in 1 .. Len(closing[p]) /\ 2 \in 1 .. Len(closing[p])
      BY <1>3 DEF PipeReady
    <3>3. file[closing[p][1]].ref = 1 /\ file[closing[p][2]].ref = 1
      BY <3>2, FreshFile
    <3> QED BY <1>0, <3>1, <3>3 DEF TypeOK, End
  <2>2. CASE Cardinality(FreeFds(p)) >= 2
    <3> DEFINE d == Least(FreeFds(p))
               e == Least(FreeFds(p) \ {d})
    <3>1. d \in Fds /\ e \in Fds /\ d # e /\ ofile[p][d] = None /\ ofile[p][e] = None
      BY <2>2, TwoFree DEF FreeFds
    <3> HIDE DEF d, e
    <3>2. /\ ofile' = [ofile EXCEPT ![p][d] = closing[p][1], ![p][e] = closing[p][2]]
          /\ closing' = [closing EXCEPT ![p] = <<>>] /\ Len(closing[p]) = 2
      BY <1>3, <2>2 DEF PipeReady, d, e
    <3>3. /\ ofile'[p][d] = closing[p][1] /\ ofile'[p][e] = closing[p][2]
          /\ closing'[p] = <<>>
          /\ \A q \in Procs : q # p => closing'[q] = closing[q]
          /\ \A q \in Procs, x \in Fds :
                q # p \/ (x # d /\ x # e) => ofile'[q][x] = ofile[q][x]
      BY <1>0, <3>1, <3>2 DEF TypeOK
    <3>4. TypeOK /\ TypeOK' /\ RefCounts /\ p \in Procs /\ Len(closing[p]) = 2
      BY <1>0, <3>2
    <3>5. \A f \in Files : file'[f].ref = file[f].ref
      BY <2>1
    <3> QED BY <3>1, <3>3, <3>4, <3>5, CountOpen
  <2>3. CASE ~(Cardinality(FreeFds(p)) >= 2)
    BY <1>0, <1>3, <2>1, <2>3, SameCounts DEF PipeReady
  <2> QED BY <2>2, <2>3
<1>4. CASE PipeNoPage(p)
  BY <1>0, <1>4, SameCounts DEF PipeNoPage, calls
<1> QED BY <1>1, <1>2, <1>3, <1>4 DEF PipeStep

LEMMA CountsFd ==
    ASSUME PipeInv, TypeOK', NEW p \in Procs, FdStep(p)
    PROVE  RefCounts'
<1>0. TypeOK /\ RefCounts
  BY DEF PipeInv
<1>1. CASE Dup(p)
  <2> DEFINE e == Least(FreeFds(p))
  <2>1. PICK d \in Fds \ FreeFds(p) :
          /\ ofile' = [ofile EXCEPT ![p][e] = ofile[p][d]]
          /\ file' = Filedup(ofile[p][d])
    BY <1>1 DEF Dup
  <2>2. ofile[p][d] \in Files
    BY <1>0 DEF FreeFds, TypeOK
  <2>3. e \in Fds /\ ofile[p][e] = None
    <3>1. FreeFds(p) \in SUBSET Fds /\ FreeFds(p) # {}
      BY <1>1 DEF Dup, FreeFds
    <3>2. e \in FreeFds(p)
      BY <3>1, LeastFd
    <3> QED BY <3>2 DEF FreeFds
  <2> HIDE DEF e
  <2>4. /\ closing' = closing /\ ofile'[p][e] = ofile[p][d]
        /\ \A q \in Procs, x \in Fds : q # p \/ x # e => ofile'[q][x] = ofile[q][x]
    BY <1>0, <1>1, <2>1, <2>3 DEF Dup, calls, TypeOK
  <2>5. \A f \in Files : file'[f].ref = file[f].ref + One(ofile'[p][e], f)
    BY <1>0, <2>1, <2>2, <2>4 DEF Filedup, One, TypeOK, Entry
  <2> QED BY <1>0, <2>3, <2>4, <2>5, CountDesc
<1>2. CASE Close(p)
  <2>1. PICK d \in Fds \ FreeFds(p) :
          /\ closing' = [closing EXCEPT ![p] = <<ofile[p][d]>>]
          /\ ofile' = [ofile EXCEPT ![p][d] = None]
    BY <1>2 DEF Close
  <2>2. d \in Fds /\ ofile[p][d] # None /\ closing[p] = <<>> /\ file' = file
    BY <1>2 DEF Close, FreeFds, Running, PipeInv, PhasesOK
  <2>3. /\ closing'[p] = <<ofile[p][d]>> /\ ofile'[p][d] = None
        /\ \A q \in Procs : q # p => closing'[q] = closing[q]
        /\ \A q \in Procs, x \in Fds : q # p \/ x # d => ofile'[q][x] = ofile[q][x]
    BY <1>0, <2>1, <2>2 DEF TypeOK
  <2> QED BY <1>0, <2>2, <2>3, CountClose
<1>3. CASE Fileclose(p)
  <2> DEFINE g == Head(closing[p])
  <2>1. /\ closing[p] \in Seq(Files) /\ Len(closing[p]) \in 1 .. 2 /\ g = closing[p][1]
        /\ Len(closing'[p]) = Len(closing[p]) - 1
        /\ Len(closing[p]) = 2 => closing'[p][1] = closing[p][2]
        /\ g \in Files
    <3>1. closing[p] \in Seq(Files) /\ closing[p] # <<>> /\ Len(closing[p]) <= 2
      BY <1>0, <1>3 DEF Fileclose, TypeOK, PipeInv, PhasesOK
    <3>2. closing'[p] = Tail(closing[p])
      BY <1>0, <1>3 DEF Fileclose, TypeOK
    <3>3. Len(closing[p]) \in 1 .. 2
      <4>1. Len(closing[p]) \in Nat \ {0}
        BY <3>1, EmptySeq
      <4>2. Len(closing[p]) <= 2
        BY <3>1
      <4>3. ASSUME NEW m \in Nat \ {0}, m <= 2 PROVE m \in 1 .. 2
        BY <4>3
      <4> QED BY <4>1, <4>2, <4>3
    <3>4. /\ Head(closing[p]) \in Files /\ Len(Tail(closing[p])) = Len(closing[p]) - 1
          /\ \A i \in 1 .. Len(Tail(closing[p])) : Tail(closing[p])[i] = closing[p][i + 1]
      BY <3>1, HeadTailProperties
    <3>5. Len(closing[p]) = 2 => Tail(closing[p])[1] = closing[p][2]
      BY <3>3, <3>4
    <3> QED BY <3>1, <3>2, <3>3, <3>4, <3>5
  <2>2. ofile' = ofile /\ \A q \in Procs : q # p => closing'[q] = closing[q]
    BY <1>0, <1>3 DEF Fileclose, TypeOK
  <2>3. file[g].ref \in Nat /\ file[g].ref >= 1
    <3>1. 1 \in 1 .. 2 /\ 1 <= Len(closing[p])
      BY <2>1
    <3>2. file[g].ref >= 1
      BY <1>0, <2>1, <3>1, Referred
    <3> QED BY <1>0, <2>1, <3>2 DEF TypeOK, Entry
  <2>4. \A f \in Files : file'[f].ref = IF f = g THEN file[f].ref - 1 ELSE file[f].ref
    <3>1. CASE file[g].ref > 1
      <4>1. file' = [file EXCEPT ![g].ref = @ - 1]
        BY <1>3, <3>1 DEF Fileclose
      <4>2. \A f \in Files : file[f] \in Entry
        BY <1>0 DEF TypeOK
      <4>3. \A e \in Entry : [e EXCEPT !.ref = @ - 1].ref = e.ref - 1
        BY DEF Entry
      <4>4. \A f \in Files : f # g => file'[f] = file[f]
        BY <1>0, <4>1 DEF TypeOK
      <4>5. file'[g] = [file[g] EXCEPT !.ref = @ - 1]
        BY <1>0, <2>1, <4>1 DEF TypeOK
      <4> QED BY <2>1, <4>2, <4>3, <4>4, <4>5
    <3>2. CASE file[g].ref = 1
      BY <1>0, <1>3, <2>1, <3>2 DEF Fileclose, TypeOK, Closed
    <3> QED BY <2>3, <3>1, <3>2
  <2> HIDE DEF g
  <2>5. ASSUME NEW f \in Files
        PROVE  file'[f].ref + Times(closing[p], f) = file[f].ref + Times(closing'[p], f)
    <3>1. file[f].ref \in Nat
      BY <1>0 DEF TypeOK, Entry
    <3>2. Times(closing[p], f) = Times(closing'[p], f) + (IF f = g THEN 1 ELSE 0)
      BY <2>1 DEF Times
    <3>3. Times(closing'[p], f) \in Nat
      BY DEF Times
    <3> QED BY <2>3, <2>4, <3>1, <3>2, <3>3
  <2> QED BY <1>0, <2>2, <2>5, CountCall
<1>4. CASE CloseDone(p)
  BY <1>0, <1>4, SameCounts DEF CloseDone, calls
<1>5. CASE Pipeclose(p)
  BY <1>0, <1>5, SameCounts DEF Pipeclose
<1> QED BY <1>1, <1>2, <1>3, <1>4, <1>5 DEF FdStep

LEMMA CountsProc ==
    ASSUME PipeInv, TypeOK', NEW p \in Procs, ProcStep(p)
    PROVE  RefCounts'
<1>0. TypeOK /\ RefCounts
  BY DEF PipeInv
<1>1. CASE ForkFile(p)
  <2> DEFINE d == Least(Uncopied(p))
             c == child[p]
  <2>1. d \in Fds /\ ofile[p][d] # None /\ ofile[c][d] = None /\ c \in Procs
    <3>1. Uncopied(p) \in SUBSET Fds /\ Uncopied(p) # {}
      BY <1>1 DEF ForkFile, Uncopied
    <3>2. d \in Uncopied(p)
      BY <3>1, LeastFd
    <3> QED BY <1>1, <3>2 DEF Uncopied, ForkFile, PipeInv, PhasesOK
  <2>2. /\ ofile' = [ofile EXCEPT ![c][d] = ofile[p][d]] /\ file' = Filedup(ofile[p][d])
        /\ closing' = closing
    BY <1>1 DEF ForkFile, ForkDup, calls
  <2> HIDE DEF d, c
  <2>3. ofile[p][d] \in Files
    BY <1>0, <2>1 DEF TypeOK
  <2>4. /\ ofile'[c][d] = ofile[p][d]
        /\ \A q \in Procs, x \in Fds : q # c \/ x # d => ofile'[q][x] = ofile[q][x]
    BY <1>0, <2>1, <2>2 DEF TypeOK
  <2>5. \A f \in Files : file'[f].ref = file[f].ref + One(ofile'[c][d], f)
    BY <1>0, <2>2, <2>3, <2>4 DEF Filedup, One, TypeOK, Entry
  <2> QED BY <1>0, <2>1, <2>2, <2>4, <2>5, CountDesc
<1>2. CASE ExitFile(p)
  <2> DEFINE d == Least(Fds \ FreeFds(p))
  <2>1. d \in Fds /\ ofile[p][d] # None /\ closing[p] = <<>>
    <3>1. Fds \ FreeFds(p) # {}
      BY <1>2 DEF ExitFile, FreeFds
    <3>2. d \in Fds \ FreeFds(p)
      BY <3>1, LeastFd
    <3> QED BY <1>2, <3>2 DEF ExitFile, FreeFds
  <2>2. /\ closing' = [closing EXCEPT ![p] = <<ofile[p][d]>>]
        /\ ofile' = [ofile EXCEPT ![p][d] = None] /\ file' = file
    BY <1>2 DEF ExitFile
  <2> HIDE DEF d
  <2>3. /\ closing'[p] = <<ofile[p][d]>> /\ ofile'[p][d] = None
        /\ \A q \in Procs : q # p => closing'[q] = closing[q]
        /\ \A q \in Procs, x \in Fds : q # p \/ x # d => ofile'[q][x] = ofile[q][x]
    BY <1>0, <2>1, <2>2 DEF TypeOK
  <2> QED BY <1>0, <2>1, <2>2, <2>3, CountClose
<1>3. CASE Fork(p) \/ ForkReady(p) \/ Exit(p) \/ Exited(p)
  <2>1. UNCHANGED <<ofile, closing, file>>
    BY <1>3 DEF Fork, ForkReady, Exit, Exited, calls
  <2> QED BY <1>0, <2>1, SameCounts
<1> QED BY <1>1, <1>2, <1>3 DEF ProcStep

LEMMA CountsStep == PipeInv /\ [Next]_vars => RefCounts'
<1> SUFFICES ASSUME PipeInv, [Next]_vars PROVE RefCounts'
  OBVIOUS
<1>1. TypeOK' /\ RefCounts
  BY TypeStep DEF PipeInv
<1>2. ASSUME NEW p \in Procs, IoStep(p) \/ Kill(p) PROVE RefCounts'
  <2>1. UNCHANGED <<ofile, closing, file>>
    BY <1>2 DEF IoStep, ReadCall, WriteCall, Call, PipereadEmpty, Piperead, Pipewrite,
                Sleep, Kill, calls
  <2> QED BY <1>1, <2>1, SameCounts
<1>3. CASE UNCHANGED vars
  BY <1>1, <1>3, SameCounts DEF vars, calls
<1>4. CASE Next
  BY <1>1, <1>2, <1>4, CountsPipe, CountsFd, CountsProc DEF Next
<1> QED BY <1>3, <1>4

-----------------------------------------------------------------------------
(* Who is where with what.                                                 *)
LEMMA PhasesPipe ==
    ASSUME PipeInv, NEW p \in Procs, PipeStep(p)
    PROVE  PhasesOK' /\ ForksOK'
<1> USE DEF PipeInv, TypeOK, PhasesOK, ForksOK, Readers, Writers
<1>1. CASE PipeStart(p)
  <2>1. Least(FreeFiles) \in Files
    BY <1>1, FreeFile DEF PipeStart
  <2>2. /\ pc' = [pc EXCEPT ![p] = "pipealloc"] /\ closing' = [closing EXCEPT ![p] = <<Least(FreeFiles)>>]
        /\ cur' = cur /\ child' = child /\ pc[p] = "user"
    BY <1>1 DEF PipeStart, Goto, Running
  <2>3. Len(closing'[p]) = 1
    BY <2>2
  <2> QED BY <2>2, <2>3
<1>2. CASE PipeSecond(p)
  <2>1. CASE closing' = [closing EXCEPT ![p] = Append(@, Least(FreeFiles))] /\ pc' = pc
               /\ FreeFiles # {}
    <3>1. Least(FreeFiles) \in Files
      BY <2>1, FreeFile
    <3>2. Len(closing'[p]) = 2
      <4>1. closing[p] \in Seq(Files) /\ Len(closing[p]) = 1
        BY <1>2 DEF PipeSecond
      <4>2. Len(Append(closing[p], Least(FreeFiles))) = 2
        <5>1. \A t \in Seq(Files), f \in Files : Len(Append(t, f)) = Len(t) + 1
          BY AppendProperties
        <5>2. Len(Append(closing[p], Least(FreeFiles))) = Len(closing[p]) + 1
          BY <3>1, <4>1, <5>1
        <5> QED BY <4>1, <5>2
      <4> QED BY <2>1, <4>2
    <3> QED BY <1>2, <2>1, <3>2 DEF PipeSecond
  <2>2. CASE closing' = closing /\ pc' = [pc EXCEPT ![p] = "closing"]
    BY <1>2, <2>2 DEF PipeSecond
  <2> QED BY <1>2, <2>1, <2>2 DEF PipeSecond, Goto
<1>3. CASE PipeReady(p)
  <2>1. CASE closing' = [closing EXCEPT ![p] = <<>>] /\ pc' = [pc EXCEPT ![p] = "user"]
    BY <1>3, <2>1 DEF PipeReady
  <2>2. CASE closing' = closing /\ pc' = [pc EXCEPT ![p] = "closing"]
    BY <1>3, <2>2 DEF PipeReady
  <2> QED BY <1>3, <2>1, <2>2 DEF PipeReady, Goto
<1>4. CASE PipeNoPage(p)
  BY <1>4 DEF PipeNoPage, Goto, calls
<1> QED BY <1>1, <1>2, <1>3, <1>4 DEF PipeStep

LEMMA PhasesFd ==
    ASSUME PipeInv, NEW p \in Procs, FdStep(p)
    PROVE  PhasesOK' /\ ForksOK'
<1> USE DEF PipeInv, TypeOK, PhasesOK, ForksOK, Readers, Writers
<1>1. CASE Dup(p)
  BY <1>1 DEF Dup, calls
<1>2. CASE Close(p)
  <2>1. PICK d \in Fds : closing' = [closing EXCEPT ![p] = <<ofile[p][d]>>]
    BY <1>2 DEF Close
  <2>2. Len(closing'[p]) = 1
    BY <2>1
  <2>3. pc' = [pc EXCEPT ![p] = "closing"] /\ cur' = cur /\ child' = child /\ pc[p] = "user"
    BY <1>2 DEF Close, Goto, Running
  <2> QED BY <2>1, <2>2, <2>3
<1>3. CASE Fileclose(p)
  <2>1. /\ closing[p] \in Seq(Files) /\ closing[p] # <<>>
        /\ closing' = [closing EXCEPT ![p] = Tail(closing[p])]
    BY <1>3 DEF Fileclose
  <2>2. Len(Tail(closing[p])) <= 2
    BY <2>1, HeadTailProperties
  <2>3. cur' = [cur EXCEPT ![p] = cur'[p]]
    BY <1>3 DEF Fileclose
  <2> QED BY <1>3, <2>1, <2>2, <2>3 DEF Fileclose
<1>4. CASE CloseDone(p)
  BY <1>4 DEF CloseDone, Goto, calls
<1>5. CASE Pipeclose(p)
  BY <1>5 DEF Pipeclose, ReadersWoken, WritersWoken
<1> QED BY <1>1, <1>2, <1>3, <1>4, <1>5 DEF FdStep

LEMMA PhasesProc ==
    ASSUME PipeInv, NEW p \in Procs, ProcStep(p)
    PROVE  PhasesOK' /\ ForksOK'
<1> USE DEF PipeInv, TypeOK, PhasesOK, ForksOK, Readers, Writers
<1>1. CASE Fork(p)
  BY <1>1 DEF Fork, Running
<1>2. CASE ForkFile(p)
  BY <1>2 DEF ForkFile, calls
<1>3. CASE ForkReady(p)
  BY <1>3 DEF ForkReady
<1>4. CASE Exit(p)
  BY <1>4 DEF Exit, Goto, calls
<1>5. CASE ExitFile(p)
  <2>1. PICK d \in Fds : closing' = [closing EXCEPT ![p] = <<ofile[p][d]>>]
    <3>1. Fds \ FreeFds(p) # {}
      BY <1>5 DEF ExitFile, FreeFds
    <3>2. Least(Fds \ FreeFds(p)) \in Fds \ FreeFds(p)
      BY <3>1, LeastFd
    <3> QED BY <1>5, <3>2 DEF ExitFile
  <2>2. Len(closing'[p]) = 1
    BY <2>1
  <2> QED BY <1>5, <2>1, <2>2 DEF ExitFile
<1>6. CASE Exited(p)
  BY <1>6 DEF Exited, Goto, calls
<1> QED BY <1>1, <1>2, <1>3, <1>4, <1>5, <1>6 DEF ProcStep

(* A step of read(), write() or kill() moves p, and wakes others at most.  *)
Woken(q) == /\ cur'[q] = cur[q]
               /\ \/ pc'[q] = pc[q]
                  \/ pc[q] = "rsleep" /\ pc'[q] = "read"
                  \/ pc[q] = "wsleep" /\ pc'[q] = "write"

LEMMA IoMoves ==
    ASSUME PipeInv, NEW p \in Procs, IoStep(p) \/ Kill(p), NEW q \in Procs
    PROVE  /\ q # p => Woken(q)
           /\ q = p => /\ pc[q] \in {"user"} \cup Readers \cup Writers
                       /\ pc'[q] \in {"user"} \cup Readers \cup Writers
<1>0. TypeOK
  BY DEF PipeInv
<1> USE <1>0 DEF TypeOK, Readers, Writers, Woken
<1>1. CASE ReadCall(p) \/ WriteCall(p)
  <2>1. /\ pc[p] = "user" /\ \E l \in {"read", "write"} : pc' = [pc EXCEPT ![p] = l]
        /\ \E e : cur' = [cur EXCEPT ![p] = e]
    BY <1>1 DEF ReadCall, WriteCall, Call, Running, Goto
  <2> QED BY <2>1
<1>2. CASE PipereadEmpty(p)
  <2>1. /\ pc[p] = "read" /\ \E l \in {"user", "rsleeping"} : pc' = [pc EXCEPT ![p] = l]
        /\ cur' = cur \/ \E e : cur' = [cur EXCEPT ![p] = e]
    BY <1>2 DEF PipereadEmpty, Return, Goto
  <2> QED BY <2>1
<1>3. CASE Piperead(p)
  <2>1. /\ pc[p] = "read" /\ pc' = [WritersWoken(cur[p].pipe) EXCEPT ![p] = "user"]
        /\ cur' = [cur EXCEPT ![p] = None]
    BY <1>3 DEF Piperead, Return
  <2> QED BY <2>1 DEF WritersWoken
<1>4. CASE Pipewrite(p)
  <2>1. /\ pc[p] = "write"
        /\ cur' = cur \/ cur' = [cur EXCEPT ![p] = None]
    BY <1>4 DEF Pipewrite, Return
  <2>2. \E l \in {"user", "wsleeping"} : \/ pc' = [ReadersWoken(cur[p].pipe) EXCEPT ![p] = l]
                                        \/ pc' = [pc EXCEPT ![p] = l]
    BY <1>4 DEF Pipewrite, Goto
  <2>3. q # p => cur'[q] = cur[q]
    BY <2>1
  <2> QED BY <2>1, <2>2, <2>3 DEF ReadersWoken
<1>5. CASE Sleep(p)
  <2>1. /\ \/ pc[p] = "rsleeping" /\ pc' = [pc EXCEPT ![p] = "rsleep"]
           \/ pc[p] = "wsleeping" /\ pc' = [pc EXCEPT ![p] = "wsleep"]
        /\ cur' = cur
    BY <1>5 DEF Sleep, Goto, calls
  <2> QED BY <2>1
<1>6. CASE Kill(p)
  <2>1. /\ pc[p] \in Readers \cup Writers
        /\ \E l \in {"read", "write", pc[p]} : pc' = [pc EXCEPT ![p] = l]
        /\ cur' = cur
    BY <1>6 DEF Kill, calls
  <2> QED BY <2>1
<1> QED BY <1>1, <1>2, <1>3, <1>4, <1>5, <1>6 DEF IoStep

(* So a caller that goes on in its loop, or returns, leaves the phases of  *)
(* the others right.                                                       *)
LEMMA PhasesKept ==
    ASSUME PhasesOK, ForksOK, NEW p \in Procs, pc[p] \in Readers \cup Writers,
           closing' = closing, child' = child,
           \A q \in Procs : q # p => Woken(q),
           \/ pc'[p] = "user" /\ cur'[p] = None
           \/ /\ cur'[p] = cur[p]
              /\ \/ pc[p] \in Readers /\ pc'[p] \in Readers
                 \/ pc[p] \in Writers /\ pc'[p] \in Writers
    PROVE  PhasesOK' /\ ForksOK'
<1> USE DEF Readers, Writers
<1>1. ASSUME NEW q \in Procs PROVE pc'[q] = "fork" <=> pc[q] = "fork" /\ q # p
  BY DEF Woken
<1>2. ASSUME NEW q \in Procs, pc[q] = "embryo" PROVE pc'[q] = "embryo"
  BY <1>2 DEF Woken
<1>3. ASSUME NEW q \in Procs
      PROVE  /\ pc'[q] \in {"unused", "embryo", "user", "fork"} \cup Readers \cup Writers
                   => closing[q] = <<>>
             /\ pc'[q] \in {"unused", "embryo", "user", "fork", "pipealloc"} => cur'[q] = None
             /\ pc'[q] \in Readers => cur'[q] # None /\ ~cur'[q].writable
             /\ pc'[q] \in Writers => cur'[q] # None /\ cur'[q].writable
             /\ pc'[q] = "pipealloc" => Len(closing[q]) >= 1
  <2>1. CASE q = p
    <3>1. closing[p] = <<>>
      BY DEF PhasesOK
    <3>2. CASE pc'[p] = "user" /\ cur'[p] = None
      BY <2>1, <3>1, <3>2
    <3>3. CASE cur'[p] = cur[p] /\ pc[p] \in Readers /\ pc'[p] \in Readers
      BY <2>1, <3>1, <3>3 DEF PhasesOK
    <3>4. CASE cur'[p] = cur[p] /\ pc[p] \in Writers /\ pc'[p] \in Writers
      BY <2>1, <3>1, <3>4 DEF PhasesOK
    <3> QED BY <3>2, <3>3, <3>4
  <2>2. CASE q # p
    <3>1. CASE pc'[q] = pc[q]
      BY <2>2, <3>1 DEF PhasesOK, Woken
    <3>2. CASE pc[q] = "rsleep" /\ pc'[q] = "read"
      BY <2>2, <3>2 DEF PhasesOK, Woken
    <3>3. CASE pc[q] = "wsleep" /\ pc'[q] = "write"
      BY <2>2, <3>3 DEF PhasesOK, Woken
    <3> QED BY <2>2, <3>1, <3>2, <3>3 DEF Woken
  <2> QED BY <2>1, <2>2
<1>4. ASSUME NEW q \in Procs
      PROVE  /\ pc'[q] = "fork" => child'[q] \in Procs /\ pc'[child'[q]] = "embryo"
             /\ Len(closing[q]) <= 2
  BY <1>1, <1>2 DEF PhasesOK
<1>5. PhasesOK'
  BY <1>3, <1>4 DEF PhasesOK
<1>6. ForksOK'
  BY <1>1 DEF ForksOK
<1> QED BY <1>5, <1>6

LEMMA PhasesIo ==
    ASSUME PipeInv, NEW p \in Procs, IoStep(p) \/ Kill(p)
    PROVE  PhasesOK' /\ ForksOK'
<1> USE DEF PipeInv, TypeOK, PhasesOK, ForksOK, Readers, Writers
<1>1. ASSUME NEW w \in BOOLEAN, NEW l, Call(p, w, l),
             (l = "read" /\ ~w) \/ (l = "write" /\ w)
      PROVE  PhasesOK' /\ ForksOK'
  <2>1. PICK d \in Fds \ FreeFds(p) :
          /\ file[ofile[p][d]].type = "pipe" /\ file[ofile[p][d]].writable = w
          /\ cur' = [cur EXCEPT ![p] = [file[ofile[p][d]] EXCEPT !.ref = 1]]
    BY <1>1 DEF Call
  <2>2. ofile[p][d] \in Files
    BY DEF FreeFds
  <2>3. [file[ofile[p][d]] EXCEPT !.ref = 1] \in OpenEnd
    <3>1. /\ file[ofile[p][d]] \in Entry /\ file[ofile[p][d]].type = "pipe"
          /\ file[ofile[p][d]].pipe \in Pipes
      BY <2>1, <2>2 DEF FilesOK
    <3> QED BY <3>1 DEF Entry, OpenEnd
  <2>4. cur'[p] # None /\ cur'[p].writable = w
    <3>1. cur'[p] = [file[ofile[p][d]] EXCEPT !.ref = 1]
      BY <2>1
    <3>2. file[ofile[p][d]] \in Entry
      BY <2>2
    <3>3. \A e \in Entry : [e EXCEPT !.ref = 1].writable = e.writable
      BY DEF Entry
    <3>4. [file[ofile[p][d]] EXCEPT !.ref = 1].writable = w
      BY <2>1, <3>2, <3>3
    <3>5. \A e \in OpenEnd : e # None
      BY NoneAssumption
    <3> QED BY <2>3, <3>1, <3>4, <3>5
  <2>5. \A q \in Procs : q # p => cur'[q] = cur[q]
    BY <2>1
  <2>6. pc' = [pc EXCEPT ![p] = l] /\ closing' = closing /\ child' = child /\ pc[p] = "user"
    BY <1>1 DEF Call, Goto, Running
  <2>7. PhasesOK'
    BY <1>1, <2>4, <2>5, <2>6
  <2>8. ForksOK'
    BY <1>1, <2>6
  <2> QED BY <2>7, <2>8
<1>2. CASE ReadCall(p)
  BY <1>1, <1>2 DEF ReadCall
<1>3. CASE WriteCall(p)
  BY <1>1, <1>3 DEF WriteCall
<1>w. \A q \in Procs : q # p => Woken(q)
  BY IoMoves
<1>4. CASE PipereadEmpty(p)
  <2>1. pc[p] = "read" /\ closing' = closing /\ child' = child
    BY <1>4 DEF PipereadEmpty
  <2>2. \/ pc'[p] = "user" /\ cur'[p] = None
        \/ pc'[p] = "rsleeping" /\ cur'[p] = cur[p]
    BY <1>4 DEF PipereadEmpty, Goto, Return
  <2> QED BY <1>w, <2>1, <2>2, PhasesKept
<1>5. CASE Piperead(p)
  <2>1. pc[p] = "read" /\ closing' = closing /\ child' = child
    BY <1>5 DEF Piperead
  <2>2. pc'[p] = "user" /\ cur'[p] = None
    BY <1>5 DEF Piperead, WritersWoken, Return
  <2> QED BY <1>w, <2>1, <2>2, PhasesKept
<1>6. CASE Pipewrite(p)
  <2>1. pc[p] = "write" /\ closing' = closing /\ child' = child
    BY <1>6 DEF Pipewrite
  <2>2. \/ pc'[p] = "user" /\ cur'[p] = None
        \/ pc'[p] = "wsleeping" /\ cur'[p] = cur[p]
    <3>1. \/ pc' = [ReadersWoken(cur[p].pipe) EXCEPT ![p] = "user"] /\ Return(p)
          \/ Goto(p, "user") /\ Return(p)
          \/ pc' = [ReadersWoken(cur[p].pipe) EXCEPT ![p] = "wsleeping"] /\ cur' = cur
      BY <1>6 DEF Pipewrite
    <3>2. Return(p) => cur'[p] = None
      BY DEF Return
    <3> QED BY <3>1, <3>2 DEF ReadersWoken, Goto
  <2> QED BY <1>w, <2>1, <2>2, PhasesKept
<1>7. CASE Sleep(p)
  <2>1. closing' = closing /\ child' = child /\ cur' = cur
    BY <1>7 DEF Sleep, calls
  <2>2. \/ pc[p] = "rsleeping" /\ pc'[p] = "rsleep"
        \/ pc[p] = "wsleeping" /\ pc'[p] = "wsleep"
    BY <1>7 DEF Sleep, Goto
  <2> QED BY <1>w, <2>1, <2>2, PhasesKept
<1>8. CASE Kill(p)
  <2>1. closing' = closing /\ child' = child /\ cur' = cur
    BY <1>8 DEF Kill, calls
  <2>2. \/ pc[p] \in Readers /\ pc'[p] \in Readers
        \/ pc[p] \in Writers /\ pc'[p] \in Writers
    BY <1>8 DEF Kill
  <2> QED BY <1>w, <2>1, <2>2, PhasesKept
<1> QED BY <1>2, <1>3, <1>4, <1>5, <1>6, <1>7, <1>8 DEF IoStep

LEMMA PhasesStep == PipeInv /\ [Next]_vars => PhasesOK' /\ ForksOK'
<1> SUFFICES ASSUME PipeInv, [Next]_vars PROVE PhasesOK' /\ ForksOK'
  OBVIOUS
<1>1. CASE UNCHANGED vars
  BY <1>1 DEF vars, calls, PipeInv, PhasesOK, ForksOK
<1>2. CASE Next
  BY <1>2, PhasesPipe, PhasesFd, PhasesProc, PhasesIo DEF Next
<1> QED BY <1>1, <1>2

LEMMA FilesPipe ==
    ASSUME PipeInv, NEW p \in Procs, PipeStep(p)
    PROVE  FilesOK'
<1>0. TypeOK /\ RefCounts /\ FilesOK
  BY DEF PipeInv
<1>1. CASE PipeStart(p)
  <2> DEFINE n == Least(FreeFiles)
  <2>1. n \in Files /\ file[n].ref = 0 /\ file[n].type = "none"
    BY <1>0, <1>1, FreeFile DEF PipeStart, FilesOK
  <2> HIDE DEF n
  <2>2. /\ pc' = [pc EXCEPT ![p] = "pipealloc"] /\ closing' = [closing EXCEPT ![p] = <<n>>]
        /\ file' = [file EXCEPT ![n].ref = 1]
    BY <1>1 DEF PipeStart, Goto, Filealloc, n
  <2>3. \A f \in Files : /\ file'[f].ref = IF f = n THEN 1 ELSE file[f].ref
                         /\ file'[f].type = file[f].type /\ file'[f].pipe = file[f].pipe
    BY <1>0, <2>1, <2>2 DEF TypeOK, Entry
  <2>4. ASSUME NEW q \in Procs, pc'[q] = "pipealloc", NEW i \in 1 .. Len(closing'[q])
        PROVE  file'[closing'[q][i]].ref = 1 /\ file'[closing'[q][i]].type = "none"
    <3>1. CASE q = p
      <4>1. closing'[q] = <<n>>
        BY <1>0, <2>2, <3>1 DEF TypeOK
      <4>2. closing'[q][i] = n
        BY <4>1
      <4> QED BY <2>1, <2>3, <4>2
    <3>2. CASE q # p
      <4>1. pc[q] = "pipealloc" /\ closing'[q] = closing[q]
        BY <1>0, <2>2, <2>4, <3>2 DEF TypeOK
      <4>2. i \in 1 .. Len(closing[q])
        BY <2>4, <4>1
      <4>3. /\ closing[q][i] \in Files /\ file[closing[q][i]].ref = 1
            /\ file[closing[q][i]].type = "none"
        BY <4>1, <4>2, FreshFile
      <4> QED BY <2>1, <2>3, <4>1, <4>3
    <3> QED BY <3>1, <3>2
  <2> QED BY <1>0, <2>1, <2>3, <2>4 DEF FilesOK
<1>2. CASE PipeSecond(p)
  <2>1. CASE /\ closing' = [closing EXCEPT ![p] = Append(@, Least(FreeFiles))] /\ pc' = pc
             /\ FreeFiles # {} /\ file' = Filealloc
    <3> DEFINE n == Least(FreeFiles)
    <3>1. n \in Files /\ file[n].ref = 0 /\ file[n].type = "none"
      BY <1>0, <2>1, FreeFile DEF FilesOK
    <3> HIDE DEF n
    <3>2. closing' = [closing EXCEPT ![p] = Append(@, n)] /\ file' = [file EXCEPT ![n].ref = 1]
      BY <2>1 DEF Filealloc, n
    <3>3. \A f \in Files : /\ file'[f].ref = IF f = n THEN 1 ELSE file[f].ref
                           /\ file'[f].type = file[f].type /\ file'[f].pipe = file[f].pipe
      BY <1>0, <3>1, <3>2 DEF TypeOK, Entry
    <3>4. ASSUME NEW q \in Procs, pc'[q] = "pipealloc", NEW i \in 1 .. Len(closing'[q])
          PROVE  file'[closing'[q][i]].ref = 1 /\ file'[closing'[q][i]].type = "none"
      <4>1. pc[q] = "pipealloc"
        BY <2>1, <3>4
      <4>2. closing'[q][i] = n \/ (i \in 1 .. Len(closing[q]) /\ closing'[q][i] = closing[q][i])
        <5>1. CASE q = p
          <6>1. closing[p] \in Seq(Files) /\ closing'[q] = Append(closing[p], n)
            BY <1>0, <3>2, <5>1 DEF TypeOK
          <6>2. /\ Len(closing'[q]) = Len(closing[p]) + 1 /\ closing'[q][Len(closing[p]) + 1] = n
                /\ \A j \in 1 .. Len(closing[p]) : closing'[q][j] = closing[p][j]
            BY <3>1, <6>1, AppendProperties
          <6>3. Len(closing[p]) \in Nat
            BY <6>1
          <6>4. i \in 1 .. Len(closing[p]) \/ i = Len(closing[p]) + 1
            BY <6>2, <6>3
          <6> QED BY <5>1, <6>2, <6>4
        <5>2. CASE q # p
          BY <1>0, <3>2, <5>2 DEF TypeOK
        <5> QED BY <5>1, <5>2
      <4>3. CASE closing'[q][i] = n
        BY <3>1, <3>3, <4>3
      <4>4. CASE i \in 1 .. Len(closing[q]) /\ closing'[q][i] = closing[q][i]
        <5>1. /\ closing[q][i] \in Files /\ file[closing[q][i]].ref = 1
              /\ file[closing[q][i]].type = "none"
          BY <4>1, <4>4, FreshFile
        <5> QED BY <3>1, <3>3, <4>4, <5>1
      <4> QED BY <4>2, <4>3, <4>4
    <3> QED BY <1>0, <3>1, <3>3, <3>4 DEF FilesOK
  <2>2. CASE closing' = closing /\ file' = file /\ pc' = [pc EXCEPT ![p] = "closing"]
    BY <1>0, <2>2 DEF FilesOK, TypeOK
  <2> QED BY <1>2, <2>1, <2>2 DEF PipeSecond, Goto
<1>3. CASE PipeReady(p)
  <2> DEFINE a == closing[p][1]
             b == closing[p][2]
  <2>1. pc[p] = "pipealloc" /\ 1 \in 1 .. Len(closing[p]) /\ 2 \in 1 .. Len(closing[p])
    BY <1>3 DEF PipeReady
  <2>2. a \in Files /\ b \in Files
    BY <2>1, FreshFile
  <2>3. PICK k \in Pipes : file' = [file EXCEPT ![a] = End(FALSE, k), ![b] = End(TRUE, k)]
    BY <1>3 DEF PipeReady
  <2>4. \A f \in Files : /\ f \in {a, b} => file'[f].ref = 1 /\ file'[f].pipe \in Pipes
                         /\ f \notin {a, b} => file'[f] = file[f]
    BY <1>0, <2>2, <2>3 DEF TypeOK, End
  <2> HIDE DEF a, b
  <2>5. ASSUME NEW q \in Procs, pc'[q] = "pipealloc", NEW i \in 1 .. Len(closing'[q])
        PROVE  file'[closing'[q][i]].ref = 1 /\ file'[closing'[q][i]].type = "none"
    <3>1. q # p /\ pc[q] = "pipealloc" /\ closing'[q] = closing[q]
      BY <1>0, <1>3, <2>5 DEF PipeReady, Goto, TypeOK
    <3>2. i \in 1 .. Len(closing[q])
      BY <2>5, <3>1
    <3>3. /\ closing[q][i] \in Files /\ file[closing[q][i]].ref = 1
          /\ file[closing[q][i]].type = "none"
      BY <3>1, <3>2, FreshFile
    <3>4. closing[q][i] # a /\ closing[q][i] # b
      BY <2>1, <3>1, <3>2, FreshFile DEF a, b
    <3> QED BY <2>4, <3>1, <3>3, <3>4
  <2>6. \A f \in Files : /\ file'[f].ref = 0 => file'[f].type = "none"
                         /\ file'[f].type = "pipe" => file'[f].pipe \in Pipes
    <3>1. ASSUME NEW f \in Files
          PROVE  /\ file'[f].ref = 0 => file'[f].type = "none"
                 /\ file'[f].type = "pipe" => file'[f].pipe \in Pipes
      <4>1. CASE f \in {a, b}
        BY <2>4, <4>1
      <4>2. CASE f \notin {a, b}
        BY <1>0, <2>4, <4>2 DEF FilesOK
      <4> QED BY <4>1, <4>2
    <3> QED BY <3>1
  <2> QED BY <2>5, <2>6 DEF FilesOK
<1>4. CASE PipeNoPage(p)
  BY <1>0, <1>4 DEF PipeNoPage, Goto, calls, FilesOK, TypeOK
<1> QED BY <1>1, <1>2, <1>3, <1>4 DEF PipeStep

(* Whatever else a step does, it leaves the new files of others alone.     *)
LEMMA FilesKept ==
    ASSUME PipeInv,
           \A q \in Procs : pc'[q] = "pipealloc"
                             => pc[q] = "pipealloc" /\ closing'[q] = closing[q],
           \A q \in Procs : pc[q] = "pipealloc" => \A i \in 1 .. Len(closing[q]) :
                             file'[closing[q][i]] = file[closing[q][i]],
           \A f \in Files : /\ file'[f].ref = 0 => file'[f].type = "none"
                            /\ file'[f].type = "pipe" => file'[f].pipe \in Pipes
    PROVE  FilesOK'
<1>1. ASSUME NEW q \in Procs, pc'[q] = "pipealloc", NEW i \in 1 .. Len(closing'[q])
      PROVE  file'[closing'[q][i]].ref = 1 /\ file'[closing'[q][i]].type = "none"
  <2>1. pc[q] = "pipealloc" /\ closing'[q] = closing[q]
    BY <1>1
  <2>2. i \in 1 .. Len(closing[q])
    BY <1>1, <2>1
  <2>3. file[closing[q][i]].ref = 1 /\ file[closing[q][i]].type = "none"
    BY <2>1, <2>2 DEF PipeInv, FilesOK
  <2>4. file'[closing[q][i]] = file[closing[q][i]]
    BY <2>1, <2>2
  <2> QED BY <2>1, <2>3, <2>4
<1> QED BY <1>1 DEF FilesOK

LEMMA FilesDup ==
    ASSUME PipeInv, NEW p \in Procs, NEW d \in Fds, ofile[p][d] # None,
           file' = Filedup(ofile[p][d]),
           \A q \in Procs : pc'[q] = "pipealloc"
                             => pc[q] = "pipealloc" /\ closing'[q] = closing[q]
    PROVE  FilesOK'
<1> DEFINE g == ofile[p][d]
<1>1. g \in Files /\ file \in [Files -> Entry]
  BY DEF PipeInv, TypeOK
<1>2. /\ file'[g].ref = file[g].ref + 1 /\ file[g].ref \in Nat /\ file'[g].type = file[g].type
      /\ file'[g].pipe = file[g].pipe
      /\ \A f \in Files : f # g => file'[f] = file[f]
  BY <1>1 DEF Filedup, Entry
<1>3. ASSUME NEW q \in Procs, pc[q] = "pipealloc", NEW i \in 1 .. Len(closing[q])
      PROVE  file'[closing[q][i]] = file[closing[q][i]]
  <2>1. closing[q][i] # g /\ closing[q][i] \in Files
    BY <1>3, FreshFile
  <2> QED BY <1>2, <2>1
<1>4. \A f \in Files : /\ file'[f].ref = 0 => file'[f].type = "none"
                       /\ file'[f].type = "pipe" => file'[f].pipe \in Pipes
  BY <1>1, <1>2 DEF PipeInv, FilesOK
<1> QED BY <1>3, <1>4, FilesKept

LEMMA FilesFd ==
    ASSUME PipeInv, NEW p \in Procs, FdStep(p)
    PROVE  FilesOK'
<1>0. TypeOK /\ RefCounts /\ FilesOK
  BY DEF PipeInv
<1>1. CASE Dup(p)
  BY <1>1, FilesDup DEF Dup, FreeFds, calls
<1>2. CASE Close(p)
  BY <1>0, <1>2 DEF Close, Goto, FilesOK, TypeOK
<1>3. CASE Fileclose(p)
  <2> DEFINE g == Head(closing[p])
  <2>1. /\ g \in Files /\ 1 \in 1 .. Len(closing[p]) /\ g = closing[p][1]
        /\ pc[p] # "pipealloc"
    BY <1>0, <1>3, HeadTailProperties, EmptySeq DEF Fileclose, TypeOK
  <2>2. file[g].ref \in Nat /\ file[g].ref >= 1
    <3>1. 1 \in 1 .. 2 /\ 1 <= Len(closing[p])
      BY <2>1
    <3> QED BY <1>0, <2>1, <3>1, Referred DEF TypeOK, Entry
  <2>3. /\ pc' = pc /\ \A q \in Procs : q # p => closing'[q] = closing[q]
        /\ file' = (IF file[g].ref > 1 THEN [file EXCEPT ![g].ref = @ - 1]
                                        ELSE [file EXCEPT ![g] = Closed])
    BY <1>0, <1>3 DEF Fileclose, TypeOK
  <2> HIDE DEF g
  <2>4. /\ file'[g].ref = 0 => file'[g].type = "none"
        /\ file'[g].type = "pipe" => file'[g].pipe \in Pipes
        /\ \A f \in Files : f # g => file'[f] = file[f]
    <3>1. CASE file[g].ref > 1
      <4>1. file' = [file EXCEPT ![g].ref = @ - 1]
        BY <2>3, <3>1
      <4>2. /\ file'[g].ref = file[g].ref - 1 /\ file'[g].type = file[g].type
            /\ file'[g].pipe = file[g].pipe
            /\ \A f \in Files : f # g => file'[f] = file[f]
        BY <1>0, <2>1, <4>1 DEF TypeOK, Entry
      <4> QED BY <1>0, <2>1, <2>2, <3>1, <4>2 DEF FilesOK
    <3>2. CASE ~(file[g].ref > 1)
      BY <1>0, <2>1, <2>3, <3>2 DEF TypeOK, Closed
    <3> QED BY <3>1, <3>2
  <2>5. ASSUME NEW q \in Procs, pc[q] = "pipealloc", NEW i \in 1 .. Len(closing[q])
        PROVE  file'[closing[q][i]] = file[closing[q][i]]
    <3>1. closing[q][i] # g /\ closing[q][i] \in Files
      BY <2>1, <2>5, FreshFile
    <3> QED BY <2>4, <3>1
  <2>6. \A f \in Files : /\ file'[f].ref = 0 => file'[f].type = "none"
                         /\ file'[f].type = "pipe" => file'[f].pipe \in Pipes
    BY <1>0, <2>4 DEF FilesOK
  <2> QED BY <2>1, <2>3, <2>5, <2>6, FilesKept
<1>4. CASE CloseDone(p)
  BY <1>0, <1>4 DEF CloseDone, Goto, calls, FilesOK, TypeOK
<1>5. CASE Pipeclose(p)
  <2>1. \A q \in Procs : pc'[q] = "pipealloc" => pc[q] = "pipealloc"
    BY <1>0, <1>5 DEF Pipeclose, ReadersWoken, WritersWoken, TypeOK
  <2>2. file' = file /\ closing' = closing
    BY <1>5 DEF Pipeclose
  <2> QED BY <1>0, <2>1, <2>2 DEF FilesOK
<1> QED BY <1>1, <1>2, <1>3, <1>4, <1>5 DEF FdStep

LEMMA FilesStep == PipeInv /\ [Next]_vars => FilesOK'
<1> SUFFICES ASSUME PipeInv, [Next]_vars PROVE FilesOK'
  OBVIOUS
<1>0. TypeOK /\ FilesOK
  BY DEF PipeInv
<1>1. CASE UNCHANGED vars
  BY <1>0, <1>1 DEF vars, calls, FilesOK
<1>2. ASSUME NEW p \in Procs, ProcStep(p) PROVE FilesOK'
  <2>1. CASE ForkFile(p)
    <3>1. Uncopied(p) \in SUBSET Fds /\ Uncopied(p) # {}
      BY <2>1 DEF ForkFile, Uncopied
    <3>2. Least(Uncopied(p)) \in Uncopied(p)
      BY <3>1, LeastFd
    <3>3. /\ file' = Filedup(ofile[p][Least(Uncopied(p))])
          /\ pc' = pc /\ closing' = closing
      BY <2>1 DEF ForkFile, ForkDup, calls
    <3>4. Least(Uncopied(p)) \in Fds /\ ofile[p][Least(Uncopied(p))] # None
      BY <3>2 DEF Uncopied
    <3> QED BY <3>3, <3>4, FilesDup
  <2>2. CASE Fork(p) \/ ForkReady(p)
    <3>1. ASSUME NEW q \in Procs, pc'[q] = "pipealloc" PROVE pc[q] = "pipealloc"
      BY <1>0, <2>2, <3>1 DEF Fork, ForkReady, TypeOK
    <3>2. file' = file /\ closing' = closing
      BY <2>2 DEF Fork, ForkReady
    <3> QED BY <1>0, <3>1, <3>2 DEF FilesOK
  <2>3. CASE Exit(p) \/ Exited(p)
    <3>1. ASSUME NEW q \in Procs, pc'[q] = "pipealloc" PROVE pc[q] = "pipealloc"
      BY <1>0, <2>3, <3>1 DEF Exit, Exited, Goto, TypeOK
    <3>2. file' = file /\ closing' = closing
      BY <2>3 DEF Exit, Exited, calls
    <3> QED BY <1>0, <3>1, <3>2 DEF FilesOK
  <2>4. CASE ExitFile(p)
    <3>1. /\ \A q \in Procs : q # p => closing'[q] = closing[q]
          /\ pc' = pc /\ pc[p] = "exit" /\ file' = file
      BY <1>0, <2>4 DEF ExitFile, TypeOK
    <3>2. ASSUME NEW q \in Procs, pc'[q] = "pipealloc"
          PROVE  pc[q] = "pipealloc" /\ closing'[q] = closing[q]
      BY <3>1, <3>2
    <3> QED BY <1>0, <3>1, <3>2 DEF FilesOK
  <2> QED BY <1>2, <2>1, <2>2, <2>3, <2>4 DEF ProcStep
<1>3. ASSUME NEW p \in Procs, IoStep(p) \/ Kill(p) PROVE FilesOK'
  <2>1. file' = file /\ closing' = closing
    BY <1>3 DEF IoStep, ReadCall, WriteCall, Call, PipereadEmpty, Piperead, Pipewrite,
                Sleep, Kill, calls
  <2>2. ASSUME NEW q \in Procs, pc'[q] = "pipealloc" PROVE pc[q] = "pipealloc"
    BY <1>3, <2>2, IoMoves DEF Woken, Readers, Writers
  <2> QED BY <1>0, <2>1, <2>2 DEF FilesOK
<1>4. CASE Next
  BY <1>2, <1>3, <1>4, FilesPipe, FilesFd DEF Next
<1> QED BY <1>1, <1>4

-----------------------------------------------------------------------------
(* The ends of pipes.  A file that is an end has a reference.              *)
LEMMA EndOpenIs ==
    ASSUME TypeOK, FilesOK, NEW k \in Pipes
    PROVE  /\ EndOpen(k, FALSE) <=> \/ \E f \in Files : IsEnd(f, k, FALSE)
                                    \/ \E p \in Procs : Closes(p, k, FALSE)
           /\ EndOpen(k, TRUE) <=> \/ \E f \in Files : IsEnd(f, k, TRUE)
                                   \/ \E p \in Procs : Closes(p, k, TRUE)
<1>1. ASSUME NEW f \in Files, file[f].type = "pipe" PROVE file[f].ref > 0
  BY <1>1 DEF TypeOK, FilesOK, Entry
<1> QED BY <1>1 DEF EndOpen, IsEnd, Closes

LEMMA EndOpenNext ==
    ASSUME TypeOK', FilesOK', NEW k \in Pipes
    PROVE  /\ EndOpen(k, FALSE)' <=> \/ \E f \in Files : IsEnd(f, k, FALSE)'
                                     \/ \E p \in Procs : Closes(p, k, FALSE)'
           /\ EndOpen(k, TRUE)' <=> \/ \E f \in Files : IsEnd(f, k, TRUE)'
                                    \/ \E p \in Procs : Closes(p, k, TRUE)'
<1>1. ASSUME NEW f \in Files, file'[f].type = "pipe" PROVE file'[f].ref > 0
  BY <1>1 DEF TypeOK, FilesOK, Entry
<1> QED BY <1>1 DEF EndOpen, IsEnd, Closes

(* What the invariant says of the ends, without the counts.                *)
LEMMA EndsAre ==
    ASSUME TypeOK, FilesOK, EndsOpen, NEW k \in Pipes
    PROVE  /\ pipe[k] # None =>
                /\ pipe[k].readopen \in BOOLEAN /\ pipe[k].writeopen \in BOOLEAN
                /\ pipe[k].readopen <=> \/ \E f \in Files : IsEnd(f, k, FALSE)
                                        \/ \E p \in Procs : Closes(p, k, FALSE)
                /\ pipe[k].writeopen <=> \/ \E f \in Files : IsEnd(f, k, TRUE)
                                         \/ \E p \in Procs : Closes(p, k, TRUE)
                /\ pipe[k].readopen \/ pipe[k].writeopen
           /\ pipe[k] = None =>
                /\ \A f \in Files : ~IsEnd(f, k, FALSE) /\ ~IsEnd(f, k, TRUE)
                /\ \A p \in Procs : ~Closes(p, k, FALSE) /\ ~Closes(p, k, TRUE)
<1>1. pipe[k] # None => pipe[k].readopen \in BOOLEAN /\ pipe[k].writeopen \in BOOLEAN
  BY DEF TypeOK, Page
<1>2. k \in Live <=> pipe[k] # None
  BY DEF Live
<1> QED BY <1>1, <1>2, EndOpenIs DEF EndsOpen

LEMMA EndsNext ==
    ASSUME TypeOK', FilesOK',
           \A k \in Pipes :
             /\ pipe'[k] # None =>
                /\ pipe'[k].readopen <=> \/ \E f \in Files : IsEnd(f, k, FALSE)'
                                         \/ \E p \in Procs : Closes(p, k, FALSE)'
                /\ pipe'[k].writeopen <=> \/ \E f \in Files : IsEnd(f, k, TRUE)'
                                          \/ \E p \in Procs : Closes(p, k, TRUE)'
                /\ pipe'[k].readopen \/ pipe'[k].writeopen
             /\ pipe'[k] = None =>
                /\ \A f \in Files : ~IsEnd(f, k, FALSE)' /\ ~IsEnd(f, k, TRUE)'
                /\ \A p \in Procs : ~Closes(p, k, FALSE)' /\ ~Closes(p, k, TRUE)'
    PROVE  EndsOpen'
<1>1. ASSUME NEW k \in Pipes, pipe'[k] # None
      PROVE  pipe'[k].readopen \in BOOLEAN /\ pipe'[k].writeopen \in BOOLEAN
  BY <1>1 DEF TypeOK, Page
<1>2. ASSUME NEW k \in Pipes PROVE k \in Live' <=> pipe'[k] # None
  BY DEF Live
<1>3. ASSUME NEW k \in Pipes
      PROVE  /\ pipe'[k] # None => /\ pipe'[k].readopen <=> EndOpen(k, FALSE)'
                                   /\ pipe'[k].writeopen <=> EndOpen(k, TRUE)'
             /\ pipe'[k] # None <=> EndOpen(k, FALSE)' \/ EndOpen(k, TRUE)'
  BY EndOpenNext
<1>4. ASSUME NEW k \in Pipes
      PROVE  /\ k \in Live' => /\ pipe'[k].readopen = EndOpen(k, FALSE)'
                               /\ pipe'[k].writeopen = EndOpen(k, TRUE)'
             /\ k \in Live' <=> EndOpen(k, FALSE)' \/ EndOpen(k, TRUE)'
  BY <1>1, <1>2, <1>3 DEF EndOpen
<1> QED BY <1>4 DEF EndsOpen

(* Most steps change no end.                                               *)
LEMMA EndsKept ==
    ASSUME PipeInv, TypeOK', FilesOK',
           \A f \in Files : /\ file'[f].type = "pipe" <=> file[f].type = "pipe"
                            /\ file[f].type = "pipe" => /\ file'[f].pipe = file[f].pipe
                                                        /\ file'[f].writable = file[f].writable,
           \A q \in Procs : \/ pc[q] = pc'[q] /\ cur[q] = cur'[q]
                            \/ /\ cur[q] = None \/ pc[q] \notin {"closing", "exit"}
                               /\ cur'[q] = None \/ pc'[q] \notin {"closing", "exit"},
           \A k \in Pipes : /\ pipe'[k] = None <=> pipe[k] = None
                            /\ pipe[k] # None => /\ pipe'[k].readopen = pipe[k].readopen
                                                 /\ pipe'[k].writeopen = pipe[k].writeopen
    PROVE  EndsOpen' /\ EndsUnique'
<1>1. \A k, w : \A f \in Files : IsEnd(f, k, w)' <=> IsEnd(f, k, w)
  BY DEF IsEnd
<1>2. \A k, w : \A q \in Procs : Closes(q, k, w)' <=> Closes(q, k, w)
  BY DEF Closes
<1>3. EndsUnique'
  BY <1>1, <1>2 DEF PipeInv, EndsUnique
<1>4. ASSUME NEW k \in Pipes
      PROVE  /\ pipe'[k] # None =>
                /\ pipe'[k].readopen <=> \/ \E f \in Files : IsEnd(f, k, FALSE)'
                                         \/ \E p \in Procs : Closes(p, k, FALSE)'
                /\ pipe'[k].writeopen <=> \/ \E f \in Files : IsEnd(f, k, TRUE)'
                                          \/ \E p \in Procs : Closes(p, k, TRUE)'
                /\ pipe'[k].readopen \/ pipe'[k].writeopen
             /\ pipe'[k] = None =>
                /\ \A f \in Files : ~IsEnd(f, k, FALSE)' /\ ~IsEnd(f, k, TRUE)'
                /\ \A p \in Procs : ~Closes(p, k, FALSE)' /\ ~Closes(p, k, TRUE)'
  BY <1>1, <1>2, EndsAre DEF PipeInv
<1>5. EndsOpen'
  BY <1>4, EndsNext
<1> QED BY <1>3, <1>5

LEMMA EndsPipe ==
    ASSUME PipeInv, TypeOK', FilesOK', NEW p \in Procs, PipeStep(p)
    PROVE  EndsOpen' /\ EndsUnique'
<1>0. TypeOK /\ FilesOK /\ PhasesOK /\ EndsOpen
  BY DEF PipeInv
<1>1. CASE PipeStart(p) \/ PipeSecond(p) \/ PipeNoPage(p)
  <2>1. \A f \in Files : /\ file'[f].type = file[f].type /\ file'[f].pipe = file[f].pipe
                         /\ file'[f].writable = file[f].writable
    <3>1. CASE file' = file
      BY <3>1
    <3>2. CASE file' = Filealloc /\ FreeFiles # {}
      <4>1. Least(FreeFiles) \in Files
        BY <1>0, <3>2, FreeFile
      <4> QED BY <1>0, <3>2, <4>1 DEF Filealloc, TypeOK, Entry
    <3> QED BY <1>1, <3>1, <3>2 DEF PipeStart, PipeSecond, PipeNoPage
  <2>2. cur' = cur /\ pipe' = pipe
    BY <1>1 DEF PipeStart, PipeSecond, PipeNoPage, calls
  <2>3. cur[p] = None
    BY <1>0, <1>1 DEF PhasesOK, PipeStart, PipeSecond, PipeNoPage, Running
  <2>4. \A q \in Procs : q # p => pc'[q] = pc[q]
    BY <1>0, <1>1 DEF PipeStart, PipeSecond, PipeNoPage, Goto, TypeOK
  <2>5. \A q \in Procs : \/ pc[q] = pc'[q] /\ cur[q] = cur'[q]
                         \/ /\ cur[q] = None \/ pc[q] \notin {"closing", "exit"}
                            /\ cur'[q] = None \/ pc'[q] \notin {"closing", "exit"}
    BY <2>2, <2>3, <2>4
  <2> QED BY <2>1, <2>2, <2>5, EndsKept
<1>2. CASE PipeReady(p)
  <2>1. pc[p] = "pipealloc" /\ 1 \in 1 .. Len(closing[p]) /\ 2 \in 1 .. Len(closing[p])
    BY <1>2 DEF PipeReady
  <2> PICK a \in Files, b \in Files : a = closing[p][1] /\ b = closing[p][2]
    BY <2>1, FreshFile
  <2>2. /\ a # b /\ file[a].type = "none" /\ file[b].type = "none" /\ cur[p] = None
    BY <1>0, <2>1, FreshFile DEF PhasesOK
  <2>3. PICK k \in Pipes :
          /\ pipe[k] = None
          /\ pipe' = [pipe EXCEPT ![k] = NewPipe]
          /\ file' = [file EXCEPT ![a] = End(FALSE, k), ![b] = End(TRUE, k)]
    BY <1>2 DEF PipeReady
  <2>4. ASSUME NEW f \in Files, NEW j
        PROVE  /\ IsEnd(f, j, FALSE)' <=> IsEnd(f, j, FALSE) \/ (j = k /\ f = a)
               /\ IsEnd(f, j, TRUE)' <=> IsEnd(f, j, TRUE) \/ (j = k /\ f = b)
    BY <1>0, <2>2, <2>3 DEF IsEnd, End, TypeOK
  <2>5. \A q \in Procs : \A j, w : Closes(q, j, w)' <=> Closes(q, j, w)
    <3>1. cur' = cur /\ \A q \in Procs : q # p => pc'[q] = pc[q]
      BY <1>0, <1>2 DEF PipeReady, Goto, TypeOK
    <3> QED BY <2>2, <3>1 DEF Closes
  <2>6. /\ \A f \in Files : ~IsEnd(f, k, FALSE) /\ ~IsEnd(f, k, TRUE)
        /\ \A q \in Procs : ~Closes(q, k, FALSE) /\ ~Closes(q, k, TRUE)
    BY <1>0, <2>3, EndsAre
  <2>7. /\ pipe'[k] = NewPipe /\ \A j \in Pipes : j # k => pipe'[j] = pipe[j]
        /\ NewPipe # None
    <3>1. NewPipe \in Page
      BY RingAssumption DEF NewPipe, Page
    <3> QED BY <1>0, <2>3, <3>1 DEF TypeOK
  <2>8. EndsUnique'
    <3>1. ASSUME NEW j \in Pipes, NEW w \in BOOLEAN
          PROVE  /\ \A f, g \in Files : IsEnd(f, j, w)' /\ IsEnd(g, j, w)' => f = g
                 /\ \A q, r \in Procs : Closes(q, j, w)' /\ Closes(r, j, w)' => q = r
                 /\ \A f \in Files, q \in Procs : ~(IsEnd(f, j, w)' /\ Closes(q, j, w)')
      <4>1. /\ \A f, g \in Files : IsEnd(f, j, w) /\ IsEnd(g, j, w) => f = g
            /\ \A q, r \in Procs : Closes(q, j, w) /\ Closes(r, j, w) => q = r
            /\ \A f \in Files, q \in Procs : ~(IsEnd(f, j, w) /\ Closes(q, j, w))
        BY DEF PipeInv, EndsUnique
      <4>2. CASE w = FALSE
        <5>1. /\ \A f \in Files : IsEnd(f, j, w)' <=> IsEnd(f, j, w) \/ (j = k /\ f = a)
              /\ \A q \in Procs : Closes(q, j, w)' <=> Closes(q, j, w)
              /\ \A f \in Files : ~IsEnd(f, k, w)
              /\ \A q \in Procs : ~Closes(q, k, w)
          BY <2>4, <2>5, <2>6, <4>2
        <5> QED BY <4>1, <5>1
      <4>3. CASE w = TRUE
        <5>1. /\ \A f \in Files : IsEnd(f, j, w)' <=> IsEnd(f, j, w) \/ (j = k /\ f = b)
              /\ \A q \in Procs : Closes(q, j, w)' <=> Closes(q, j, w)
              /\ \A f \in Files : ~IsEnd(f, k, w)
              /\ \A q \in Procs : ~Closes(q, k, w)
          BY <2>4, <2>5, <2>6, <4>3
        <5> QED BY <4>1, <5>1
      <4> QED BY <4>2, <4>3
    <3> QED BY <3>1 DEF EndsUnique
  <2>9. EndsOpen'
    <3>1. ASSUME NEW j \in Pipes
          PROVE  /\ pipe'[j] # None =>
                    /\ pipe'[j].readopen <=> \/ \E f \in Files : IsEnd(f, j, FALSE)'
                                             \/ \E q \in Procs : Closes(q, j, FALSE)'
                    /\ pipe'[j].writeopen <=> \/ \E f \in Files : IsEnd(f, j, TRUE)'
                                              \/ \E q \in Procs : Closes(q, j, TRUE)'
                    /\ pipe'[j].readopen \/ pipe'[j].writeopen
                 /\ pipe'[j] = None =>
                    /\ \A f \in Files : ~IsEnd(f, j, FALSE)' /\ ~IsEnd(f, j, TRUE)'
                    /\ \A q \in Procs : ~Closes(q, j, FALSE)' /\ ~Closes(q, j, TRUE)'
      <4>1. CASE j = k
        <5>1. pipe'[k] # None /\ pipe'[k].readopen /\ pipe'[k].writeopen
          BY <2>7 DEF NewPipe
        <5>2. IsEnd(a, k, FALSE)' /\ IsEnd(b, k, TRUE)'
          BY <1>0, <2>2, <2>3 DEF IsEnd, End, TypeOK
        <5> QED BY <2>2, <4>1, <5>1, <5>2
      <4>2. CASE j # k
        BY <1>0, <2>4, <2>5, <2>7, <4>2, EndsAre
      <4> QED BY <4>1, <4>2
    <3> QED BY <3>1, EndsNext
  <2> QED BY <2>8, <2>9
<1> QED BY <1>1, <1>2 DEF PipeStep

LEMMA EndsFd ==
    ASSUME PipeInv, TypeOK', FilesOK', NEW p \in Procs, FdStep(p)
    PROVE  EndsOpen' /\ EndsUnique'
<1>0. TypeOK /\ RefCounts /\ FilesOK /\ PhasesOK /\ EndsOpen
  BY DEF PipeInv
<1>1. CASE Dup(p) \/ Close(p) \/ CloseDone(p)
  <2>1. \A f \in Files : /\ file'[f].type = file[f].type /\ file'[f].pipe = file[f].pipe
                         /\ file'[f].writable = file[f].writable
    <3>1. CASE file' = file
      BY <3>1
    <3>2. ASSUME NEW g \in Files, file' = Filedup(g)
          PROVE  \A f \in Files : /\ file'[f].type = file[f].type /\ file'[f].pipe = file[f].pipe
                                  /\ file'[f].writable = file[f].writable
      BY <1>0, <3>2 DEF Filedup, TypeOK, Entry
    <3>3. ASSUME NEW d \in Fds \ FreeFds(p) PROVE ofile[p][d] \in Files
      BY <1>0 DEF TypeOK, FreeFds
    <3> QED BY <1>1, <3>1, <3>2, <3>3 DEF Dup, Close, CloseDone
  <2>2. cur' = cur /\ pipe' = pipe
    BY <1>1 DEF Dup, Close, CloseDone, calls
  <2>3. cur[p] = None
    BY <1>0, <1>1 DEF PhasesOK, Dup, Close, CloseDone, Running
  <2>4. \A q \in Procs : q # p => pc'[q] = pc[q]
    BY <1>0, <1>1 DEF Dup, Close, CloseDone, Goto, TypeOK
  <2>5. \A q \in Procs : \/ pc[q] = pc'[q] /\ cur[q] = cur'[q]
                         \/ /\ cur[q] = None \/ pc[q] \notin {"closing", "exit"}
                            /\ cur'[q] = None \/ pc'[q] \notin {"closing", "exit"}
    BY <2>2, <2>3, <2>4
  <2> QED BY <2>1, <2>2, <2>5, EndsKept
<1>2. CASE Fileclose(p)
  <2> DEFINE g == Head(closing[p])
  <2>1. g \in Files /\ pc[p] \in {"closing", "exit"} /\ cur[p] = None
    BY <1>0, <1>2, HeadTailProperties, EmptySeq DEF Fileclose, TypeOK
  <2>2. /\ pc' = pc /\ pipe' = pipe
        /\ \/ file' = [file EXCEPT ![g].ref = @ - 1] /\ cur' = cur
           \/ /\ file' = [file EXCEPT ![g] = Closed]
              /\ cur' = [cur EXCEPT ![p] = IF file[g].type = "pipe" THEN file[g] ELSE None]
    BY <1>2 DEF Fileclose
  <2> HIDE DEF g
  <2>3. CASE file' = [file EXCEPT ![g].ref = @ - 1] /\ cur' = cur
    <3>1. \A f \in Files : /\ file'[f].type = file[f].type /\ file'[f].pipe = file[f].pipe
                           /\ file'[f].writable = file[f].writable
      BY <1>0, <2>1, <2>3 DEF TypeOK, Entry
    <3> QED BY <2>2, <2>3, <3>1, EndsKept
  <2>4. CASE /\ file' = [file EXCEPT ![g] = Closed]
             /\ cur' = [cur EXCEPT ![p] = IF file[g].type = "pipe" THEN file[g] ELSE None]
    <3>1. ASSUME NEW f \in Files, NEW j, NEW w
          PROVE  IsEnd(f, j, w)' <=> IsEnd(f, j, w) /\ f # g
      BY <1>0, <2>1, <2>4 DEF IsEnd, Closed, TypeOK
    <3>2. ASSUME NEW q \in Procs, NEW j, NEW w
          PROVE  Closes(q, j, w)' <=> Closes(q, j, w) \/ (q = p /\ IsEnd(g, j, w))
      <4>1. file[g] # None \/ file[g].type # "pipe"
        <5>1. file[g].type = "pipe" => file[g] \in OpenEnd
          BY <1>0, <2>1 DEF TypeOK, FilesOK, Entry, OpenEnd
        <5> QED BY <5>1
      <4>2. CASE q = p
        <5>1. cur'[p] = IF file[g].type = "pipe" THEN file[g] ELSE None
          BY <1>0, <2>4 DEF TypeOK
        <5> QED BY <2>1, <2>2, <4>1, <4>2, <5>1 DEF IsEnd, Closes
      <4>3. CASE q # p
        BY <1>0, <2>2, <2>4, <4>3 DEF Closes, TypeOK
      <4> QED BY <4>2, <4>3
    <3>3. EndsUnique'
      BY <2>1, <3>1, <3>2 DEF PipeInv, EndsUnique
    <3>4. ASSUME NEW j \in Pipes
          PROVE  /\ pipe'[j] # None =>
                    /\ pipe'[j].readopen <=> \/ \E f \in Files : IsEnd(f, j, FALSE)'
                                             \/ \E q \in Procs : Closes(q, j, FALSE)'
                    /\ pipe'[j].writeopen <=> \/ \E f \in Files : IsEnd(f, j, TRUE)'
                                              \/ \E q \in Procs : Closes(q, j, TRUE)'
                    /\ pipe'[j].readopen \/ pipe'[j].writeopen
                 /\ pipe'[j] = None =>
                    /\ \A f \in Files : ~IsEnd(f, j, FALSE)' /\ ~IsEnd(f, j, TRUE)'
                    /\ \A q \in Procs : ~Closes(q, j, FALSE)' /\ ~Closes(q, j, TRUE)'
      <4>1. /\ (\/ \E f \in Files : IsEnd(f, j, FALSE)'
                \/ \E q \in Procs : Closes(q, j, FALSE)')
               <=> (\/ \E f \in Files : IsEnd(f, j, FALSE)
                    \/ \E q \in Procs : Closes(q, j, FALSE))
            /\ (\/ \E f \in Files : IsEnd(f, j, TRUE)'
                \/ \E q \in Procs : Closes(q, j, TRUE)')
               <=> (\/ \E f \in Files : IsEnd(f, j, TRUE)
                    \/ \E q \in Procs : Closes(q, j, TRUE))
        BY <2>1, <3>1, <3>2
      <4> QED BY <1>0, <2>2, <4>1, EndsAre
    <3>5. EndsOpen'
      BY <3>4, EndsNext
    <3> QED BY <3>3, <3>5
  <2> QED BY <2>2, <2>3, <2>4
<1>3. CASE Pipeclose(p)
  <2>0. /\ cur[p] \in OpenEnd /\ cur[p].pipe \in Live /\ pipe[cur[p].pipe] \in Page
        /\ pc[p] \in {"closing", "exit"} /\ cur[p] # None
    BY <1>3, CloserEnd DEF Pipeclose
  <2> PICK k \in Pipes, w \in BOOLEAN : k = cur[p].pipe /\ w = cur[p].writable
    BY <2>0 DEF OpenEnd
  <2>1. /\ pipe[k] \in Page /\ pipe[k] # None
        /\ pc[p] \in {"closing", "exit"} /\ cur[p] # None
    BY <2>0 DEF Live
  <2>2. Closes(p, k, w)
    BY <2>1 DEF Closes
  <2>3. /\ file' = file
        /\ pipe' = IF w THEN [pipe EXCEPT ![k] = AfterClose([@ EXCEPT !.writeopen = FALSE])]
                        ELSE [pipe EXCEPT ![k] = AfterClose([@ EXCEPT !.readopen = FALSE])]
        /\ cur'[p] = None /\ \A q \in Procs : q # p => cur'[q] = cur[q]
        /\ \A q \in Procs : pc'[q] \in {"closing", "exit"} <=> pc[q] \in {"closing", "exit"}
    BY <1>0, <1>3 DEF Pipeclose, ReadersWoken, WritersWoken, TypeOK
  <2>4. ASSUME NEW q \in Procs, NEW j, NEW v
        PROVE  Closes(q, j, v)' <=> Closes(q, j, v) /\ q # p
    BY <2>3 DEF Closes
  <2>5. \A f \in Files : \A j, v : IsEnd(f, j, v)' <=> IsEnd(f, j, v)
    BY <2>3 DEF IsEnd
  <2>6. EndsUnique'
    BY <2>4, <2>5 DEF PipeInv, EndsUnique
  <2>7. /\ \A f \in Files : ~IsEnd(f, k, w)'
        /\ \A q \in Procs : ~Closes(q, k, w)'
    <3>1. /\ \A q, r \in Procs : Closes(q, k, w) /\ Closes(r, k, w) => q = r
          /\ \A f \in Files, q \in Procs : ~(IsEnd(f, k, w) /\ Closes(q, k, w))
      BY <2>1 DEF PipeInv, EndsUnique
    <3> QED BY <2>2, <2>4, <2>5, <3>1
  <2>8. \A j, v : ~(j = k /\ v = w) => ~Closes(p, j, v)
    BY DEF Closes
  <2>9. ASSUME NEW j \in Pipes
        PROVE  /\ pipe'[j] # None =>
                    /\ pipe'[j].readopen <=> \/ \E f \in Files : IsEnd(f, j, FALSE)'
                                             \/ \E q \in Procs : Closes(q, j, FALSE)'
                    /\ pipe'[j].writeopen <=> \/ \E f \in Files : IsEnd(f, j, TRUE)'
                                              \/ \E q \in Procs : Closes(q, j, TRUE)'
                    /\ pipe'[j].readopen \/ pipe'[j].writeopen
               /\ pipe'[j] = None =>
                    /\ \A f \in Files : ~IsEnd(f, j, FALSE)' /\ ~IsEnd(f, j, TRUE)'
                    /\ \A q \in Procs : ~Closes(q, j, FALSE)' /\ ~Closes(q, j, TRUE)'
    <3>1. CASE j # k
      <4>1. pipe'[j] = pipe[j]
        BY <1>0, <2>3, <3>1 DEF TypeOK
      <4>2. \A q \in Procs : /\ Closes(q, j, FALSE)' <=> Closes(q, j, FALSE)
                             /\ Closes(q, j, TRUE)' <=> Closes(q, j, TRUE)
        BY <2>4, <2>8, <3>1
      <4> QED BY <1>0, <2>5, <4>1, <4>2, EndsAre
    <3>2. CASE j = k /\ w
      <4>1. pipe'[k] = IF pipe[k].readopen THEN [pipe[k] EXCEPT !.writeopen = FALSE] ELSE None
        BY <1>0, <2>1, <2>3, <3>2 DEF TypeOK, AfterClose, Page
      <4>2. /\ \A q \in Procs : Closes(q, k, FALSE)' <=> Closes(q, k, FALSE)
            /\ \A q \in Procs : ~Closes(q, k, TRUE)'
            /\ \A f \in Files : ~IsEnd(f, k, TRUE)'
        <5>1. w = TRUE
          BY <3>2
        <5>2. ~Closes(p, k, FALSE)
          BY <2>8, <5>1
        <5> QED BY <2>4, <2>7, <5>1, <5>2
      <4>3. pipe'[k] # None => ~pipe'[k].writeopen /\ pipe'[k].readopen
        BY <2>1, <4>1 DEF Page
      <4>4. pipe[k].readopen <=> \/ \E f \in Files : IsEnd(f, k, FALSE)
                                 \/ \E q \in Procs : Closes(q, k, FALSE)
        BY <1>0, <2>1, EndsAre
      <4>5. pipe'[k] = None <=> ~pipe[k].readopen
        <5>1. [pipe[k] EXCEPT !.writeopen = FALSE] \in Page
          BY <2>1 DEF Page
        <5> QED BY <4>1, <5>1
      <4> QED BY <2>5, <3>2, <4>2, <4>3, <4>4, <4>5
    <3>3. CASE j = k /\ ~w
      <4>1. pipe'[k] = IF pipe[k].writeopen THEN [pipe[k] EXCEPT !.readopen = FALSE] ELSE None
        BY <1>0, <2>1, <2>3, <3>3 DEF TypeOK, AfterClose, Page
      <4>2. /\ \A q \in Procs : Closes(q, k, TRUE)' <=> Closes(q, k, TRUE)
            /\ \A q \in Procs : ~Closes(q, k, FALSE)'
            /\ \A f \in Files : ~IsEnd(f, k, FALSE)'
        <5>1. w = FALSE
          BY <3>3
        <5>2. ~Closes(p, k, TRUE)
          BY <2>8, <5>1
        <5> QED BY <2>4, <2>7, <5>1, <5>2
      <4>3. pipe'[k] # None => ~pipe'[k].readopen /\ pipe'[k].writeopen
        BY <2>1, <4>1 DEF Page
      <4>4. pipe[k].writeopen <=> \/ \E f \in Files : IsEnd(f, k, TRUE)
                                  \/ \E q \in Procs : Closes(q, k, TRUE)
        BY <1>0, <2>1, EndsAre
      <4>5. pipe'[k] = None <=> ~pipe[k].writeopen
        <5>1. [pipe[k] EXCEPT !.readopen = FALSE] \in Page
          BY <2>1 DEF Page
        <5> QED BY <4>1, <5>1
      <4> QED BY <2>5, <3>3, <4>2, <4>3, <4>4, <4>5
    <3> QED BY <3>1, <3>2, <3>3
  <2>10. EndsOpen'
    BY <2>9, EndsNext
  <2> QED BY <2>6, <2>10
<1> QED BY <1>1, <1>2, <1>3 DEF FdStep

LEMMA EndsProc ==
    ASSUME PipeInv, TypeOK', FilesOK', NEW p \in Procs, ProcStep(p)
    PROVE  EndsOpen' /\ EndsUnique'
<1>0. TypeOK /\ PhasesOK
  BY DEF PipeInv
<1>1. \A f \in Files : /\ file'[f].type = file[f].type /\ file'[f].pipe = file[f].pipe
                       /\ file'[f].writable = file[f].writable
  <2>1. CASE file' = file
    BY <2>1
  <2>2. CASE ForkFile(p)
    <3>1. file' = Filedup(ofile[p][Least(Uncopied(p))])
      BY <2>2 DEF ForkFile, ForkDup
    <3> QED BY <1>0, <3>1 DEF Filedup, TypeOK, Entry
  <2> QED BY <2>1, <2>2 DEF ProcStep, Fork, ForkReady, Exit, ExitFile, Exited
<1>2. cur' = cur /\ pipe' = pipe
  BY DEF ProcStep, Fork, ForkFile, ForkReady, Exit, ExitFile, Exited, calls
<1>3. ASSUME NEW q \in Procs
      PROVE  \/ pc[q] = pc'[q] /\ cur[q] = cur'[q]
             \/ /\ cur[q] = None \/ pc[q] \notin {"closing", "exit"}
                /\ cur'[q] = None \/ pc'[q] \notin {"closing", "exit"}
  <2>1. CASE Fork(p) \/ ForkReady(p)
    <3>1. CASE Fork(p)
      <4>1. pc'[q] = pc[q] \/ pc[q] \in {"unused", "user"}
        BY <1>0, <3>1 DEF Fork, Running, TypeOK
      <4> QED BY <1>0, <1>2, <4>1 DEF PhasesOK
    <3>2. CASE ForkReady(p)
      <4>1. pc[p] = "fork" /\ child[p] \in Procs /\ pc[child[p]] = "embryo"
        BY <1>0, <3>2 DEF ForkReady, PhasesOK
      <4>2. pc'[q] = pc[q] \/ q = p \/ q = child[p]
        BY <1>0, <3>2 DEF ForkReady, TypeOK
      <4> QED BY <1>0, <1>2, <4>1, <4>2 DEF PhasesOK
    <3> QED BY <2>1, <3>1, <3>2
  <2>2. CASE Exit(p) \/ Exited(p)
    <3>1. (q # p => pc'[q] = pc[q]) /\ cur[p] = None
      BY <1>0, <2>2 DEF Exit, Exited, Goto, TypeOK, PhasesOK
    <3> QED BY <1>2, <3>1
  <2>3. CASE ForkFile(p) \/ ExitFile(p)
    BY <1>2, <2>3 DEF ForkFile, ExitFile
  <2> QED BY <2>1, <2>2, <2>3 DEF ProcStep
<1> QED BY <1>1, <1>2, <1>3, EndsKept

LEMMA EndsIo ==
    ASSUME PipeInv, TypeOK', FilesOK', NEW p \in Procs, IoStep(p) \/ Kill(p)
    PROVE  EndsOpen' /\ EndsUnique'
<1>0. TypeOK /\ PhasesOK
  BY DEF PipeInv
<1>1. file' = file
  BY DEF IoStep, ReadCall, WriteCall, Call, PipereadEmpty, Piperead, Pipewrite, Sleep, Kill
<1>2. ASSUME NEW q \in Procs
      PROVE  \/ pc[q] = pc'[q] /\ cur[q] = cur'[q]
             \/ /\ cur[q] = None \/ pc[q] \notin {"closing", "exit"}
                /\ cur'[q] = None \/ pc'[q] \notin {"closing", "exit"}
  <2>1. CASE q = p
    BY <2>1, IoMoves DEF Readers, Writers
  <2>2. CASE q # p
    BY <2>2, IoMoves DEF Woken
  <2> QED BY <2>1, <2>2
<1>3. ASSUME NEW k \in Pipes
      PROVE  /\ pipe'[k] = None <=> pipe[k] = None
             /\ pipe[k] # None => /\ pipe'[k].readopen = pipe[k].readopen
                                  /\ pipe'[k].writeopen = pipe[k].writeopen
  <2>1. CASE Piperead(p)
    <3>1. PICK j \in Live, q \in Page, n \in Nat :
             /\ q = pipe[j] /\ pipe'[j] \in Page
             /\ pipe' = [pipe EXCEPT ![j] = [q EXCEPT !.nread = (@ + n) % Counts]]
      BY <2>1, PipereadIs
    <3>2. CASE k = j
      <4>1. pipe'[j] = [q EXCEPT !.nread = (@ + n) % Counts]
        BY <1>0, <3>1 DEF TypeOK, Live
      <4>2. pipe'[j].readopen = q.readopen /\ pipe'[j].writeopen = q.writeopen
        BY <4>1 DEF Page
      <4> QED BY <3>1, <3>2, <4>2
    <3>3. CASE k # j
      BY <1>0, <3>1, <3>3 DEF TypeOK
    <3> QED BY <3>2, <3>3
  <2>2. CASE Pipewrite(p)
    <3>0. PICK j \in Live, q \in Page, n \in Nat : \E s \in [1 .. n -> Bytes] :
             PageWritten(p, j, q, n, s)
      BY <2>2, PipewriteIs, Zenon
    <3>1. /\ q = pipe[j] /\ pipe'[j] \in Page
          /\ pipe' = [pipe EXCEPT ![j] = pipe'[j]]
          /\ pipe'[j].readopen = q.readopen /\ pipe'[j].writeopen = q.writeopen
      BY <3>0, Zenon DEF PageWritten
    <3>2. CASE k = j
      BY <3>1, <3>2
    <3>3. CASE k # j
      BY <1>0, <3>1, <3>3 DEF TypeOK
    <3> QED BY <3>2, <3>3
  <2>3. CASE pipe' = pipe
    BY <2>3
  <2> QED BY <2>1, <2>2, <2>3 DEF IoStep, ReadCall, WriteCall, Call, PipereadEmpty, Sleep, Kill
<1> QED BY <1>1, <1>2, <1>3, EndsKept

LEMMA EndsStep ==
    ASSUME PipeInv, [Next]_vars
    PROVE  EndsOpen' /\ EndsUnique'
<1>1. TypeOK' /\ FilesOK'
  BY TypeStep, FilesStep
<1>2. CASE UNCHANGED vars
  BY <1>1, <1>2, EndsKept DEF vars, calls
<1>3. CASE Next
  BY <1>1, <1>3, EndsPipe, EndsFd, EndsProc, EndsIo DEF Next
<1> QED BY <1>2, <1>3

-----------------------------------------------------------------------------
(* The descriptors of those who read and write.                            *)
LEMMA CallersKept ==
    ASSUME PipeInv,
           \A q \in Procs : pc'[q] \in Readers \cup Writers =>
              /\ pc[q] \in Readers \cup Writers /\ cur'[q] = cur[q]
              /\ \A d \in Fds : ofile[q][d] # None =>
                    /\ ofile'[q][d] = ofile[q][d]
                    /\ file'[ofile[q][d]].type = file[ofile[q][d]].type
                    /\ file'[ofile[q][d]].pipe = file[ofile[q][d]].pipe
                    /\ file'[ofile[q][d]].writable = file[ofile[q][d]].writable
    PROVE  CallersOK'
<1>1. ASSUME NEW q \in Procs, pc'[q] \in Readers \cup Writers
      PROVE  \E d \in Fds : /\ ofile'[q][d] # None /\ file'[ofile'[q][d]].type = "pipe"
                            /\ file'[ofile'[q][d]].pipe = cur'[q].pipe
                            /\ file'[ofile'[q][d]].writable = cur'[q].writable
  <2>1. pc[q] \in Readers \cup Writers /\ cur'[q] = cur[q]
    BY <1>1
  <2>2. PICK d \in Fds : ofile[q][d] # None /\ IsEnd(ofile[q][d], cur[q].pipe, cur[q].writable)
    BY <2>1 DEF PipeInv, CallersOK
  <2>3. /\ ofile'[q][d] = ofile[q][d]
        /\ file'[ofile[q][d]].type = file[ofile[q][d]].type
        /\ file'[ofile[q][d]].pipe = file[ofile[q][d]].pipe
        /\ file'[ofile[q][d]].writable = file[ofile[q][d]].writable
    BY <1>1, <2>2
  <2> QED BY <2>1, <2>2, <2>3 DEF IsEnd
<1>2. (Readers \cup Writers)' = Readers \cup Writers
  BY DEF Readers, Writers
<1> QED BY <1>1, <1>2 DEF CallersOK, IsEnd

LEMMA CallersPipe ==
    ASSUME PipeInv, NEW p \in Procs, PipeStep(p)
    PROVE  CallersOK'
<1>0. TypeOK
  BY DEF PipeInv
<1>1. \A q \in Procs : pc'[q] \in Readers \cup Writers =>
         q # p /\ pc[q] \in Readers \cup Writers /\ cur'[q] = cur[q]
  <2>1. \/ \E l \in {"pipealloc", "closing", "user"} : pc' = [pc EXCEPT ![p] = l]
        \/ pc' = pc /\ pc[p] = "pipealloc"
    BY DEF PipeStep, PipeStart, PipeSecond, PipeReady, PipeNoPage, Goto
  <2>2. cur' = cur
    BY DEF PipeStep, PipeStart, PipeSecond, PipeReady, PipeNoPage, calls
  <2> QED BY <1>0, <2>1, <2>2 DEF TypeOK, Readers, Writers
<1>2. CASE PipeStart(p) \/ PipeSecond(p) \/ PipeNoPage(p)
  <2>1. \A f \in Files : /\ file'[f].type = file[f].type /\ file'[f].pipe = file[f].pipe
                         /\ file'[f].writable = file[f].writable
    <3>1. CASE file' = file
      BY <3>1
    <3>2. CASE file' = Filealloc /\ FreeFiles # {}
      <4>1. Least(FreeFiles) \in Files
        BY <1>0, <3>2, FreeFile
      <4> QED BY <1>0, <3>2, <4>1 DEF Filealloc, TypeOK, Entry
    <3> QED BY <1>2, <3>1, <3>2 DEF PipeStart, PipeSecond, PipeNoPage
  <2>2. ofile' = ofile
    BY <1>2 DEF PipeStart, PipeSecond, PipeNoPage
  <2>3. \A q \in Procs, d \in Fds : ofile[q][d] # None => ofile[q][d] \in Files
    BY <1>0 DEF TypeOK
  <2> QED BY <1>1, <2>1, <2>2, <2>3, CallersKept
<1>3. CASE PipeReady(p)
  <2>1. pc[p] = "pipealloc" /\ 1 \in 1 .. Len(closing[p]) /\ 2 \in 1 .. Len(closing[p])
    BY <1>3 DEF PipeReady
  <2> PICK a \in Files, b \in Files : a = closing[p][1] /\ b = closing[p][2]
    BY <2>1, FreshFile
  <2>2. \A q \in Procs, d \in Fds : ofile[q][d] # a /\ ofile[q][d] # b
    BY <2>1, FreshFile
  <2>3. \A f \in Files : f # a /\ f # b => file'[f] = file[f]
    BY <1>0, <1>3 DEF PipeReady, TypeOK
  <2>4. \A q \in Procs : q # p => ofile'[q] = ofile[q]
    BY <1>0, <1>3 DEF PipeReady, TypeOK
  <2>5. \A q \in Procs, d \in Fds : ofile[q][d] # None => ofile[q][d] \in Files
    BY <1>0 DEF TypeOK
  <2> QED BY <1>1, <2>2, <2>3, <2>4, <2>5, CallersKept
<1> QED BY <1>2, <1>3 DEF PipeStep

LEMMA CallersFd ==
    ASSUME PipeInv, NEW p \in Procs, FdStep(p)
    PROVE  CallersOK'
<1>0. TypeOK /\ RefCounts
  BY DEF PipeInv
<1>1. ASSUME NEW q \in Procs, pc'[q] \in Readers \cup Writers
      PROVE  q # p /\ pc[q] \in Readers \cup Writers /\ cur'[q] = cur[q] /\ ofile'[q] = ofile[q]
  <2>1. pc[p] \notin Readers \cup Writers /\ pc'[p] \notin Readers \cup Writers
    BY <1>0 DEF FdStep, Dup, Close, Fileclose, CloseDone, Pipeclose, Running, Goto,
                Readers, Writers, ReadersWoken, WritersWoken, TypeOK
  <2>2. q # p => cur'[q] = cur[q] /\ ofile'[q] = ofile[q]
    BY <1>0 DEF FdStep, Dup, Close, Fileclose, CloseDone, Pipeclose, calls, TypeOK
  <2>3. q # p => pc[q] \in Readers \cup Writers
    BY <1>0, <1>1 DEF FdStep, Dup, Close, Fileclose, CloseDone, Pipeclose, Goto,
                Readers, Writers, ReadersWoken, WritersWoken, TypeOK
  <2> QED BY <1>1, <2>1, <2>2, <2>3
<1>2. ASSUME NEW q \in Procs, NEW d \in Fds, ofile[q][d] # None
      PROVE  /\ file'[ofile[q][d]].type = file[ofile[q][d]].type
             /\ file'[ofile[q][d]].pipe = file[ofile[q][d]].pipe
             /\ file'[ofile[q][d]].writable = file[ofile[q][d]].writable
  <2>1. ofile[q][d] \in Files
    BY <1>0, <1>2 DEF TypeOK
  <2>2. CASE file' = file
    BY <2>2
  <2>3. CASE Dup(p)
    <3>1. PICK e \in Fds \ FreeFds(p) : file' = Filedup(ofile[p][e])
      BY <2>3 DEF Dup
    <3> QED BY <1>0, <2>1, <3>1 DEF Filedup, TypeOK, Entry
  <2>4. CASE Fileclose(p)
    <3>1. PICK g \in Files : g = closing[p][1] /\ g = Head(closing[p]) /\ 1 <= Len(closing[p])
      BY <1>0, <2>4, HeadTailProperties, EmptySeq DEF Fileclose, TypeOK
    <3>2. /\ file[g].ref >= 1 /\ file[g].ref \in Nat
          /\ file[g].ref = 1 => ofile[q][d] # g
      BY <1>0, <3>1, Referred DEF TypeOK, Entry
    <3>3. CASE file[g].ref > 1
      <4>1. file' = [file EXCEPT ![g].ref = @ - 1]
        BY <2>4, <3>1, <3>3 DEF Fileclose
      <4> QED BY <1>0, <2>1, <4>1 DEF TypeOK, Entry
    <3>4. CASE ~(file[g].ref > 1)
      <4>1. file' = [file EXCEPT ![g] = Closed]
        BY <2>4, <3>1, <3>4 DEF Fileclose
      <4>2. ofile[q][d] # g
        BY <3>2, <3>4
      <4> QED BY <1>0, <2>1, <4>1, <4>2 DEF TypeOK
    <3> QED BY <3>3, <3>4
  <2> QED BY <2>2, <2>3, <2>4 DEF FdStep, Close, CloseDone, Pipeclose
<1> QED BY <1>1, <1>2, CallersKept

LEMMA CallersProc ==
    ASSUME PipeInv, NEW p \in Procs, ProcStep(p)
    PROVE  CallersOK'
<1>0. TypeOK /\ PhasesOK
  BY DEF PipeInv
<1>1. ASSUME NEW q \in Procs, pc'[q] \in Readers \cup Writers
      PROVE  pc[q] \in Readers \cup Writers /\ cur'[q] = cur[q] /\ ofile'[q] = ofile[q]
  <2>1. CASE ForkFile(p)
    <3>1. pc[child[p]] = "embryo" /\ pc' = pc /\ cur' = cur
      BY <1>0, <2>1 DEF ForkFile, PhasesOK, calls
    <3>2. q # child[p]
      BY <1>1, <3>1 DEF Readers, Writers
    <3> QED BY <1>0, <1>1, <2>1, <3>1, <3>2 DEF ForkFile, TypeOK
  <2>2. CASE Fork(p) \/ ForkReady(p)
    BY <1>0, <1>1, <2>2 DEF Fork, ForkReady, Readers, Writers, TypeOK
  <2>3. CASE Exit(p) \/ Exited(p) \/ ExitFile(p)
    BY <1>0, <1>1, <2>3 DEF Exit, Exited, ExitFile, Goto, calls, Readers, Writers, TypeOK
  <2> QED BY <2>1, <2>2, <2>3 DEF ProcStep
<1>2. ASSUME NEW f \in Files
      PROVE  /\ file'[f].type = file[f].type /\ file'[f].pipe = file[f].pipe
             /\ file'[f].writable = file[f].writable
  <2>1. CASE file' = file
    BY <2>1
  <2>2. CASE ForkFile(p)
    <3>1. file' = Filedup(ofile[p][Least(Uncopied(p))])
      BY <2>2 DEF ForkFile, ForkDup
    <3> QED BY <1>0, <3>1 DEF Filedup, TypeOK, Entry
  <2> QED BY <2>1, <2>2 DEF ProcStep, Fork, ForkReady, Exit, ExitFile, Exited
<1>3. \A q \in Procs, d \in Fds : ofile[q][d] # None => ofile[q][d] \in Files
  BY <1>0 DEF TypeOK
<1> QED BY <1>1, <1>2, <1>3, CallersKept

LEMMA CallersIo ==
    ASSUME PipeInv, NEW p \in Procs, IoStep(p) \/ Kill(p)
    PROVE  CallersOK'
<1>0. TypeOK /\ FilesOK
  BY DEF PipeInv
<1>1. file' = file /\ ofile' = ofile
  BY DEF IoStep, ReadCall, WriteCall, Call, PipereadEmpty, Piperead, Pipewrite, Sleep, Kill
<1>2. ASSUME NEW q \in Procs, pc'[q] \in Readers \cup Writers, q # p
      PROVE  pc[q] \in Readers \cup Writers /\ cur'[q] = cur[q]
  <2>1. cur'[q] = cur[q]
    BY <1>0, <1>2 DEF IoStep, ReadCall, WriteCall, Call, PipereadEmpty, Piperead, Pipewrite,
             Return, Sleep, Kill, calls, TypeOK
  <2>2. pc[q] \in Readers \cup Writers
    BY <1>0, <1>2 DEF IoStep, ReadCall, WriteCall, Call, PipereadEmpty, Piperead, Pipewrite,
             Sleep, Kill, Goto, TypeOK, ReadersWoken, WritersWoken, Readers, Writers
  <2> QED BY <2>1, <2>2
<1>3. ASSUME NEW w \in BOOLEAN, NEW l, Call(p, w, l)
      PROVE  CallersOK'
  <2>1. PICK d \in Fds \ FreeFds(p) :
          /\ file[ofile[p][d]].type = "pipe"
          /\ cur' = [cur EXCEPT ![p] = [file[ofile[p][d]] EXCEPT !.ref = 1]]
    BY <1>3 DEF Call
  <2>2. ofile[p][d] \in Files /\ ofile[p][d] # None
    BY <1>0 DEF TypeOK, FreeFds
  <2>3. cur'[p].pipe = file[ofile[p][d]].pipe /\ cur'[p].writable = file[ofile[p][d]].writable
    <3>1. cur'[p] = [file[ofile[p][d]] EXCEPT !.ref = 1]
      BY <1>0, <2>1 DEF TypeOK
    <3>2. \A e \in Entry : /\ [e EXCEPT !.ref = 1].writable = e.writable
                           /\ [e EXCEPT !.ref = 1].pipe = e.pipe
      BY DEF Entry
    <3>3. file[ofile[p][d]] \in Entry
      BY <1>0, <2>2 DEF TypeOK
    <3> QED BY <3>1, <3>2, <3>3
  <2>4. ASSUME NEW q \in Procs, pc'[q] \in Readers \cup Writers
        PROVE  \E e \in Fds : /\ ofile[q][e] # None /\ file[ofile[q][e]].type = "pipe"
                              /\ file[ofile[q][e]].pipe = cur'[q].pipe
                              /\ file[ofile[q][e]].writable = cur'[q].writable
    <3>1. CASE q = p
      BY <2>1, <2>2, <2>3, <3>1
    <3>2. CASE q # p
      BY <1>2, <2>4, <3>2 DEF PipeInv, CallersOK, IsEnd
    <3> QED BY <3>1, <3>2
  <2>5. (Readers \cup Writers)' = Readers \cup Writers
    BY DEF Readers, Writers
  <2> QED BY <1>1, <2>4, <2>5 DEF CallersOK, IsEnd
<1>4. CASE ~ReadCall(p) /\ ~WriteCall(p)
  <2>1. ASSUME pc'[p] \in Readers \cup Writers
        PROVE  pc[p] \in Readers \cup Writers /\ cur'[p] = cur[p]
    <3>1. pc'[p] # "user" /\ pc \in [Procs -> {"unused", "embryo", "user", "fork", "exit",
                            "pipealloc", "closing"} \cup Readers \cup Writers]
      BY <1>0, <2>1 DEF TypeOK, Readers, Writers
    <3>2. CASE PipereadEmpty(p)
      BY <3>1, <3>2 DEF PipereadEmpty, Goto, Readers
    <3>3. CASE Piperead(p)
      BY <3>1, <3>3 DEF Piperead, WritersWoken
    <3>4. CASE Pipewrite(p)
      BY <3>1, <3>4 DEF Pipewrite, ReadersWoken, Goto, Writers
    <3>5. CASE Sleep(p) \/ Kill(p)
      BY <3>1, <3>5 DEF Sleep, Kill, calls, Readers, Writers
    <3> QED BY <1>4, <3>2, <3>3, <3>4, <3>5 DEF IoStep
  <2> QED BY <1>1, <1>2, <2>1, CallersKept
<1> QED BY <1>3, <1>4 DEF ReadCall, WriteCall

LEMMA CallersStep == PipeInv /\ [Next]_vars => CallersOK'
<1> SUFFICES ASSUME PipeInv, [Next]_vars PROVE CallersOK'
  OBVIOUS
<1>1. CASE UNCHANGED vars
  BY <1>1, CallersKept DEF vars, calls
<1>2. CASE Next
  BY <1>2, CallersPipe, CallersFd, CallersProc, CallersIo DEF Next
<1> QED BY <1>1, <1>2

-----------------------------------------------------------------------------
(* What sleepers await.                                                    *)
LEMMA SleeperIs ==
    ASSUME PipeInv, NEW q \in Procs,
           pc[q] \in {"rsleep", "rsleeping", "wsleep", "wsleeping"}
    PROVE  /\ cur[q].pipe \in Pipes /\ pipe[cur[q].pipe] # None
           /\ pipe[cur[q].pipe] \in Page
           /\ pc[q] = "rsleeping" => /\ Used(pipe[cur[q].pipe]) = 0
                                     /\ pipe[cur[q].pipe].writeopen
           /\ pc[q] = "rsleep" => \/ pipe[cur[q].pipe].cut
                                  \/ /\ Used(pipe[cur[q].pipe]) = 0
                                     /\ pipe[cur[q].pipe].writeopen
           /\ pc[q] \in {"wsleep", "wsleeping"} =>
                /\ Used(pipe[cur[q].pipe]) = PIPESIZE /\ pipe[cur[q].pipe].readopen
           /\ pc[q] \in {"rsleep", "rsleeping"} =>
                ~cur[q].writable /\ pipe[cur[q].pipe].readopen
           /\ pc[q] \in {"wsleep", "wsleeping"} => cur[q].writable
           /\ cur[q].writable \in BOOLEAN
           /\ \E f \in Files : IsEnd(f, cur[q].pipe, cur[q].writable)
<1>1. pc[q] \in Readers \cup Writers
  BY DEF Readers, Writers
<1>2. /\ cur[q].pipe \in Live /\ pipe[cur[q].pipe] \in Page
      /\ cur[q].writable \in BOOLEAN
      /\ pc[q] \in Readers => ~cur[q].writable /\ pipe[cur[q].pipe].readopen
      /\ pc[q] \in Writers => cur[q].writable
  BY <1>1, CallerEnd DEF OpenEnd
<1>3. /\ pc[q] \in {"rsleep", "rsleeping"} => pc[q] \in Readers
      /\ pc[q] \in {"wsleep", "wsleeping"} => pc[q] \in Writers
  BY DEF Readers, Writers
<1>4. \E f \in Files : IsEnd(f, cur[q].pipe, cur[q].writable)
  <2>1. \A d \in Fds : ofile[q][d] # None => ofile[q][d] \in Files
    BY DEF PipeInv, TypeOK
  <2> QED BY <1>1, <2>1 DEF PipeInv, CallersOK
<1>5. AwaitOK /\ SleepersAwait
  BY DEF PipeInv
<1> QED BY <1>2, <1>3, <1>4, <1>5 DEF AwaitOK, SleepersAwait, Live

LEMMA AwaitNext ==
    ASSUME \A k \in Pipes : pipe'[k] # None => Used(pipe'[k]) <= PIPESIZE,
           \A q \in Procs :
              /\ pc'[q] = "rsleeping" => /\ Used(pipe'[cur'[q].pipe]) = 0
                                         /\ pipe'[cur'[q].pipe].writeopen
              /\ pc'[q] = "rsleep" => \/ pipe'[cur'[q].pipe].cut
                                      \/ /\ Used(pipe'[cur'[q].pipe]) = 0
                                         /\ pipe'[cur'[q].pipe].writeopen
              /\ pc'[q] \in {"wsleep", "wsleeping"} =>
                    Used(pipe'[cur'[q].pipe]) = PIPESIZE /\ pipe'[cur'[q].pipe].readopen
    PROVE  AwaitOK' /\ SleepersAwait'
<1>1. AwaitOK'
  BY DEF AwaitOK, Live
<1>2. SleepersAwait'
  BY DEF SleepersAwait
<1> QED BY <1>1, <1>2

(* A step that leaves every pipe alone, except that p may start to sleep.  *)
LEMMA AwaitKept ==
    ASSUME PipeInv, NEW p \in Procs, pipe' = pipe,
           \A q \in Procs : q # p /\ pc'[q] \in {"rsleep", "rsleeping", "wsleep", "wsleeping"}
              => pc'[q] = pc[q] /\ cur'[q] = cur[q],
           /\ pc'[p] = "rsleeping" => /\ Used(pipe[cur'[p].pipe]) = 0
                                      /\ pipe[cur'[p].pipe].writeopen
           /\ pc'[p] = "rsleep" => pc[p] \in {"rsleep", "rsleeping"} /\ cur'[p] = cur[p]
           /\ pc'[p] \in {"wsleep", "wsleeping"} =>
                 pc[p] \in {"wsleep", "wsleeping"} /\ cur'[p] = cur[p]
    PROVE  AwaitOK' /\ SleepersAwait'
<1>1. ASSUME NEW k \in Pipes, pipe'[k] # None PROVE Used(pipe'[k]) <= PIPESIZE
  BY <1>1 DEF PipeInv, AwaitOK, Live
<1>2. ASSUME NEW q \in Procs
      PROVE  /\ pc'[q] = "rsleeping" => /\ Used(pipe'[cur'[q].pipe]) = 0
                                         /\ pipe'[cur'[q].pipe].writeopen
             /\ pc'[q] = "rsleep" => \/ pipe'[cur'[q].pipe].cut
                                      \/ /\ Used(pipe'[cur'[q].pipe]) = 0
                                         /\ pipe'[cur'[q].pipe].writeopen
             /\ pc'[q] \in {"wsleep", "wsleeping"} =>
                    Used(pipe'[cur'[q].pipe]) = PIPESIZE /\ pipe'[cur'[q].pipe].readopen
  <2>1. CASE q = p
    BY <2>1, SleeperIs
  <2>2. CASE q # p
    BY <2>2, SleeperIs
  <2> QED BY <2>1, <2>2
<1> QED BY <1>1, <1>2, AwaitNext

LEMMA AwaitPipe ==
    ASSUME PipeInv, NEW p \in Procs, PipeStep(p)
    PROVE  AwaitOK' /\ SleepersAwait'
<1>0. TypeOK
  BY DEF PipeInv
<1>1. /\ \A q \in Procs : q # p => pc'[q] = pc[q] /\ cur'[q] = cur[q]
      /\ pc'[p] \notin {"rsleep", "rsleeping", "wsleep", "wsleeping"}
  BY <1>0 DEF PipeStep, PipeStart, PipeSecond, PipeReady, PipeNoPage, Goto, calls, TypeOK
<1>2. CASE PipeStart(p) \/ PipeSecond(p) \/ PipeNoPage(p)
  <2>1. pipe' = pipe
    BY <1>2 DEF PipeStart, PipeSecond, PipeNoPage
  <2> QED BY <1>1, <2>1, AwaitKept
<1>3. CASE PipeReady(p)
  <2>1. PICK k \in Pipes : pipe[k] = None /\ pipe' = [pipe EXCEPT ![k] = NewPipe]
    BY <1>3 DEF PipeReady
  <2>2. pipe'[k] = NewPipe /\ \A j \in Pipes : j # k => pipe'[j] = pipe[j]
    BY <1>0, <2>1 DEF TypeOK
  <2>3. Used(NewPipe) <= PIPESIZE
    <3>1. NewPipe \in Page /\ NewPipe.nread = NewPipe.nwrite
      BY RingAssumption DEF NewPipe, Page
    <3>2. Used(NewPipe) = 0
      BY <3>1, UsedIs
    <3> QED BY <3>2, RingAssumption
  <2>4. ASSUME NEW j \in Pipes, pipe'[j] # None PROVE Used(pipe'[j]) <= PIPESIZE
    <3>1. CASE j = k
      BY <2>2, <2>3, <3>1
    <3>2. CASE j # k
      BY <2>2, <2>4, <3>2 DEF PipeInv, AwaitOK, Live
    <3> QED BY <3>1, <3>2
  <2>5. ASSUME NEW q \in Procs, pc'[q] \in {"rsleep", "rsleeping", "wsleep", "wsleeping"}
        PROVE  pc'[q] = pc[q] /\ cur'[q] = cur[q] /\ pipe'[cur[q].pipe] = pipe[cur[q].pipe]
    <3>1. pc'[q] = pc[q] /\ cur'[q] = cur[q]
      BY <1>1, <2>5
    <3>2. cur[q].pipe \in Pipes /\ pipe[cur[q].pipe] # None
      BY <2>5, <3>1, SleeperIs
    <3> QED BY <2>1, <2>2, <3>1, <3>2
  <2>6. ASSUME NEW q \in Procs
        PROVE  /\ pc'[q] = "rsleeping" => /\ Used(pipe'[cur'[q].pipe]) = 0
                                         /\ pipe'[cur'[q].pipe].writeopen
               /\ pc'[q] = "rsleep" => \/ pipe'[cur'[q].pipe].cut
                                       \/ /\ Used(pipe'[cur'[q].pipe]) = 0
                                          /\ pipe'[cur'[q].pipe].writeopen
               /\ pc'[q] \in {"wsleep", "wsleeping"} =>
                    Used(pipe'[cur'[q].pipe]) = PIPESIZE /\ pipe'[cur'[q].pipe].readopen
    BY <2>5, SleeperIs
  <2> QED BY <2>4, <2>6, AwaitNext
<1> QED BY <1>2, <1>3 DEF PipeStep

LEMMA AwaitFd ==
    ASSUME PipeInv, NEW p \in Procs, FdStep(p)
    PROVE  AwaitOK' /\ SleepersAwait'
<1>0. TypeOK
  BY DEF PipeInv
<1>1. CASE ~Pipeclose(p)
  <2>1. pipe' = pipe
    BY <1>1 DEF FdStep, Dup, Close, Fileclose, CloseDone
  <2>2. /\ \A q \in Procs : q # p => pc'[q] = pc[q] /\ cur'[q] = cur[q]
        /\ pc'[p] \notin {"rsleep", "rsleeping", "wsleep", "wsleeping"}
    BY <1>0, <1>1 DEF FdStep, Dup, Close, Fileclose, CloseDone, Running, Goto, calls, TypeOK
  <2> QED BY <2>1, <2>2, AwaitKept
<1>2. CASE Pipeclose(p)
  <2>1. /\ cur[p] \in OpenEnd /\ cur[p].pipe \in Live /\ pipe[cur[p].pipe] \in Page
        /\ pc[p] \in {"closing", "exit"} /\ cur[p] # None
    BY <1>2, CloserEnd DEF Pipeclose
  <2> PICK k \in Pipes, w \in BOOLEAN : k = cur[p].pipe /\ w = cur[p].writable
    BY <2>1 DEF OpenEnd
  <2>2. ASSUME NEW q \in Procs, pc'[q] \in {"rsleep", "rsleeping", "wsleep", "wsleeping"}
        PROVE  pc'[q] = pc[q] /\ cur'[q] = cur[q] /\ cur[q].pipe # k
    <3>1. pc'[q] = pc[q] /\ q # p
      BY <1>0, <1>2, <2>1, <2>2 DEF Pipeclose, ReadersWoken, WritersWoken, TypeOK
    <3>2. cur'[q] = cur[q]
      BY <1>0, <1>2, <3>1 DEF Pipeclose, TypeOK
    <3>3. CASE cur[q].pipe = k
      <4>1. cur[q].writable # w
        <5>1. PICK f \in Files : IsEnd(f, cur[q].pipe, cur[q].writable)
          BY <2>2, <3>1, SleeperIs
        <5>2. Closes(p, k, w)
          BY <2>1 DEF Closes
        <5>3. ~IsEnd(f, k, w)
          BY <5>2 DEF PipeInv, EndsUnique
        <5> QED BY <3>3, <5>1, <5>3
      <4>2. pc[q] \in {"rsleep", "wsleep"}
        BY <1>2, <2>2, <3>1, <3>3 DEF Pipeclose, Locked
      <4>3. /\ pc[q] = "rsleep" => ~cur[q].writable
            /\ pc[q] = "wsleep" => cur[q].writable
            /\ cur[q].writable \in BOOLEAN
        BY <3>1, <2>2, SleeperIs
      <4>4. CASE w
        <5>1. pc' = ReadersWoken(k)
          BY <1>2, <4>4 DEF Pipeclose
        <5> QED BY <2>2, <3>1, <3>3, <4>1, <4>2, <4>3, <4>4, <5>1 DEF ReadersWoken
      <4>5. CASE ~w
        <5>1. pc' = WritersWoken(k)
          BY <1>2, <4>5 DEF Pipeclose
        <5> QED BY <2>2, <3>1, <3>3, <4>1, <4>2, <4>3, <4>5, <5>1 DEF WritersWoken
      <4> QED BY <4>4, <4>5
    <3> QED BY <3>1, <3>2, <3>3
  <2>3. /\ \A j \in Pipes : j # k => pipe'[j] = pipe[j]
        /\ pipe'[k] # None => Used(pipe'[k]) = Used(pipe[k])
    <3>1. /\ pipe' = [pipe EXCEPT ![k] = pipe'[k]]
          /\ \/ pipe'[k] = AfterClose([pipe[k] EXCEPT !.writeopen = FALSE])
             \/ pipe'[k] = AfterClose([pipe[k] EXCEPT !.readopen = FALSE])
      BY <1>0, <1>2 DEF Pipeclose, TypeOK
    <3>2. \A g \in Page : /\ Used([g EXCEPT !.writeopen = FALSE]) = Used(g)
                          /\ Used([g EXCEPT !.readopen = FALSE]) = Used(g)
      BY DEF Used, Page
    <3> QED BY <1>0, <2>1, <3>1, <3>2 DEF AfterClose, TypeOK
  <2>4. ASSUME NEW j \in Pipes, pipe'[j] # None PROVE Used(pipe'[j]) <= PIPESIZE
    <3>1. \A i \in Pipes : pipe[i] # None => Used(pipe[i]) <= PIPESIZE
      BY DEF PipeInv, AwaitOK, Live
    <3>2. pipe[k] # None
      BY <2>1 DEF Live
    <3> QED BY <2>3, <2>4, <3>1, <3>2
  <2>5. ASSUME NEW q \in Procs
        PROVE  /\ pc'[q] = "rsleeping" => /\ Used(pipe'[cur'[q].pipe]) = 0
                                          /\ pipe'[cur'[q].pipe].writeopen
               /\ pc'[q] = "rsleep" => \/ pipe'[cur'[q].pipe].cut
                                       \/ /\ Used(pipe'[cur'[q].pipe]) = 0
                                          /\ pipe'[cur'[q].pipe].writeopen
               /\ pc'[q] \in {"wsleep", "wsleeping"} =>
                     Used(pipe'[cur'[q].pipe]) = PIPESIZE /\ pipe'[cur'[q].pipe].readopen
    <3>1. ASSUME pc'[q] \in {"rsleep", "rsleeping", "wsleep", "wsleeping"}
          PROVE  /\ pc'[q] = pc[q] /\ cur'[q] = cur[q]
                 /\ pipe'[cur[q].pipe] = pipe[cur[q].pipe]
      <4>1. pc'[q] = pc[q] /\ cur'[q] = cur[q] /\ cur[q].pipe # k
        BY <2>2, <3>1
      <4>2. cur[q].pipe \in Pipes
        BY <3>1, <4>1, SleeperIs
      <4> QED BY <2>3, <4>1, <4>2
    <3> QED BY <3>1, SleeperIs
  <2> QED BY <2>4, <2>5, AwaitNext
<1> QED BY <1>1, <1>2

LEMMA AwaitProc ==
    ASSUME PipeInv, NEW p \in Procs, ProcStep(p)
    PROVE  AwaitOK' /\ SleepersAwait'
<1>0. TypeOK
  BY DEF PipeInv
<1>1. pipe' = pipe /\ cur' = cur
  BY DEF ProcStep, Fork, ForkFile, ForkReady, Exit, ExitFile, Exited, calls
<1>2. ASSUME NEW q \in Procs, pc'[q] \in {"rsleep", "rsleeping", "wsleep", "wsleeping"}
      PROVE  pc'[q] = pc[q] /\ q # p
  BY <1>0, <1>2 DEF ProcStep, Fork, ForkFile, ForkReady, Exit, ExitFile, Exited, Goto, Running, TypeOK
<1> QED BY <1>1, <1>2, AwaitKept

(* A write: who sleeps on that pipe afterwards, and why.                   *)
LEMMA AwaitWrite ==
    ASSUME PipeInv, NEW p \in Procs, Pipewrite(p)
    PROVE  AwaitOK' /\ SleepersAwait'
<1>0. TypeOK
  BY DEF PipeInv
<1>w. PICK k \in Live, g \in Page, n \in Nat : \E s \in [1 .. n -> Bytes] :
         PageWritten(p, k, g, n, s)
  BY PipewriteIs, Zenon
<1>1. /\ k = cur[p].pipe /\ g = pipe[k] /\ Used(g) + n <= PIPESIZE
      /\ pc[p] = "write" /\ cur[p] # None /\ ~Locked(k)
      /\ n = Lesser(left[p], PIPESIZE - Used(g))
      /\ pipe' = [pipe EXCEPT ![k] = pipe'[k]]
      /\ pipe'[k] \in Page /\ Used(pipe'[k]) = Used(g) + n
      /\ pipe'[k].readopen = g.readopen /\ pipe'[k].writeopen = g.writeopen
      /\ pipe'[k].cut = (n < left[p] /\ killed[p] /\ (g.cut \/ n > 0))
  BY <1>w, Zenon DEF PageWritten
<1>2. /\ Used(g) \in Nat /\ left[p] \in Nat /\ PIPESIZE \in Nat \ {0}
      /\ k \in Pipes /\ pipe[k] # None /\ \A j \in Pipes : j # k => pipe'[j] = pipe[j]
  BY <1>0, <1>1, UsedIs, RingAssumption DEF TypeOK, Live
<1>3. n < left[p] => Used(pipe'[k]) = PIPESIZE
  BY <1>1, <1>2 DEF Lesser
<1>4. ASSUME NEW j \in Pipes, pipe'[j] # None PROVE Used(pipe'[j]) <= PIPESIZE
  <2>1. CASE j = k
    BY <1>1, <2>1
  <2>2. CASE j # k
    BY <1>2, <1>4, <2>2 DEF PipeInv, AwaitOK, Live
  <2> QED BY <2>1, <2>2
<1>5. \/ pc' = [ReadersWoken(k) EXCEPT ![p] = "user"]
      \/ /\ n < left[p] /\ (~g.readopen \/ killed[p])
         /\ pc' = [pc EXCEPT ![p] = "user"]
      \/ /\ n < left[p] /\ g.readopen /\ cur' = cur
         /\ pc' = [ReadersWoken(k) EXCEPT ![p] = "wsleeping"]
  BY <1>1 DEF Pipewrite, Goto
<1>6. ASSUME NEW q \in Procs, q # p PROVE cur'[q] = cur[q]
  BY <1>0, <1>6 DEF Pipewrite, Return, TypeOK
<1>7. ASSUME NEW q \in Procs
      PROVE  /\ pc'[q] = "rsleeping" => /\ Used(pipe'[cur'[q].pipe]) = 0
                                        /\ pipe'[cur'[q].pipe].writeopen
             /\ pc'[q] = "rsleep" => \/ pipe'[cur'[q].pipe].cut
                                     \/ /\ Used(pipe'[cur'[q].pipe]) = 0
                                        /\ pipe'[cur'[q].pipe].writeopen
             /\ pc'[q] \in {"wsleep", "wsleeping"} =>
                   Used(pipe'[cur'[q].pipe]) = PIPESIZE /\ pipe'[cur'[q].pipe].readopen
  <2>1. CASE q = p
    <3>1. pc'[p] \in {"user", "wsleeping"}
      BY <1>0, <1>5 DEF TypeOK, ReadersWoken
    <3>2. pc'[p] = "wsleeping" => n < left[p] /\ g.readopen /\ cur' = cur
      BY <1>0, <1>5 DEF TypeOK, ReadersWoken
    <3> QED BY <1>1, <1>3, <2>1, <3>1, <3>2
  <2>2. CASE q # p
    <3>1. /\ pc'[q] \in {"rsleep", "rsleeping", "wsleep", "wsleeping"} => pc'[q] = pc[q]
          /\ pc'[q] = "rsleep" /\ cur[q].pipe = k =>
               n < left[p] /\ (~g.readopen \/ killed[p])
      <4>1. CASE pc' = [pc EXCEPT ![p] = "user"] /\ n < left[p] /\ (~g.readopen \/ killed[p])
        BY <1>0, <2>2, <4>1 DEF TypeOK
      <4>2. CASE \E l : pc' = [ReadersWoken(k) EXCEPT ![p] = l]
        <5>1. pc'[q] = ReadersWoken(k)[q]
          BY <2>2, <4>2 DEF ReadersWoken
        <5>2. ReadersWoken(k)[q] = IF pc[q] = "rsleep" /\ cur[q].pipe = k THEN "read" ELSE pc[q]
          BY DEF ReadersWoken
        <5> QED BY <5>1, <5>2
      <4> QED BY <1>5, <4>1, <4>2
    <3>2. cur'[q] = cur[q]
      BY <1>6, <2>2
    <3>3. CASE pc'[q] \in {"rsleep", "rsleeping", "wsleep", "wsleeping"} /\ cur[q].pipe = k
      <4>1. pc[q] \in {"rsleep", "wsleep"} /\ pc'[q] = pc[q]
        BY <1>1, <3>1, <3>3 DEF Locked
      <4>2. CASE pc[q] = "rsleep"
        <5>0. cur[q].pipe = k /\ pipe[cur[q].pipe] = g
          BY <1>1, <3>3
        <5>1. n < left[p] /\ killed[p]
          <6>1. g.readopen
            BY <4>1, <4>2, <5>0, SleeperIs
          <6> QED BY <3>1, <4>1, <4>2, <5>0, <6>1
        <5>2. g.cut \/ Used(g) = 0
          BY <4>1, <4>2, <5>0, SleeperIs
        <5>3. g.cut \/ n > 0
          BY <1>1, <1>2, <1>3, <5>1, <5>2
        <5> QED BY <1>1, <3>2, <3>3, <4>1, <4>2, <5>1, <5>3
      <4>3. CASE pc[q] = "wsleep"
        <5>0. cur[q].pipe = k /\ pipe[cur[q].pipe] = g
          BY <1>1, <3>3
        <5>1. Used(g) = PIPESIZE /\ g.readopen
          BY <4>1, <4>3, <5>0, SleeperIs
        <5>2. Used(pipe'[k]) = PIPESIZE
          BY <1>1, <1>2, <5>1
        <5>3. pipe'[cur'[q].pipe] = pipe'[k] /\ pipe'[k].readopen
          BY <1>1, <3>2, <5>0, <5>1
        <5> QED BY <4>1, <4>3, <5>2, <5>3
      <4> QED BY <4>1, <4>2, <4>3
    <3>4. CASE pc'[q] \in {"rsleep", "rsleeping", "wsleep", "wsleeping"} /\ cur[q].pipe # k
      <4>1. pc'[q] = pc[q] /\ cur[q].pipe \in Pipes
        BY <3>1, <3>4, SleeperIs
      <4>2. pipe'[cur'[q].pipe] = pipe[cur[q].pipe]
        BY <1>2, <3>2, <3>4, <4>1
      <4> QED BY <3>2, <3>4, <4>1, <4>2, SleeperIs
    <3> QED BY <3>3, <3>4
  <2> QED BY <2>1, <2>2
<1> QED BY <1>4, <1>7, AwaitNext

LEMMA AwaitRead ==
    ASSUME PipeInv, NEW p \in Procs, Piperead(p)
    PROVE  AwaitOK' /\ SleepersAwait'
<1>0. TypeOK
  BY DEF PipeInv
<1>1. PICK k \in Live, g \in Page, n \in Nat :
         /\ k = cur[p].pipe /\ g = pipe[k] /\ n <= Used(g)
         /\ pc[p] = "read" /\ cur[p] # None /\ ~Locked(k)
         /\ Used(g) # 0 \/ ~g.writeopen
         /\ pipe' = [pipe EXCEPT ![k] = [g EXCEPT !.nread = (@ + n) % Counts]]
         /\ pipe'[k] \in Page /\ Used(pipe'[k]) = Used(g) - n
  BY PipereadIs
<1>2. /\ Used(g) \in Nat /\ PIPESIZE \in Nat
      /\ k \in Pipes /\ pipe[k] # None /\ \A j \in Pipes : j # k => pipe'[j] = pipe[j]
  BY <1>0, <1>1, UsedIs, RingAssumption DEF TypeOK, Live
<1>3. pipe'[k].cut = g.cut
  <2>1. pipe'[k] = [g EXCEPT !.nread = (@ + n) % Counts]
    BY <1>0, <1>1, <1>2 DEF TypeOK
  <2> QED BY <2>1 DEF Page
<1>4. ASSUME NEW j \in Pipes, pipe'[j] # None PROVE Used(pipe'[j]) <= PIPESIZE
  <2>1. \A i \in Pipes : pipe[i] # None => Used(pipe[i]) <= PIPESIZE
    BY DEF PipeInv, AwaitOK, Live
  <2> QED BY <1>1, <1>2, <1>4, <2>1
<1>5. pc' = [WritersWoken(k) EXCEPT ![p] = "user"]
  BY <1>1 DEF Piperead
<1>6. ASSUME NEW q \in Procs
      PROVE  /\ pc'[q] = "rsleeping" => /\ Used(pipe'[cur'[q].pipe]) = 0
                                        /\ pipe'[cur'[q].pipe].writeopen
             /\ pc'[q] = "rsleep" => \/ pipe'[cur'[q].pipe].cut
                                     \/ /\ Used(pipe'[cur'[q].pipe]) = 0
                                        /\ pipe'[cur'[q].pipe].writeopen
             /\ pc'[q] \in {"wsleep", "wsleeping"} =>
                   Used(pipe'[cur'[q].pipe]) = PIPESIZE /\ pipe'[cur'[q].pipe].readopen
  <2>1. CASE q = p
    BY <1>0, <1>5, <2>1 DEF TypeOK, WritersWoken
  <2>2. CASE q # p
    <3>1. /\ pc'[q] \in {"rsleep", "rsleeping", "wsleep", "wsleeping"} => pc'[q] = pc[q]
          /\ pc'[q] = "wsleep" => cur[q].pipe # k
          /\ cur'[q] = cur[q]
      BY <1>0, <1>5, <2>2 DEF TypeOK, WritersWoken, Piperead, Return
    <3>2. CASE pc'[q] \in {"rsleep", "rsleeping", "wsleep", "wsleeping"} /\ cur[q].pipe = k
      <4>1. pc[q] = "rsleep" /\ pc'[q] = pc[q]
        BY <1>1, <3>1, <3>2 DEF Locked
      <4>2. g.cut
        BY <1>1, <3>2, <4>1, SleeperIs
      <4> QED BY <1>1, <1>3, <3>1, <3>2, <4>1, <4>2
    <3>3. CASE pc'[q] \in {"rsleep", "rsleeping", "wsleep", "wsleeping"} /\ cur[q].pipe # k
      <4>1. pc'[q] = pc[q] /\ cur[q].pipe \in Pipes
        BY <3>1, <3>3, SleeperIs
      <4>2. pipe'[cur'[q].pipe] = pipe[cur[q].pipe]
        BY <1>2, <3>1, <3>3, <4>1
      <4> QED BY <3>1, <3>3, <4>1, <4>2, SleeperIs
    <3> QED BY <3>2, <3>3
  <2> QED BY <2>1, <2>2
<1> QED BY <1>4, <1>6, AwaitNext

LEMMA AwaitIo ==
    ASSUME PipeInv, NEW p \in Procs, IoStep(p) \/ Kill(p)
    PROVE  AwaitOK' /\ SleepersAwait'
<1>0. TypeOK
  BY DEF PipeInv
<1>1. CASE ReadCall(p) \/ WriteCall(p)
  <2>1. /\ pipe' = pipe /\ pc'[p] \in {"read", "write"}
        /\ \A q \in Procs : q # p => pc'[q] = pc[q] /\ cur'[q] = cur[q]
    BY <1>0, <1>1 DEF ReadCall, WriteCall, Call, Goto, TypeOK
  <2> QED BY <2>1, AwaitKept
<1>2. CASE PipereadEmpty(p)
  <2>1. /\ pc[p] = "read" /\ pipe[cur[p].pipe] \in Page
        /\ pipe[cur[p].pipe].nread = pipe[cur[p].pipe].nwrite
        /\ pipe[cur[p].pipe].writeopen
    BY <1>2, CallerEnd DEF PipereadEmpty, Readers
  <2>2. Used(pipe[cur[p].pipe]) = 0
    BY <2>1, UsedIs
  <2>3. /\ pipe' = pipe
        /\ \/ pc'[p] = "user"
           \/ pc'[p] = "rsleeping" /\ cur' = cur
        /\ \A q \in Procs : q # p => pc'[q] = pc[q] /\ cur'[q] = cur[q]
    BY <1>0, <1>2 DEF PipereadEmpty, Goto, Return, TypeOK
  <2> QED BY <2>1, <2>2, <2>3, AwaitKept
<1>3. CASE Sleep(p)
  <2>1. /\ pipe' = pipe /\ cur' = cur
        /\ \/ pc[p] = "rsleeping" /\ pc'[p] = "rsleep"
           \/ pc[p] = "wsleeping" /\ pc'[p] = "wsleep"
        /\ \A q \in Procs : q # p => pc'[q] = pc[q]
    BY <1>0, <1>3 DEF Sleep, Goto, calls, TypeOK
  <2> QED BY <2>1, AwaitKept
<1>4. CASE Kill(p)
  <2>1. /\ pipe' = pipe /\ cur' = cur
        /\ pc'[p] = CASE pc[p] = "rsleep" -> "read" [] pc[p] = "wsleep" -> "write"
                      [] OTHER -> pc[p]
        /\ \A q \in Procs : q # p => pc'[q] = pc[q]
    BY <1>0, <1>4 DEF Kill, calls, TypeOK
  <2>2. CASE pc'[p] = pc[p] /\ pc[p] \notin {"rsleep", "wsleep"}
    <3>1. pc[p] = "rsleeping" => /\ Used(pipe[cur'[p].pipe]) = 0
                                 /\ pipe[cur'[p].pipe].writeopen
      BY <2>1, SleeperIs
    <3> QED BY <2>1, <2>2, <3>1, AwaitKept
  <2>3. CASE pc'[p] \in {"read", "write"}
    BY <2>1, <2>3, AwaitKept
  <2> QED BY <2>1, <2>2, <2>3
<1> QED BY <1>1, <1>2, <1>3, <1>4, AwaitRead, AwaitWrite DEF IoStep

LEMMA AwaitStep == PipeInv /\ [Next]_vars => AwaitOK' /\ SleepersAwait'
<1> SUFFICES ASSUME PipeInv, [Next]_vars PROVE AwaitOK' /\ SleepersAwait'
  OBVIOUS
<1>1. CASE UNCHANGED vars
  BY <1>1 DEF vars, calls, PipeInv, AwaitOK, SleepersAwait, Live
<1>2. CASE Next
  BY <1>2, AwaitPipe, AwaitFd, AwaitProc, AwaitIo DEF Next
<1> QED BY <1>1, <1>2

LEMMA InvInit == Init => PipeInv
<1> SUFFICES ASSUME Init PROVE PipeInv
  OBVIOUS
<1>1. TypeOK
  BY TypeInit
<1>2. PhasesOK /\ ForksOK
  BY DEF Init, PhasesOK, ForksOK, Readers, Writers
<1>3. FilesOK
  BY DEF Init, FilesOK, Closed, Console, Files
<1>4. EndsOpen /\ EndsUnique
  <2>1. \A f \in Files : file[f].type # "pipe"
    BY DEF Init, Closed, Console
  <2>2. \A p \in Procs : cur[p] = None
    BY DEF Init
  <2>3. \A k \in Pipes : pipe[k] = None
    BY DEF Init
  <2> QED BY <2>1, <2>2, <2>3 DEF EndsOpen, EndOpen, EndsUnique, IsEnd, Closes, Live
<1>5. CallersOK /\ AwaitOK /\ SleepersAwait
  <2>1. \A p \in Procs : pc[p] \in {"user", "unused"}
    BY DEF Init
  <2>2. Live = {}
    BY DEF Init, Live
  <2> QED BY <2>1, <2>2 DEF CallersOK, AwaitOK, SleepersAwait, Readers, Writers
<1>6. RefCounts
  <2>1. PICK p \in Procs : ofile = [q \in Procs |-> [d \in Fds |-> IF q = p /\ d = 1 THEN 1 ELSE None]]
    BY DEF Init
  <2>2. ASSUME NEW f \in Files
        PROVE  /\ Descs(ofile, f) = IF f = 1 THEN {<<p, 1>>} ELSE {}
               /\ Calls(closing, f) = {}
    <3>1. 1 \in Fds /\ f # None
      BY DEF Fds, Files
    <3>2. Descs(ofile, f) = IF f = 1 THEN {<<p, 1>>} ELSE {}
      BY <2>1, <3>1 DEF Descs
    <3>3. Calls(closing, f) = {}
      BY DEF Init, Calls
    <3> QED BY <3>2, <3>3
  <2>3. ASSUME NEW f \in Files PROVE file[f].ref = Refs(ofile, closing, f)
    <3>1. file[f].ref = IF f = 1 THEN 1 ELSE 0
      BY DEF Init, Console, Closed
    <3>2. /\ Cardinality({<<p, 1>>}) = 1 /\ Cardinality({}) = 0
      BY FS_Singleton, FS_EmptySet
    <3>3. Cardinality(Descs(ofile, f)) = (IF f = 1 THEN 1 ELSE 0) /\ Cardinality(Calls(closing, f)) = 0
      BY <2>2, <3>2
    <3> QED BY <3>1, <3>3 DEF Refs
  <2> QED BY <2>3, CountsAre
<1> QED BY <1>1, <1>2, <1>3, <1>4, <1>5, <1>6 DEF PipeInv

-----------------------------------------------------------------------------
(* Every part of the invariant holds in every state.                       *)
THEOREM Invariance == Spec => []PipeInv
<1>1. PipeInv /\ [Next]_vars => PipeInv'
  <2> SUFFICES ASSUME PipeInv, [Next]_vars PROVE PipeInv'
    OBVIOUS
  <2>1. TypeOK'
    BY TypeStep
  <2>2. RefCounts'
    BY <2>1, CountsStep
  <2>3. PhasesOK' /\ ForksOK' /\ FilesOK'
    BY PhasesStep, FilesStep
  <2>4. EndsOpen' /\ EndsUnique' /\ CallersOK' /\ AwaitOK' /\ SleepersAwait'
    BY EndsStep, CallersStep, AwaitStep
  <2> QED BY <2>1, <2>2, <2>3, <2>4 DEF PipeInv
<1> QED BY InvInit, <1>1, PTL DEF Spec

(* The count of each open file is the number of descriptors and of calls   *)
(* that refer to it (filealloc, filedup, fileclose in file.c).             *)
THEOREM FilesCounted == Spec => []RefCounts
<1>1. PipeInv => RefCounts
  BY DEF PipeInv
<1> QED BY Invariance, <1>1, PTL

(* readopen and writeopen (pipe.c) say which ends some file still holds or *)
(* is being closed, and a page is freed with the last of them.             *)
THEOREM Ends == Spec => []EndsOpen
<1>1. PipeInv => EndsOpen
  BY DEF PipeInv
<1> QED BY Invariance, <1>1, PTL

(* piperead() and pipewrite() sleep only as long as they must: no wakeup   *)
(* is lost, but for the one that a killed writer owes.                     *)
THEOREM NoLostWakeup == Spec => []SleepersAwait
<1>1. PipeInv => SleepersAwait
  BY DEF PipeInv
<1> QED BY Invariance, <1>1, PTL

(* Every variable keeps its type; a pipe's counters keep their width.      *)
THEOREM Types == Spec => []TypeOK
<1>1. PipeInv => TypeOK
  BY DEF PipeInv
<1> QED BY Invariance, <1>1, PTL
=============================================================================
