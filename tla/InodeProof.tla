----------------------------- MODULE InodeProof -----------------------------
(***************************************************************************)
(* Proofs about Inode, for any number of processes, inodes, entries of the *)
(* cache, blocks and names, and any calls.                                 *)
(***************************************************************************)
EXTENDS Inode, FiniteSetTheorems, SequenceTheorems, WellFoundedInduction, TLAPS

(* A set of numbers that is not empty has a least one: iget() finds the    *)
(* first entry, ialloc() and balloc() the first that is free.              *)
LEMMA LeastIn ==
    ASSUME NEW S \in SUBSET Nat, S # {}
    PROVE  Least(S) \in S
<1> DEFINE R == OpToRel(<, Nat)
<1>1. \E i \in S : \A j \in S : i <= j
  <2>1. PICK i \in S : \A j \in S : <<j, i>> \notin R
    BY NatLessThanWellFounded, WFMin
  <2>2. \A j \in S : ~(j < i)
    BY <2>1 DEF OpToRel
  <2> QED BY <2>2
<1> QED BY <1>1 DEF Least

-----------------------------------------------------------------------------
(* Counting references.                                                    *)
One(b) == IF b THEN 1 ELSE 0

LEMMA OneMoreIf ==
    ASSUME NEW S, IsFiniteSet(S), NEW T, NEW x, NEW b \in BOOLEAN, x \notin S,
           T = IF b THEN S \cup {x} ELSE S
    PROVE  IsFiniteSet(T) /\ Cardinality(T) = Cardinality(S) + One(b)
<1>1. Cardinality(S) \in Nat
  BY FS_CardinalityType
<1>2. CASE b
  BY <1>1, <1>2, FS_AddElement DEF One
<1>3. CASE ~b
  BY <1>1, <1>3 DEF One
<1> QED BY <1>2, <1>3

(* The fields of a vector of pointers v that are s. *)
FieldsAt(v, s) == {f \in Fields : v[f] = s}
CountAt(v, s)  == One(v["ofile"] = s) + One(v["at"] = s) + One(v["ip"] = s) + One(v["dp"] = s)
                  + One(v["unref"] = s) + One(v["last"] = s) + One(v["before"] = s)

LEMMA SevenFields ==
    ASSUME NEW v, NEW s
    PROVE  IsFiniteSet(FieldsAt(v, s)) /\ Cardinality(FieldsAt(v, s)) = CountAt(v, s)
<1> DEFINE A1 == IF v["ofile"] = s THEN {} \cup {"ofile"} ELSE {}
           A2 == IF v["at"] = s THEN A1 \cup {"at"} ELSE A1
           A3 == IF v["ip"] = s THEN A2 \cup {"ip"} ELSE A2
           A4 == IF v["dp"] = s THEN A3 \cup {"dp"} ELSE A3
           A5 == IF v["unref"] = s THEN A4 \cup {"unref"} ELSE A4
           A6 == IF v["last"] = s THEN A5 \cup {"last"} ELSE A5
           A7 == IF v["before"] = s THEN A6 \cup {"before"} ELSE A6
<1>0. IsFiniteSet({}) /\ Cardinality({}) = 0
  BY FS_EmptySet
<1>1. IsFiniteSet(A1) /\ Cardinality(A1) = 0 + One(v["ofile"] = s)
  BY <1>0, OneMoreIf, Zenon
<1>2. IsFiniteSet(A2) /\ Cardinality(A2) = Cardinality(A1) + One(v["at"] = s)
  <2>1. "at" \notin A1
    OBVIOUS
  <2> HIDE DEF A1
  <2> QED BY <1>1, <2>1, OneMoreIf, Zenon
<1>3. IsFiniteSet(A3) /\ Cardinality(A3) = Cardinality(A2) + One(v["ip"] = s)
  <2>1. "ip" \notin A2
    OBVIOUS
  <2> HIDE DEF A2
  <2> QED BY <1>2, <2>1, OneMoreIf, Zenon
<1>4. IsFiniteSet(A4) /\ Cardinality(A4) = Cardinality(A3) + One(v["dp"] = s)
  <2>1. "dp" \notin A3
    OBVIOUS
  <2> HIDE DEF A3
  <2> QED BY <1>3, <2>1, OneMoreIf, Zenon
<1>5. IsFiniteSet(A5) /\ Cardinality(A5) = Cardinality(A4) + One(v["unref"] = s)
  <2>1. "unref" \notin A4
    OBVIOUS
  <2> HIDE DEF A4
  <2> QED BY <1>4, <2>1, OneMoreIf, Zenon
<1>6. IsFiniteSet(A6) /\ Cardinality(A6) = Cardinality(A5) + One(v["last"] = s)
  <2>1. "last" \notin A5
    OBVIOUS
  <2> HIDE DEF A5
  <2> QED BY <1>5, <2>1, OneMoreIf, Zenon
<1>7. IsFiniteSet(A7) /\ Cardinality(A7) = Cardinality(A6) + One(v["before"] = s)
  <2>1. "before" \notin A6
    OBVIOUS
  <2> HIDE DEF A6
  <2> QED BY <1>6, <2>1, OneMoreIf, Zenon
<1>8. A7 = FieldsAt(v, s)
  BY DEF FieldsAt, Fields
<1> HIDE DEF A1, A2, A3, A4, A5, A6, A7
<1>9. Cardinality(A7) = 0 + One(v["ofile"] = s) + One(v["at"] = s) + One(v["ip"] = s)
        + One(v["dp"] = s) + One(v["unref"] = s) + One(v["last"] = s) + One(v["before"] = s)
  BY <1>1, <1>2, <1>3, <1>4, <1>5, <1>6, <1>7
<1> QED BY <1>7, <1>8, <1>9 DEF One, CountAt

(* The pointers of a process, one by one. *)
LastOf(q)   == IF q = <<>> THEN 0 ELSE q[Len(q)]
BeforeOf(q) == IF Len(q) = 2 THEN q[1] ELSE 0

LEMMA PointerIs ==
    ASSUME NEW p
    PROVE  /\ Pointer(p, "ofile") = ofile[p]
           /\ Pointer(p, "at") = loc[p].at /\ Pointer(p, "ip") = loc[p].ip
           /\ Pointer(p, "dp") = loc[p].dp /\ Pointer(p, "unref") = loc[p].unref
           /\ Pointer(p, "last") = LastOf(loc[p].puts)
           /\ Pointer(p, "before") = BeforeOf(loc[p].puts)
BY DEF Pointer, LastOf, BeforeOf

OwnRefs(o, r, s) == One(o = s) + One(r.at = s) + One(r.ip = s) + One(r.dp = s)
                    + One(r.unref = s) + One(LastOf(r.puts) = s) + One(BeforeOf(r.puts) = s)

(* All the pointers, as a function; what the other processes have, and     *)
(* what this one has.                                                      *)
AllPointers == [x \in Procs \X Fields |-> Pointer(x[1], x[2])]

PointersAt(F, s) == {x \in Procs \X Fields : F[x] = s}
Others(F, p, s)  == {x \in PointersAt(F, s) : x[1] # p}
Own(F, p)        == [f \in Fields |-> F[<<p, f>>]]

LEMMA PointersFinite == IsFiniteSet(Procs \X Fields)
<1>1. IsFiniteSet(Fields)
  <2>1. Fields = FieldsAt([g \in Fields |-> 0], 0)
    BY DEF FieldsAt
  <2> QED BY <2>1, SevenFields
<1> QED BY <1>1, InodeAssumption, FS_Product

LEMMA PointersSplit ==
    ASSUME NEW F, NEW p \in Procs, NEW s
    PROVE  /\ Cardinality(Others(F, p, s)) \in Nat
           /\ Cardinality(PointersAt(F, s))
                = Cardinality(Others(F, p, s)) + CountAt(Own(F, p), s)
<1> DEFINE S == FieldsAt(Own(F, p), s)
           M == {p} \X S
           O == Others(F, p, s)
<1>1. IsFiniteSet(O) /\ Cardinality(O) \in Nat
  <2>1. O \in SUBSET (Procs \X Fields)
    BY DEF Others, PointersAt
  <2> HIDE DEF O
  <2> QED BY <2>1, PointersFinite, FS_Subset, FS_CardinalityType
<1>2. IsFiniteSet(S) /\ Cardinality(S) = CountAt(Own(F, p), s)
  BY SevenFields
<1>3. IsFiniteSet(M) /\ Cardinality(M) = Cardinality(S) /\ Cardinality(S) \in Nat
  <2> HIDE DEF S
  <2>1. IsFiniteSet({p}) /\ Cardinality({p}) = 1
    BY FS_Singleton
  <2>2. Cardinality(S) \in Nat
    BY <1>2, FS_CardinalityType
  <2>3. IsFiniteSet(M) /\ Cardinality(M) = 1 * Cardinality(S)
    BY <1>2, <2>1, FS_Product
  <2> QED BY <2>2, <2>3
<1>4. PointersAt(F, s) = O \cup M /\ O \cap M = {}
  BY DEF Others, PointersAt, FieldsAt, Own
<1> HIDE DEF M, S, O
<1>5. Cardinality(O \cup M) = Cardinality(O) + Cardinality(M) - Cardinality(O \cap M)
  BY <1>1, <1>3, FS_Union
<1>6. Cardinality(O \cap M) = 0
  BY <1>4, FS_EmptySet
<1>7. Cardinality(O \cup M) = Cardinality(O) + Cardinality(S)
  BY <1>1, <1>3, <1>5, <1>6
<1> QED BY <1>1, <1>2, <1>4, <1>7 DEF O

(* The pointers that the process has now, and those after a step.         *)
LEMMA CountNow ==
    ASSUME NEW p \in Procs, NEW s
    PROVE  /\ Cardinality(Others(AllPointers, p, s)) \in Nat
           /\ Cardinality(Pointers(s))
                = Cardinality(Others(AllPointers, p, s)) + OwnRefs(ofile[p], loc[p], s)
<1> DEFINE v == Own(AllPointers, p)
<1>1. Pointers(s) = PointersAt(AllPointers, s)
  BY DEF Pointers, AllPointers, PointersAt
<1>2. \A f \in Fields : v[f] = Pointer(p, f)
  BY DEF Own, AllPointers
<1> HIDE DEF v
<1>3. CountAt(v, s) = OwnRefs(ofile[p], loc[p], s)
  <2>1. \A f \in {"ofile", "at", "ip", "dp", "unref", "last", "before"} : f \in Fields
    BY DEF Fields
  <2> QED BY <1>2, <2>1, PointerIs DEF CountAt, OwnRefs
<1> QED BY <1>1, <1>3, PointersSplit DEF v

LEMMA CountThen ==
    ASSUME NEW p \in Procs, NEW s
    PROVE  Cardinality(Pointers(s)')
                = Cardinality(Others(AllPointers', p, s)) + OwnRefs(ofile'[p], loc'[p], s)
<1> DEFINE v == Own(AllPointers', p)
<1>1. Pointers(s)' = PointersAt(AllPointers', s)
  BY DEF Pointers, AllPointers, PointersAt
<1>2. \A f \in Fields : v[f] = Pointer(p, f)'
  BY DEF Own, AllPointers
<1> HIDE DEF v
<1>3. CountAt(v, s) = OwnRefs(ofile'[p], loc'[p], s)
  <2>1. \A f \in {"ofile", "at", "ip", "dp", "unref", "last", "before"} : f \in Fields
    BY DEF Fields
  <2>2. /\ Pointer(p, "ofile")' = ofile'[p]
        /\ Pointer(p, "at")' = loc'[p].at /\ Pointer(p, "ip")' = loc'[p].ip
        /\ Pointer(p, "dp")' = loc'[p].dp /\ Pointer(p, "unref")' = loc'[p].unref
        /\ Pointer(p, "last")' = LastOf(loc'[p].puts)
        /\ Pointer(p, "before")' = BeforeOf(loc'[p].puts)
    BY DEF Pointer, LastOf, BeforeOf
  <2> QED BY <1>2, <2>1, <2>2 DEF CountAt, OwnRefs
<1> QED BY <1>1, <1>3, PointersSplit DEF v

(* Whoever has a pointer keeps the entry in use. *)
LEMMA Pinned ==
    ASSUME TypeOK, RefCounts, NEW p \in Procs, NEW f \in Fields, Pointer(p, f) # 0
    PROVE  Pointer(p, f) \in Slots /\ Used(Pointer(p, f))
<1> DEFINE s == Pointer(p, f)
<1>1. s \in Slots
  <2>1. /\ ofile[p] \in 0 .. NINODE /\ loc[p] \in LocType /\ Len(loc[p].puts) <= 2
    BY DEF TypeOK, RefCounts
  <2>2. LastOf(loc[p].puts) \in Slots \cup {0} /\ BeforeOf(loc[p].puts) \in Slots \cup {0}
    <3>1. loc[p].puts \in Seq(Slots)
      BY <2>1 DEF LocType
    <3> HIDE DEF Slots
    <3> QED BY <3>1, LenProperties, ElementOfSeq, EmptySeq DEF LastOf, BeforeOf
  <2>3. /\ loc[p].at \in 0 .. NINODE /\ loc[p].ip \in 0 .. NINODE /\ loc[p].dp \in 0 .. NINODE
        /\ loc[p].unref \in 0 .. NINODE
    BY <2>1 DEF LocType
  <2>4. 0 .. NINODE = Slots \cup {0}
    BY InodeAssumption DEF Slots
  <2>5. \/ s = ofile[p] \/ s = loc[p].at \/ s = loc[p].ip \/ s = loc[p].dp \/ s = loc[p].unref
        \/ s = LastOf(loc[p].puts) \/ s = BeforeOf(loc[p].puts)
    BY PointerIs DEF Fields
  <2> HIDE DEF s, Slots
  <2> QED BY <2>1, <2>2, <2>3, <2>4, <2>5 DEF s
<1>2. OwnRefs(ofile[p], loc[p], s) >= 1 /\ OwnRefs(ofile[p], loc[p], s) \in Nat
  <2>1. \/ ofile[p] = s \/ loc[p].at = s \/ loc[p].ip = s \/ loc[p].dp = s \/ loc[p].unref = s
        \/ LastOf(loc[p].puts) = s \/ BeforeOf(loc[p].puts) = s
    BY PointerIs DEF Fields
  <2> HIDE DEF s
  <2> QED BY <2>1 DEF OwnRefs, One
<1> HIDE DEF s
<1>3. Cardinality(Pointers(s)) >= 1 /\ Cardinality(Pointers(s)) \in Nat
  BY <1>2, CountNow
<1> QED BY <1>1, <1>3 DEF RefCounts, Used, s

(* When only p moves, the counts must follow what it does with pointers.   *)
LEMMA RefsStep ==
    ASSUME RefCounts, NEW p \in Procs,
           \A q \in Procs : q # p => ofile'[q] = ofile[q] /\ loc'[q] = loc[q],
           Len(loc'[p].puts) <= 2,
           \A s \in Slots : icache'[s].ref
               = icache[s].ref + OwnRefs(ofile'[p], loc'[p], s) - OwnRefs(ofile[p], loc[p], s)
    PROVE  RefCounts'
<1>1. ASSUME NEW s \in Slots
      PROVE  icache'[s].ref = Cardinality(Pointers(s)') + IF s = Cwd THEN 1 ELSE 0
  <2>1. Others(AllPointers', p, s) = Others(AllPointers, p, s)
    <3>1. \A q \in Procs, f \in Fields : q # p => Pointer(q, f)' = Pointer(q, f)
      BY DEF Pointer
    <3>2. \A x \in Procs \X Fields : x[1] # p => AllPointers'[x] = AllPointers[x]
      BY <3>1 DEF AllPointers
    <3> HIDE DEF AllPointers
    <3> QED BY <3>2 DEF Others, PointersAt
  <2>2. /\ Cardinality(Pointers(s))
             = Cardinality(Others(AllPointers, p, s)) + OwnRefs(ofile[p], loc[p], s)
        /\ Cardinality(Others(AllPointers, p, s)) \in Nat
    BY CountNow
  <2>3. Cardinality(Pointers(s)')
          = Cardinality(Others(AllPointers', p, s)) + OwnRefs(ofile'[p], loc'[p], s)
    BY CountThen
  <2>4. OwnRefs(ofile[p], loc[p], s) \in Nat /\ OwnRefs(ofile'[p], loc'[p], s) \in Nat
    BY DEF OwnRefs, One
  <2>5. icache[s].ref = Cardinality(Pointers(s)) + IF s = Cwd THEN 1 ELSE 0
    BY DEF RefCounts
  <2> QED BY <2>1, <2>2, <2>3, <2>4, <2>5
<1>2. \A q \in Procs : Len(loc'[q].puts) <= 2
  BY DEF RefCounts
<1> QED BY <1>1, <1>2 DEF RefCounts

-----------------------------------------------------------------------------
(* What the operations of the cache do, on a cache c that agrees with the  *)
(* inodes d on disk.                                                       *)
Good(c, d) ==
    /\ c \in CacheType /\ d \in DiskType
    /\ \A s, t \in Slots : c[s].ref > 0 /\ c[t].ref > 0 /\ c[s].inum = c[t].inum => s = t
    /\ \A s \in Slots : c[s].ref > 0 => c[s].inum \in Inums
    /\ \A s \in Slots : c[s].ref > 0 /\ c[s].valid =>
          Content(c[s]) = d[c[s].inum] /\ d[c[s].inum].type # "none"
    /\ c[Cwd].inum = ROOTINO /\ c[Cwd].ref > 0

(* A step of p from c to e leaves what others rely on. *)
Tame(c, e, p) == \A s \in Slots : c[s].ref > 0 =>
    /\ e[s].ref > 0 /\ e[s].inum = c[s].inum
    /\ c[s].valid => e[s].valid
    /\ \A q \in Procs : q # p /\ c[s].lock = q => e[s].lock = q

(* The same, of entries that may have lost their last reference. *)
Calm(c, e, p) == \A s \in Slots : c[s].ref > 0 =>
    /\ e[s].inum = c[s].inum
    /\ c[s].valid => e[s].valid
    /\ \A q \in Procs : q # p /\ c[s].lock = q => e[s].lock = q

LEMMA TameCalm ==
    ASSUME NEW c, NEW e, NEW p, Tame(c, e, p)
    PROVE  Calm(c, e, p)
BY DEF Tame, Calm

LEMMA TameTrans ==
    ASSUME NEW c, NEW d, NEW e, NEW p, Tame(c, d, p), Tame(d, e, p)
    PROVE  Tame(c, e, p)
BY DEF Tame

EntryType == [inum : 0 .. NINODES, ref : Nat, lock : Procs \cup {None},
              valid : BOOLEAN, type : Types \cup {"none"}, nlink : Nat, addr : 0 .. NBLOCKS]

LEMMA CwdIn == Cwd \in Slots /\ ROOTINO \in Inums
BY InodeAssumption DEF Cwd, Slots, ROOTINO, Inums

(* The fields of one entry change. *)
LEMMA EntryChange ==
    ASSUME NEW c \in CacheType, NEW s \in Slots, NEW r \in EntryType
    PROVE  LET e == [c EXCEPT ![s] = r] IN
           e \in CacheType /\ e[s] = r /\ \A t \in Slots : t # s => e[t] = c[t]
BY DEF CacheType, EntryType

LEMMA IlockIs ==
    ASSUME NEW c, NEW d, Good(c, d), d = dinode, NEW s \in Slots, c[s].ref > 0,
           d[c[s].inum].type # "none", NEW p \in Procs, c[s].lock = None
    PROVE  LET e == Ilock(c, s, p) IN
           /\ Good(e, d) /\ Tame(c, e, p)
           /\ \A t \in Slots : t # s => e[t] = c[t]
           /\ e[s].inum = c[s].inum /\ e[s].ref = c[s].ref /\ e[s].lock = p /\ e[s].valid
           /\ Content(e[s]) = d[c[s].inum]
<1> DEFINE D == d[c[s].inum]
           r == IF c[s].valid THEN [c[s] EXCEPT !.lock = p]
                ELSE [c[s] EXCEPT !.lock = p, !.valid = TRUE, !.type = D.type,
                                  !.nlink = D.nlink, !.addr = D.addr]
           e == [c EXCEPT ![s] = r]
<1>1. /\ c \in CacheType /\ c[s] \in EntryType /\ c[s].inum \in Inums
      /\ D \in [type : Types \cup {"none"}, nlink : Nat, addr : 0 .. NBLOCKS]
  BY DEF Good, CacheType, EntryType, DiskType
<1>2. Ilock(c, s, p) = e
  BY <1>1 DEF Ilock, CacheType
<1>3. /\ r \in EntryType /\ r.inum = c[s].inum /\ r.ref = c[s].ref /\ r.lock = p /\ r.valid = TRUE
      /\ Content(r) = D
  <2>1. CASE c[s].valid
    <3>1. Content(c[s]) = D
      BY <2>1 DEF Good
    <3> HIDE DEF D
    <3> QED BY <1>1, <2>1, <3>1 DEF EntryType, Content
  <2>2. CASE ~c[s].valid
    <3> HIDE DEF D
    <3>1. D = [type |-> D.type, nlink |-> D.nlink, addr |-> D.addr]
      BY <1>1
    <3>2. /\ r.type = D.type /\ r.nlink = D.nlink /\ r.addr = D.addr
          /\ r \in EntryType /\ r.inum = c[s].inum /\ r.ref = c[s].ref /\ r.lock = p /\ r.valid = TRUE
      BY <1>1, <2>2 DEF EntryType
    <3> HIDE DEF r
    <3> QED BY <3>1, <3>2 DEF Content
  <2> QED BY <2>1, <2>2
<1> HIDE DEF r
<1>4. e \in CacheType /\ e[s] = r /\ \A t \in Slots : t # s => e[t] = c[t]
  BY <1>1, <1>3, EntryChange
<1> HIDE DEF e, D
<1>5. \A t \in Slots : e[t].inum = c[t].inum /\ e[t].ref = c[t].ref
  BY <1>3, <1>4
<1>6. Good(e, d)
  <2>1. ASSUME NEW t \in Slots, e[t].ref > 0, e[t].valid
        PROVE  Content(e[t]) = d[e[t].inum] /\ d[e[t].inum].type # "none"
    <3>1. CASE t = s
      BY <1>3, <1>4, <3>1 DEF D
    <3>2. CASE t # s
      BY <1>4, <2>1, <3>2 DEF Good
    <3> QED BY <3>1, <3>2
  <2>2. \A t, u \in Slots : e[t].ref > 0 /\ e[u].ref > 0 /\ e[t].inum = e[u].inum => t = u
    BY <1>5 DEF Good
  <2> QED BY <1>4, <1>5, <2>1, <2>2, CwdIn DEF Good
<1>7. Tame(c, e, p)
  <2>1. ASSUME NEW t \in Slots PROVE /\ c[t].valid => e[t].valid
                                     /\ \A q \in Procs : q # p /\ c[t].lock = q => e[t].lock = q
    BY <1>3, <1>4, InodeAssumption
  <2> QED BY <1>5, <2>1 DEF Tame
<1> QED BY <1>2, <1>3, <1>4, <1>6, <1>7 DEF D

LEMMA IunlockIs ==
    ASSUME NEW c, NEW d, Good(c, d), NEW s \in Slots, NEW p \in Procs, c[s].lock \in {p, None}
    PROVE  LET e == Iunlock(c, s) IN
           /\ Good(e, d) /\ Tame(c, e, p)
           /\ \A t \in Slots : t # s => e[t] = c[t]
           /\ e[s].inum = c[s].inum /\ e[s].ref = c[s].ref /\ e[s].lock = None
           /\ e[s].valid = c[s].valid /\ Content(e[s]) = Content(c[s])
<1> DEFINE r == [c[s] EXCEPT !.lock = None]
           e == [c EXCEPT ![s] = r]
<1>1. c \in CacheType /\ c[s] \in EntryType
  BY DEF Good, CacheType, EntryType
<1>2. Iunlock(c, s) = e
  BY <1>1 DEF Iunlock, CacheType
<1>3. /\ r \in EntryType /\ r.inum = c[s].inum /\ r.ref = c[s].ref /\ r.lock = None
      /\ r.valid = c[s].valid /\ Content(r) = Content(c[s])
  BY <1>1 DEF EntryType, Content
<1> HIDE DEF r
<1>4. e \in CacheType /\ e[s] = r /\ \A t \in Slots : t # s => e[t] = c[t]
  BY <1>1, <1>3, EntryChange
<1> HIDE DEF e
<1>5. \A t \in Slots : /\ e[t].inum = c[t].inum /\ e[t].ref = c[t].ref
                       /\ e[t].valid = c[t].valid /\ Content(e[t]) = Content(c[t])
  BY <1>3, <1>4
<1>6. Good(e, d)
  <2>1. \A t \in Slots : e[t].ref > 0 /\ e[t].valid =>
           Content(e[t]) = d[e[t].inum] /\ d[e[t].inum].type # "none"
    BY <1>5 DEF Good
  <2>2. \A t, u \in Slots : e[t].ref > 0 /\ e[u].ref > 0 /\ e[t].inum = e[u].inum => t = u
    BY <1>5 DEF Good
  <2> QED BY <1>4, <1>5, <2>1, <2>2, CwdIn DEF Good
<1>7. Tame(c, e, p)
  <2>1. ASSUME NEW t \in Slots
        PROVE  \A q \in Procs : q # p /\ c[t].lock = q => e[t].lock = q
    BY <1>3, <1>4, InodeAssumption
  <2> QED BY <1>5, <2>1 DEF Tame
<1> QED BY <1>2, <1>3, <1>4, <1>6, <1>7

LEMMA IgetIs ==
    ASSUME NEW c, NEW d, Good(c, d), NEW i \in Inums, CanIget(c, i), NEW p \in Procs
    PROVE  LET t == Slot(c, i)
               e == Iget(c, i) IN
           /\ Good(e, d) /\ Tame(c, e, p)
           /\ t \in Slots /\ e[t].inum = i /\ e[t].ref = c[t].ref + 1 /\ e[t].lock = c[t].lock
           /\ \A u \in Slots : u # t => e[u] = c[u]
           /\ c[t].ref > 0 => c[t].inum = i /\ e[t].valid = c[t].valid /\ Content(e[t]) = Content(c[t])
           /\ c[t].ref = 0 => ~e[t].valid
           /\ c[t].ref > 0 \/ \A u \in Slots : c[u].ref > 0 => c[u].inum # i
<1> DEFINE H == Hits(c, i)
           t == Slot(c, i)
           r == IF H # {} THEN [c[t] EXCEPT !.ref = @ + 1]
                ELSE [c[t] EXCEPT !.inum = i, !.ref = 1, !.valid = FALSE]
           e == [c EXCEPT ![t] = r]
<1>0. c \in CacheType /\ Slots \in SUBSET Nat
  BY DEF Good, Slots
<1>1. t \in Slots /\ (H # {} => t \in H) /\ (H = {} => t \in Empty(c))
  <2>1. H \in SUBSET Nat /\ Empty(c) \in SUBSET Nat /\ H \subseteq Slots /\ Empty(c) \subseteq Slots
    BY <1>0 DEF Hits, Empty
  <2>2. CASE H # {}
    <3>1. t = Least(H)
      BY <2>2 DEF Slot
    <3> QED BY <2>1, <2>2, <3>1, LeastIn
  <2>3. CASE H = {}
    <3>1. t = Least(Empty(c)) /\ Empty(c) # {}
      BY <2>3 DEF Slot, CanIget
    <3> QED BY <2>1, <2>3, <3>1, LeastIn
  <2> QED BY <2>2, <2>3
<1>2. c[t] \in EntryType
  BY <1>0, <1>1 DEF CacheType, EntryType
<1>3. Iget(c, i) = e
  <2> HIDE DEF H, t
  <2>1. c = [u \in Slots |-> c[u]]
    BY <1>0 DEF CacheType
  <2>2. CASE H # {}
    BY <1>0, <1>1, <2>2 DEF Iget, H, t, CacheType
  <2>3. CASE H = {}
    BY <1>0, <1>1, <2>3 DEF Iget, H, t, CacheType
  <2> QED BY <2>2, <2>3
<1>4. /\ r \in EntryType /\ r.inum = i /\ r.ref = c[t].ref + 1 /\ r.lock = c[t].lock
      /\ c[t].ref > 0 => c[t].inum = i /\ r.valid = c[t].valid /\ Content(r) = Content(c[t])
      /\ c[t].ref = 0 => ~r.valid
      /\ c[t].ref > 0 \/ \A u \in Slots : c[u].ref > 0 => c[u].inum # i
  <2>0. i \in 0 .. NINODES
    BY InodeAssumption DEF Inums
  <2>1. CASE H # {}
    <3>1. c[t].ref > 0 /\ c[t].inum = i
      BY <1>1, <2>1 DEF Hits
    <3> HIDE DEF H, t
    <3> QED BY <1>2, <2>1, <3>1 DEF EntryType, Content
  <2>2. CASE H = {}
    <3>1. c[t].ref = 0 /\ \A u \in Slots : c[u].ref > 0 => c[u].inum # i
      BY <1>1, <2>2 DEF Empty, Hits
    <3> HIDE DEF H, t
    <3>2. r = [c[t] EXCEPT !.inum = i, !.ref = 1, !.valid = FALSE]
      BY <2>2
    <3> HIDE DEF r
    <3>3. r \in EntryType /\ r.inum = i /\ r.ref = 1 /\ r.lock = c[t].lock /\ r.valid = FALSE
      BY <1>2, <2>0, <3>2 DEF EntryType
    <3> QED BY <3>1, <3>3
  <2> QED BY <2>1, <2>2
<1> HIDE DEF r, t
<1>5. e \in CacheType /\ e[t] = r /\ \A u \in Slots : u # t => e[u] = c[u]
  BY <1>0, <1>1, <1>4, EntryChange
<1> HIDE DEF e
<1>6. Good(e, d)
  <2>1. ASSUME NEW u \in Slots, e[u].ref > 0, e[u].valid
        PROVE  Content(e[u]) = d[e[u].inum] /\ d[e[u].inum].type # "none"
    <3>1. CASE u = t
      <4>1. c[t].ref > 0 /\ c[t].valid
        BY <1>2, <1>4, <1>5, <2>1, <3>1 DEF EntryType
      <4>2. Content(c[t]) = d[c[t].inum] /\ d[c[t].inum].type # "none"
        BY <1>1, <4>1 DEF Good
      <4> QED BY <1>4, <1>5, <3>1, <4>1, <4>2
    <3>2. CASE u # t
      BY <1>5, <2>1, <3>2 DEF Good
    <3> QED BY <3>1, <3>2
  <2>2. ASSUME NEW u \in Slots, NEW v \in Slots, e[u].ref > 0, e[v].ref > 0, e[u].inum = e[v].inum
        PROVE  u = v
    <3>1. CASE c[t].ref > 0
      <4>1. \A w \in Slots : e[w].inum = c[w].inum /\ (e[w].ref > 0 => c[w].ref > 0)
        BY <1>4, <1>5, <3>1
      <4> QED BY <2>2, <4>1 DEF Good
    <3>2. CASE ~(c[t].ref > 0)
      <4>1. \A w \in Slots : c[w].ref > 0 => c[w].inum # i
        BY <1>4, <3>2
      <4>2. e[t].inum = i
        BY <1>4, <1>5
      <4>3. \A w \in Slots : w # t /\ e[w].ref > 0 => e[w].inum # i
        BY <1>5, <4>1
      <4>4. CASE u = t \/ v = t
        BY <2>2, <4>2, <4>3, <4>4
      <4>5. CASE u # t /\ v # t
        BY <1>5, <2>2, <4>5 DEF Good
      <4> QED BY <4>4, <4>5
    <3> QED BY <3>1, <3>2
  <2>3. \A u \in Slots : e[u].ref > 0 => e[u].inum \in Inums
    BY <1>4, <1>5 DEF Good
  <2>4. e[Cwd].inum = ROOTINO /\ e[Cwd].ref > 0
    <3>1. c[Cwd].inum = ROOTINO /\ c[Cwd].ref > 0
      BY DEF Good
    <3>2. CASE t = Cwd
      BY <1>2, <1>4, <1>5, <3>1, <3>2 DEF EntryType
    <3>3. CASE t # Cwd
      BY <1>5, <3>1, <3>3, CwdIn
    <3> QED BY <3>2, <3>3
  <2> QED BY <1>5, <2>1, <2>2, <2>3, <2>4 DEF Good
<1>7. Tame(c, e, p)
  <2>1. ASSUME NEW u \in Slots, c[u].ref > 0
        PROVE  /\ e[u].ref > 0 /\ e[u].inum = c[u].inum /\ (c[u].valid => e[u].valid)
               /\ e[u].lock = c[u].lock
    BY <1>2, <1>4, <1>5, <2>1 DEF EntryType
  <2> QED BY <2>1 DEF Tame
<1> QED BY <1>1, <1>3, <1>4, <1>5, <1>6, <1>7 DEF t

-----------------------------------------------------------------------------
(* The parts of the invariant that speak of the cache.                     *)
LEMMA InvGood ==
    ASSUME TypeOK, RefCounts, InodesOK, CacheCoherent
    PROVE  Good(icache, dinode)
<1>1. icache[Cwd].ref > 0
  <2>1. icache[Cwd].ref = Cardinality(Pointers(Cwd)) + 1
    BY CwdIn DEF RefCounts
  <2>2. Cardinality(Pointers(Cwd)) \in Nat
    <3>1. Pointers(Cwd) \in SUBSET (Procs \X Fields)
      BY DEF Pointers
    <3> QED BY <3>1, PointersFinite, FS_Subset, FS_CardinalityType
  <2> QED BY <2>1, <2>2
<1>2. icache \in CacheType /\ dinode \in DiskType
  BY DEF TypeOK
<1>3. \A s \in Slots : icache[s].ref > 0 /\ icache[s].valid =>
         Content(icache[s]) = dinode[icache[s].inum] /\ dinode[icache[s].inum].type # "none"
  BY DEF CacheCoherent, InodesOK, Used, Alloc
<1>4. icache[Cwd].inum = ROOTINO /\ \A s \in Slots : icache[s].ref > 0 => icache[s].inum \in Inums
  BY DEF InodesOK, Used
<1>5. \A s, t \in Slots : icache[s].ref > 0 /\ icache[t].ref > 0 /\ icache[s].inum = icache[t].inum => s = t
  BY DEF CacheCoherent, Used
<1> QED BY <1>1, <1>2, <1>3, <1>4, <1>5 DEF Good

LEMMA GoodCoherent ==
    ASSUME Good(icache', dinode')
    PROVE  /\ CacheCoherent'
           /\ (\A s \in Slots : Used(s) => icache[s].inum \in Inums)'
           /\ (\A s \in Slots : Used(s) /\ icache[s].valid => icache[s].inum \in Alloc)'
           /\ (icache[Cwd].inum = ROOTINO)'
<1>1. CacheCoherent'
  BY DEF Good, CacheCoherent, Used
<1>2. (\A s \in Slots : Used(s) => icache[s].inum \in Inums)'
  BY DEF Good, Used
<1>3. (\A s \in Slots : Used(s) /\ icache[s].valid => icache[s].inum \in Alloc)'
  BY DEF Good, Used, Alloc
<1> QED BY <1>1, <1>2, <1>3 DEF Good

(* Only p moves, and what it leaves has the type it should have.           *)
Moves(p) ==
    /\ \A q \in Procs : q # p => pc'[q] = pc[q] /\ loc'[q] = loc[q] /\ ofile'[q] = ofile[q]
    /\ pc' \in [Procs -> Places] /\ loc' \in [Procs -> LocType]
    /\ ofile' \in [Procs -> 0 .. NINODE]

(* The entries that others point to stay theirs.                           *)
Spares(p) == \A q \in Procs, f \in Fields : q # p /\ Pointer(q, f) # 0 =>
    LET s == Pointer(q, f) IN
    /\ icache'[s].inum = icache[s].inum
    /\ icache[s].valid => icache'[s].valid
    /\ icache[s].lock = q => icache'[s].lock = q

LEMMA CalmSpares ==
    ASSUME TypeOK, RefCounts, NEW p \in Procs, Calm(icache, icache', p)
    PROVE  Spares(p)
BY Pinned DEF Calm, Spares, Used

(* The others have the pointers and the locks that they had.               *)
LEMMA OthersStay ==
    ASSUME TypeOK, RefCounts, NEW p \in Procs, Moves(p), Spares(p),
           NEW q \in Procs, q # p, CallOK(q), LockOK(q)
    PROVE  /\ \A f \in Fields : Pointer(q, f)' = Pointer(q, f) /\ Inum(q, f)' = Inum(q, f)
           /\ Credit(q)' <=> Credit(q)
           /\ \A i : Creating(q, i)' <=> Creating(q, i)
           /\ CallOK(q)' /\ LockOK(q)'
<1>1. pc'[q] = pc[q] /\ loc'[q] = loc[q] /\ ofile'[q] = ofile[q]
  BY DEF Moves
<1>2. \A f : Pointer(q, f)' = Pointer(q, f)
  BY <1>1 DEF Pointer
<1>3. \A f \in Fields : Pointer(q, f) # 0 =>
         LET s == Pointer(q, f) IN
         /\ icache'[s].inum = icache[s].inum
         /\ icache[s].valid => icache'[s].valid
         /\ icache[s].lock = q => icache'[s].lock = q
  BY DEF Spares
<1>4. \A f \in Fields : Inum(q, f)' = Inum(q, f)
  BY <1>2, <1>3 DEF Inum
<1>5. Credit(q)' <=> Credit(q)
  BY <1>1 DEF Credit
<1>6. \A i : Creating(q, i)' <=> Creating(q, i)
  <2>1. "ip" \in Fields
    BY DEF Fields
  <2> QED BY <1>1, <1>4, <2>1 DEF Creating
<1>7. CallOK(q)'
  <2>1. /\ loc'[q].at # 0 <=> pc'[q] = "namex"
        /\ loc'[q].ip # 0 <=> pc'[q] \in HasIp \/ Credit(q)'
        /\ loc'[q].dp # 0 <=> pc'[q] \in HasDp
        /\ loc'[q].inum # 0 <=> pc'[q] = "ialloc"
        /\ pc'[q] # "user" => Len(loc'[q].puts) <= 1
        /\ pc'[q] \in {"ialloc", "new"} => loc'[q].puts = <<>> /\ loc'[q].unref = 0
    BY <1>1, <1>5 DEF CallOK
  <2>2. /\ pc'[q] \in Named => loc'[q].path # <<>>
        /\ pc'[q] = "namex" => loc'[q].op # "" /\ (loc'[q].op = "link" => loc'[q].new # <<>>)
        /\ pc'[q] \in {"link", "link_root"} => loc'[q].new # <<>>
        /\ pc'[q] \in Making => loc'[q].op \in {"create", "mkdir", "mknod"}
        /\ pc'[q] = "open" => loc'[q].op = "open"
        /\ pc'[q] # "user" /\ loc'[q].op \in {"open", "create"} => ofile'[q] = 0
    BY <1>1 DEF CallOK
  <2> QED BY <2>1, <2>2 DEF CallOK
<1>8. LockOK(q)'
  <2>1. /\ Pointer(q, "dp") = loc[q].dp /\ Pointer(q, "ip") = loc[q].ip
        /\ Pointer(q, "ofile") = ofile[q] /\ {"dp", "ip", "ofile"} \subseteq Fields
    BY PointerIs DEF Fields
  <2>2. /\ pc[q] \in DpLocked => loc[q].dp # 0
        /\ pc[q] \in IpLocked => loc[q].ip # 0
    BY DEF CallOK, DpLocked, IpLocked, HasIp, HasDp
  <2>3. pc[q] \in DpLocked => icache'[loc[q].dp].lock = q /\ icache'[loc[q].dp].valid
    BY <1>3, <2>1, <2>2 DEF LockOK
  <2>4. pc[q] \in IpLocked => icache'[loc[q].ip].lock = q /\ icache'[loc[q].ip].valid
    BY <1>3, <2>1, <2>2 DEF LockOK
  <2>5. ofile[q] # 0 => icache'[ofile[q]].valid
    BY <1>3, <2>1 DEF LockOK
  <2> QED BY <1>1, <2>3, <2>4, <2>5 DEF LockOK
<1> QED BY <1>2, <1>4, <1>5, <1>6, <1>7, <1>8

LEMMA InumIn ==
    ASSUME NEW q \in Procs, NEW f \in Fields, PointerOK(q)
    PROVE  Inum(q, f) = 0 \/ Inum(q, f) \in Alloc
BY DEF PointerOK, Inum

(* What the step of p must see to for the processes to be right after it:  *)
(* its own part, and that it does not disturb the inodes of others.        *)
LEMMA Frame ==
    ASSUME TypeOK, RefCounts, ProcsOK, FreshOK,
           NEW p \in Procs, Moves(p), Spares(p),
           \A q \in Procs, f \in Fields : q # p /\ Inum(q, f) \in Inums =>
              dinode'[Inum(q, f)].type = dinode[Inum(q, f)].type,
           \A q \in Procs, i \in Inums : q # p /\ Creating(q, i) => dinode'[i] = dinode[i],
           CallOK(p)', LockOK(p)', PointerOK(p)',
           \A q \in Procs, i \in Inums, f \in Fields :
              q # p /\ Creating(q, i) => Inum(p, f)' # i,
           \A i \in Inums : Creating(p, i)' =>
              /\ dinode'[i] = [FreeInode EXCEPT !.type = Type(loc'[p])]
              /\ \A q \in Procs : q # p => ~Creating(q, i) /\ \A f \in Fields : Inum(q, f) # i
              /\ \A f \in Fields : Inum(p, f)' = i => f = "ip"
    PROVE  ProcsOK' /\ FreshOK'
<1>0. ASSUME NEW q \in Procs, q # p
      PROVE  /\ \A f \in Fields : Pointer(q, f)' = Pointer(q, f) /\ Inum(q, f)' = Inum(q, f)
             /\ Credit(q)' <=> Credit(q)
             /\ \A i : Creating(q, i)' <=> Creating(q, i)
             /\ CallOK(q)' /\ LockOK(q)'
  <2>1. CallOK(q) /\ LockOK(q)
    BY DEF ProcsOK
  <2> QED BY <1>0, <2>1, OthersStay
<1>1. ASSUME NEW q \in Procs, q # p
      PROVE  PointerOK(q)'
  <2>1. \A f \in Fields : /\ Pointer(q, f)' = Pointer(q, f) /\ Inum(q, f)' = Inum(q, f)
    BY <1>0, <1>1
  <2>2. PointerOK(q)
    BY DEF ProcsOK
  <2>3. \A f \in Fields : Inum(q, f) \in Inums =>
            dinode'[Inum(q, f)].type = dinode[Inum(q, f)].type
    BY <1>1
  <2>4. \A f \in Fields : f # "unref" /\ Pointer(q, f)' # 0 => Inum(q, f)' \in Alloc'
    BY <2>1, <2>2, <2>3 DEF PointerOK, Alloc
  <2>5. loc'[q].dp # 0 => IsDir(Inum(q, "dp"))'
    <3>1. ASSUME loc'[q].dp # 0 PROVE IsDir(Inum(q, "dp"))'
      <4>1. "dp" \in Fields /\ Pointer(q, "dp") # 0 /\ loc[q].dp # 0
        BY <1>1, <3>1, PointerIs DEF Fields, Moves
      <4>2. Inum(q, "dp") \in Alloc /\ IsDir(Inum(q, "dp"))
        BY <2>2, <4>1 DEF PointerOK
      <4> QED BY <2>1, <2>3, <4>1, <4>2 DEF IsDir, Alloc
    <3> QED BY <3>1
  <2>6. ASSUME Credit(q)', pc'[q] # "unlinked" PROVE ~IsDir(Inum(q, "ip"))'
    <3>1. Credit(q) /\ pc[q] # "unlinked"
      BY <1>0, <1>1, <2>6 DEF Moves
    <3>2. "ip" \in Fields /\ Pointer(q, "ip") # 0
      <4>1. loc[q].ip # 0
        BY <3>1 DEF ProcsOK, CallOK
      <4> QED BY <4>1, PointerIs DEF Fields
    <3>3. Inum(q, "ip") \in Alloc /\ ~IsDir(Inum(q, "ip"))
      BY <2>2, <3>1, <3>2 DEF PointerOK
    <3> QED BY <2>1, <2>3, <3>2, <3>3 DEF IsDir, Alloc
  <2> QED BY <2>4, <2>5, <2>6 DEF PointerOK
<1>2. ProcsOK'
  BY <1>0, <1>1 DEF ProcsOK
<1>3. FreshOK'
  <2> SUFFICES ASSUME NEW q \in Procs, NEW i \in Inums, Creating(q, i)'
               PROVE  /\ dinode'[i] = [FreeInode EXCEPT !.type = Type(loc'[q])]
                      /\ \A r \in Procs : Creating(r, i)' => r = q
                      /\ \A r \in Procs, f \in Fields : Inum(r, f)' = i => r = q /\ f = "ip"
    BY DEF FreshOK
  <2>1. CASE q = p
    <3>1. \A r \in Procs : r # p => ~Creating(r, i)' /\ \A f \in Fields : Inum(r, f)' # i
      BY <1>0, <2>1
    <3> QED BY <2>1, <3>1
  <2>2. CASE q # p
    <3>1. Creating(q, i) /\ dinode'[i] = dinode[i] /\ loc'[q] = loc[q]
      BY <1>0, <2>2 DEF Moves
    <3>2. /\ dinode[i] = [FreeInode EXCEPT !.type = Type(loc[q])]
          /\ \A r \in Procs : Creating(r, i) => r = q
          /\ \A r \in Procs, f \in Fields : Inum(r, f) = i => r = q /\ f = "ip"
      BY <3>1 DEF FreshOK
    <3>3. \A r \in Procs : r # p /\ Creating(r, i)' => r = q
      BY <1>0, <3>2
    <3>4. \A r \in Procs, f \in Fields : r # p /\ Inum(r, f)' = i => r = q /\ f = "ip"
      BY <1>0, <3>2
    <3>5. ~Creating(p, i)'
      BY <2>2, <3>1
    <3>6. \A f \in Fields : Inum(p, f)' # i
      BY <2>2, <3>1
    <3> QED BY <3>1, <3>2, <3>3, <3>4, <3>5, <3>6
  <2> QED BY <2>1, <2>2
<1> QED BY <1>2, <1>3

-----------------------------------------------------------------------------
(* The links of an inode can be counted.                                   *)
LEMMA LinksFinite ==
    ASSUME NEW i
    PROVE  /\ IsFiniteSet(NamesOf(i)) /\ Cardinality(NamesOf(i)) \in Nat
           /\ IsFiniteSet(Subdirs(i)) /\ Cardinality(Subdirs(i)) \in Nat
           /\ IsFiniteSet(Credits(i)) /\ Cardinality(Credits(i)) \in Nat
<1>1. IsFiniteSet({dinode[d].addr : d \in Dirs})
  <2>1. IsFiniteSet(Inums)
    BY InodeAssumption, FS_Interval DEF Inums
  <2>2. Dirs \in SUBSET Inums
    BY DEF Dirs, Alloc
  <2>3. IsFiniteSet(Dirs)
    BY <2>1, <2>2, FS_Subset
  <2> DEFINE h == [d \in Dirs |-> dinode[d].addr]
             T == {dinode[d].addr : d \in Dirs}
  <2>4. h \in Surjection(Dirs, T)
    BY DEF Surjection
  <2> HIDE DEF h, T
  <2> QED BY <2>3, <2>4, FS_Surjection DEF T
<1>2. IsFiniteSet({dinode[d].addr : d \in Dirs} \X Names)
  BY <1>1, InodeAssumption, FS_Product
<1>3. NamesOf(i) \in SUBSET ({dinode[d].addr : d \in Dirs} \X Names)
  BY DEF NamesOf
<1>4. Subdirs(i) \in SUBSET Names /\ Credits(i) \in SUBSET Procs
  BY DEF Subdirs, Credits
<1> QED BY <1>2, <1>3, <1>4, InodeAssumption, FS_Subset, FS_CardinalityType

-----------------------------------------------------------------------------
(* An inode that is not being created: what a path leads to.               *)
Public(i) == i \in Alloc /\ \A q \in Procs : ~Creating(q, i)

LEMMA QuietPointers ==
    ASSUME TypeOK, RefCounts, ProcsOK, FreshOK, NEW p \in Procs,
           Calm(icache, icache', p), pc[p] \notin {"ialloc", "new"},
           NEW f \in Fields, f # "unref", Pointer(p, f)' # 0,
           \/ \E g \in Fields : g # "unref" /\ Pointer(p, g) = Pointer(p, f)'
           \/ Public(icache'[Pointer(p, f)'].inum)
    PROVE  Public(Inum(p, f)')
<1>1. Inum(p, f)' = icache'[Pointer(p, f)'].inum
  BY DEF Inum
<1>2. CASE \E g \in Fields : g # "unref" /\ Pointer(p, g) = Pointer(p, f)'
  <2>1. PICK g \in Fields : g # "unref" /\ Pointer(p, g) = Pointer(p, f)'
    BY <1>2
  <2>2. Pointer(p, g) # 0
    BY <2>1
  <2>3. icache'[Pointer(p, g)].inum = icache[Pointer(p, g)].inum
    BY <2>2, Pinned DEF Calm, Used
  <2>4. Inum(p, g) = Inum(p, f)'
    BY <1>1, <2>1, <2>2, <2>3 DEF Inum
  <2>5. Inum(p, g) \in Alloc
    BY <2>1, <2>2 DEF ProcsOK, PointerOK
  <2>6. ASSUME NEW q \in Procs, Creating(q, Inum(p, g)) PROVE FALSE
    <3>1. Inum(p, g) \in Inums
      BY <2>5 DEF Alloc
    <3>2. q = p
      BY <2>6, <3>1 DEF FreshOK
    <3> QED BY <2>6, <3>2 DEF Creating
  <2> QED BY <2>4, <2>5, <2>6 DEF Public
<1>3. CASE Public(icache'[Pointer(p, f)'].inum)
  BY <1>1, <1>3
<1> QED BY <1>2, <1>3

(* A pointer after a step is one that p had, or leads to a public inode.   *)
HeldBy(p) == {ofile[p], loc[p].at, loc[p].ip, loc[p].dp,
              LastOf(loc[p].puts), BeforeOf(loc[p].puts)}
May(p, x)   == x = 0 \/ x \in HeldBy(p) \/ Public(icache'[x].inum)
MayPoint(p) == /\ May(p, ofile'[p]) /\ May(p, loc'[p].at) /\ May(p, loc'[p].ip)
               /\ May(p, loc'[p].dp)
               /\ May(p, LastOf(loc'[p].puts)) /\ May(p, BeforeOf(loc'[p].puts))

LEMMA MayPointIs ==
    ASSUME NEW p \in Procs, MayPoint(p), NEW f \in Fields, f # "unref", Pointer(p, f)' # 0
    PROVE  \/ \E g \in Fields : g # "unref" /\ Pointer(p, g) = Pointer(p, f)'
           \/ Public(icache'[Pointer(p, f)'].inum)
<1> DEFINE x == Pointer(p, f)'
<1>1. May(p, x)
  BY DEF Pointer, Fields, MayPoint, LastOf, BeforeOf
<1>2. ASSUME x \in HeldBy(p) PROVE \E g \in Fields : g # "unref" /\ Pointer(p, g) = x
  <2> HIDE DEF x
  <2>1. {"ofile", "at", "ip", "dp", "last", "before"} \subseteq Fields
    BY DEF Fields
  <2> QED BY <1>2, <2>1, PointerIs DEF HeldBy
<1> QED BY <1>1, <1>2 DEF May

(* A step that leaves the disk alone.                                      *)
LEMMA NotZero == \A i \in Inums : i # 0
BY DEF Inums

(* Fewer credits fit in the same links. *)
LEMMA FewerFit ==
    ASSUME NEW a \in Nat, NEW b \in Nat, NEW c \in Nat, NEW d \in Nat, NEW n \in Nat,
           d <= c, a + b + c <= n
    PROVE  a + b + d <= n
OBVIOUS

LEMMA Quiet ==
    ASSUME InodeInv, NEW p \in Procs, Moves(p), UNCHANGED disk,
           Good(icache', dinode), Calm(icache, icache', p), RefCounts',
           CallOK(p)', LockOK(p)',
           pc[p] \notin {"ialloc", "new"}, pc'[p] \notin {"ialloc", "new"},
           MayPoint(p), loc'[p].dp # 0 => loc'[p].dp = loc[p].dp \/ IsDir(icache'[loc'[p].dp].inum),
           Credit(p)' => /\ Credit(p) /\ loc'[p].ip = loc[p].ip
                         /\ pc[p] = "unlinked" => pc'[p] = "unlinked",
           pc'[p] = "unlink_ip" =>
              \/ /\ pc[p] = "unlink_ip" /\ loc'[p].dp = loc[p].dp /\ loc'[p].ip = loc[p].ip
                 /\ loc'[p].path = loc[p].path
              \/ entry[dinode[icache'[loc'[p].dp].inum].addr][Head(loc'[p].path)]
                    = icache'[loc'[p].ip].inum
    PROVE  InodeInv'
<1> USE DEF InodeInv
<1>q. Spares(p)
  BY CalmSpares
<1>0. /\ dinode' = dinode /\ entry' = entry /\ bitmap' = bitmap
  BY DEF disk
<1>1. \A f \in Fields : f # "unref" /\ Pointer(p, f)' # 0 => Public(Inum(p, f)')
  <2>1. \A f \in Fields : f # "unref" /\ Pointer(p, f)' # 0 =>
           \/ \E g \in Fields : g # "unref" /\ Pointer(p, g) = Pointer(p, f)'
           \/ Public(icache'[Pointer(p, f)'].inum)
    BY MayPointIs
  <2> QED BY <2>1, QuietPointers
<1>2. \A f \in Fields : Inum(p, f)' = 0 \/ Public(Inum(p, f)')
  BY <1>1 DEF Inum
<1>3. \A i : ~Creating(p, i) /\ ~Creating(p, i)'
  BY DEF Creating
<1>f. {"dp", "ip"} \subseteq Fields
  BY DEF Fields
<1>s. \A f \in {"dp", "ip"} : Pointer(p, f) # 0 =>
         /\ Pointer(p, f) \in Slots /\ icache[Pointer(p, f)].ref > 0
         /\ icache'[Pointer(p, f)].inum = icache[Pointer(p, f)].inum
  BY <1>f, Pinned DEF Calm, Used
<1>p. /\ Pointer(p, "dp") = loc[p].dp /\ Pointer(p, "ip") = loc[p].ip
      /\ Pointer(p, "dp")' = loc'[p].dp /\ Pointer(p, "ip")' = loc'[p].ip
  BY DEF Pointer
<1>c. CallOK(p) /\ PointerOK(p)
  BY DEF ProcsOK
<1>i. Credit(p)' => Inum(p, "ip")' = Inum(p, "ip") /\ Pointer(p, "ip") # 0
  <2>1. Credit(p)' => Pointer(p, "ip") # 0 /\ Pointer(p, "ip")' = Pointer(p, "ip")
    BY <1>c, <1>p DEF CallOK
  <2> QED BY <1>s, <2>1 DEF Inum
<1>4. PointerOK(p)'
  <2>1. \A f \in Fields : f # "unref" /\ Pointer(p, f)' # 0 => Inum(p, f)' \in Alloc'
    BY <1>0, <1>1 DEF Public, Alloc
  <2>2. ASSUME loc'[p].dp # 0 PROVE IsDir(Inum(p, "dp"))'
    <3>1. Inum(p, "dp")' = icache'[loc'[p].dp].inum
      BY <1>p, <2>2 DEF Inum
    <3>2. CASE loc'[p].dp = loc[p].dp
      <4>1. icache'[loc[p].dp].inum = icache[loc[p].dp].inum
        BY <1>p, <1>s, <2>2, <3>2
      <4>2. Inum(p, "dp") = icache[loc[p].dp].inum
        BY <1>p, <2>2, <3>2 DEF Inum
      <4> QED BY <1>0, <1>c, <2>2, <3>1, <3>2, <4>1, <4>2 DEF PointerOK, IsDir
    <3> QED BY <1>0, <2>2, <3>1, <3>2 DEF IsDir
  <2>3. ASSUME Credit(p)', pc'[p] # "unlinked" PROVE ~IsDir(Inum(p, "ip"))'
    BY <1>0, <1>c, <1>i, <2>3 DEF PointerOK, IsDir
  <2> QED BY <2>1, <2>2, <2>3 DEF PointerOK
<1>5. ProcsOK' /\ FreshOK'
  <2>1. \A q \in Procs, i \in Inums, f \in Fields : q # p /\ Creating(q, i) => Inum(p, f)' # i
    <3> SUFFICES ASSUME NEW q \in Procs, NEW i \in Inums, NEW f \in Fields, q # p, Creating(q, i)
                 PROVE  Inum(p, f)' # i
      OBVIOUS
    <3>1. ~Public(i)
      BY DEF Public
    <3>2. i # 0
      BY NotZero
    <3> QED BY <1>2, <3>1, <3>2
  <2> QED BY <1>0, <1>3, <1>4, <1>q, <2>1, Frame
<1>6. ASSUME NEW q \in Procs, q # p
      PROVE  /\ \A f \in Fields : Pointer(q, f)' = Pointer(q, f) /\ Inum(q, f)' = Inum(q, f)
             /\ Credit(q)' <=> Credit(q)
             /\ \A i : Creating(q, i)' <=> Creating(q, i)
  <2>1. CallOK(q) /\ LockOK(q)
    BY DEF ProcsOK
  <2> QED BY <1>6, <1>q, <2>1, OthersStay
<1>7. CacheCoherent' /\ TypeOK'
  BY <1>0, GoodCoherent DEF Good, TypeOK, Moves
<1>8. InodesOK'
  <2>1. Alloc' = Alloc /\ Dirs' = Dirs /\ \A i : IsDir(i)' <=> IsDir(i)
    BY <1>0 DEF Alloc, Dirs, IsDir
  <2>2. \A q \in Procs, i \in Inums : Creating(q, i) => Creating(q, i)'
    BY <1>3, <1>6
  <2>3. Alloc \subseteq Inums
    BY DEF Alloc
  <2>4. \A i \in Alloc' : IsDir(i)' => i \in Dirs' \/ \E q \in Procs : Creating(q, i)'
    BY <2>1, <2>2, <2>3 DEF InodesOK
  <2>5. ROOTINO \in Dirs' /\ \A i \in Inums \ Alloc' : dinode'[i] = FreeInode
    BY <1>0, <2>1 DEF InodesOK
  <2> QED BY <1>0, <2>4, <2>5, GoodCoherent DEF InodesOK
<1>9. LinksHeld'
  <2> SUFFICES ASSUME NEW i \in Inums
               PROVE  Cardinality(NamesOf(i)') + Cardinality(Subdirs(i)') + Cardinality(Credits(i)')
                        <= dinode'[i].nlink
    BY DEF LinksHeld
  <2>1. NamesOf(i)' = NamesOf(i) /\ Subdirs(i)' = Subdirs(i)
    BY <1>0 DEF NamesOf, Subdirs, Dirs, Alloc, IsDir
  <2>2. Credits(i)' \subseteq Credits(i)
    <3>1. ASSUME NEW q \in Procs, Credit(q)', Inum(q, "ip")' = i
          PROVE  Credit(q) /\ Inum(q, "ip") = i
      <4>1. CASE q = p
        BY <1>i, <3>1, <4>1
      <4>2. CASE q # p
        BY <1>6, <1>f, <3>1, <4>2
      <4> QED BY <4>1, <4>2
    <3> QED BY <3>1 DEF Credits
  <2>3. IsFiniteSet(Credits(i)) /\ Cardinality(Credits(i)) \in Nat
    BY LinksFinite
  <2>4. Cardinality(Credits(i)') <= Cardinality(Credits(i)) /\ Cardinality(Credits(i)') \in Nat
    BY <2>2, <2>3, FS_Subset, FS_CardinalityType
  <2>5. Cardinality(NamesOf(i)) + Cardinality(Subdirs(i)) + Cardinality(Credits(i)) <= dinode[i].nlink
    BY DEF LinksHeld
  <2>6. Cardinality(NamesOf(i)) \in Nat /\ Cardinality(Subdirs(i)) \in Nat /\ dinode[i].nlink \in Nat
    BY LinksFinite DEF TypeOK, DiskType
  <2>7. Cardinality(NamesOf(i)') = Cardinality(NamesOf(i))
        /\ Cardinality(Subdirs(i)') = Cardinality(Subdirs(i))
    BY <2>1
  <2>8. dinode'[i].nlink = dinode[i].nlink
    BY <1>0
  <2> QED BY <2>3, <2>4, <2>5, <2>6, <2>7, <2>8, FewerFit
<1>10. BlocksOwned'
  BY <1>0 DEF BlocksOwned, Alloc
<1>11. UnlinkOK'
  <2> SUFFICES ASSUME NEW q \in Procs, pc'[q] = "unlink_ip"
               PROVE  entry'[dinode'[Inum(q, "dp")'].addr][Head(loc'[q].path)] = Inum(q, "ip")'
    BY DEF UnlinkOK
  <2>1. CASE q # p
    BY <1>0, <1>6, <1>f, <2>1 DEF UnlinkOK, Moves
  <2>2. CASE q = p
    <3>0. loc'[p].ip # 0 /\ loc'[p].dp # 0
      BY <2>2 DEF CallOK, HasIp, HasDp
    <3>1. Inum(p, "dp")' = icache'[loc'[p].dp].inum /\ Inum(p, "ip")' = icache'[loc'[p].ip].inum
      BY <1>p, <3>0 DEF Inum
    <3>2. CASE /\ pc[p] = "unlink_ip" /\ loc'[p].dp = loc[p].dp /\ loc'[p].ip = loc[p].ip
               /\ loc'[p].path = loc[p].path
      <4>1. Inum(p, "dp") = Inum(p, "dp")' /\ Inum(p, "ip") = Inum(p, "ip")'
        BY <1>p, <1>s, <3>0, <3>1, <3>2 DEF Inum
      <4> QED BY <1>0, <2>2, <3>2, <4>1 DEF UnlinkOK
    <3> QED BY <1>0, <2>2, <3>1, <3>2
  <2> QED BY <2>1, <2>2
<1> QED BY <1>5, <1>7, <1>8, <1>9, <1>10, <1>11

-----------------------------------------------------------------------------
(* What a process refers to, and what a directory leads to, is allocated   *)
(* and not being created.                                                  *)
LEMMA RootPublic ==
    ASSUME InodesOK, FreshOK
    PROVE  ROOTINO \in Inums /\ Public(ROOTINO)
<1>1. ROOTINO \in Alloc /\ dinode[ROOTINO].addr # 0 /\ ROOTINO \in Inums
  BY DEF InodesOK, Dirs, Alloc
<1>2. ASSUME NEW q \in Procs, Creating(q, ROOTINO) PROVE FALSE
  <2>1. dinode[ROOTINO] = [FreeInode EXCEPT !.type = Type(loc[q])]
    BY <1>1, <1>2 DEF FreshOK
  <2> QED BY <1>1, <2>1 DEF FreeInode
<1> QED BY <1>1, <1>2 DEF Public

LEMMA PointedPublic ==
    ASSUME TypeOK, RefCounts, ProcsOK, FreshOK, NEW p \in Procs, NEW f \in Fields,
           f # "unref", Pointer(p, f) # 0, f # "ip" \/ pc[p] # "new"
    PROVE  LET s == Pointer(p, f) IN
           s \in Slots /\ icache[s].ref > 0 /\ icache[s].inum = Inum(p, f)
           /\ Inum(p, f) \in Inums /\ Public(Inum(p, f))
<1>1. Pointer(p, f) \in Slots /\ icache[Pointer(p, f)].ref > 0
  BY Pinned DEF Used
<1>2. Inum(p, f) = icache[Pointer(p, f)].inum
  BY DEF Inum
<1>3. Inum(p, f) \in Alloc
  BY DEF ProcsOK, PointerOK
<1>4. ASSUME NEW q \in Procs, Creating(q, Inum(p, f)) PROVE FALSE
  <2>1. Inum(p, f) \in Inums
    BY <1>3 DEF Alloc
  <2>2. p = q /\ f = "ip"
    BY <1>4, <2>1 DEF FreshOK
  <2>3. pc[p] = "ialloc"
    BY <1>4, <2>2 DEF Creating
  <2>4. loc[p].ip = 0
    BY <2>3 DEF ProcsOK, CallOK, HasIp, Credit
  <2> QED BY <2>2, <2>4, PointerIs
<1> QED BY <1>1, <1>2, <1>3, <1>4 DEF Public, Alloc

LEMMA PublicDir ==
    ASSUME InodesOK, NEW i \in Inums, Public(i), IsDir(i)
    PROVE  i \in Dirs /\ dinode[i].addr # 0
<1>1. i \in Alloc
  BY DEF Public
<1>2. i \in Dirs
  BY <1>1 DEF Public, InodesOK
<1> QED BY <1>2 DEF Dirs

LEMMA NamedPublic ==
    ASSUME TypeOK, LinksHeld, FreshOK, InodesOK, NEW d \in Dirs, NEW n \in Names,
           entry[dinode[d].addr][n] # 0
    PROVE  LET i == entry[dinode[d].addr][n] IN
           i \in Inums /\ Public(i) /\ dinode[i].nlink >= 1
<1> DEFINE i == entry[dinode[d].addr][n]
<1>1. i \in Inums
  <2>1. dinode[d].addr \in Blocks
    <3>1. dinode[d].addr \in 0 .. NBLOCKS /\ dinode[d].addr # 0
      BY DEF Dirs, Alloc, TypeOK, DiskType
    <3> QED BY <3>1, InodeAssumption DEF Blocks
  <2>2. i \in 0 .. NINODES
    BY <2>1 DEF TypeOK
  <2> QED BY <2>2, InodeAssumption DEF Inums
<1>2. <<dinode[d].addr, n>> \in NamesOf(i)
  BY DEF NamesOf
<1>3. dinode[i].nlink >= 1
  <2>1. Cardinality(NamesOf(i)) # 0
    BY <1>2, LinksFinite, FS_EmptySet
  <2>2. Cardinality(NamesOf(i)) + Cardinality(Subdirs(i)) + Cardinality(Credits(i)) <= dinode[i].nlink
    BY <1>1 DEF LinksHeld
  <2>3. dinode[i].nlink \in Nat
    BY <1>1 DEF TypeOK, DiskType
  <2> QED BY <2>1, <2>2, <2>3, LinksFinite
<1>4. i \in Alloc
  BY <1>1, <1>3 DEF InodesOK, FreeInode
<1>5. ASSUME NEW q \in Procs, Creating(q, i) PROVE FALSE
  <2>1. dinode[i] = [FreeInode EXCEPT !.type = Type(loc[q])]
    BY <1>1, <1>5 DEF FreshOK
  <2> QED BY <1>3, <2>1 DEF FreeInode
<1> QED BY <1>1, <1>3, <1>4, <1>5 DEF Public

(* A process locks an inode that it refers to.                             *)
Lockable == {"at", "ip", "dp"}

LEMMA Enter ==
    ASSUME InodeInv, NEW p \in Procs, NEW f \in Lockable,
           NEW s, s = Pointer(p, f), s # 0, Unlocked(s)
    PROVE  LET c == Ilock(icache, s, p) IN
           /\ s \in Slots /\ Good(c, dinode) /\ Tame(icache, c, p)
           /\ \A t \in Slots : c[t].ref = icache[t].ref
           /\ \A t \in Slots : t # s => c[t] = icache[t]
           /\ c[s].inum = Inum(p, f) /\ c[s].inum = icache[s].inum /\ c[s].ref > 0
           /\ c[s].lock = p /\ c[s].valid
           /\ Inum(p, f) \in Alloc /\ Inum(p, f) \in Inums
           /\ c[s].type = dinode[Inum(p, f)].type /\ c[s].nlink = dinode[Inum(p, f)].nlink
           /\ c[s].addr = dinode[Inum(p, f)].addr
<1> DEFINE c == Ilock(icache, s, p)
<1> USE DEF InodeInv
<1>0. f \in Fields /\ f # "unref"
  BY DEF Fields, Lockable
<1>1. s \in Slots /\ icache[s].ref > 0
  BY <1>0, Pinned DEF Used
<1>2. Inum(p, f) = icache[s].inum /\ Inum(p, f) \in Alloc
  BY <1>0 DEF ProcsOK, PointerOK, Inum
<1>3. Good(icache, dinode)
  BY InvGood
<1>4. dinode[icache[s].inum].type # "none" /\ Inum(p, f) \in Inums
  BY <1>2 DEF Alloc
<1>5. icache[s].lock = None
  BY DEF Unlocked
<1>6. /\ Good(c, dinode) /\ Tame(icache, c, p)
      /\ \A t \in Slots : t # s => c[t] = icache[t]
      /\ c[s].inum = icache[s].inum /\ c[s].ref = icache[s].ref /\ c[s].lock = p /\ c[s].valid
      /\ Content(c[s]) = dinode[icache[s].inum]
  BY <1>1, <1>3, <1>4, <1>5, IlockIs
<1>7. /\ c[s].type = dinode[Inum(p, f)].type /\ c[s].nlink = dinode[Inum(p, f)].nlink
      /\ c[s].addr = dinode[Inum(p, f)].addr
  BY <1>2, <1>6 DEF Content
<1> HIDE DEF c
<1>8. \A t \in Slots : c[t].ref = icache[t].ref
  BY <1>6
<1> QED BY <1>1, <1>2, <1>4, <1>6, <1>7, <1>8 DEF c

LEMMA StepIs ==
    ASSUME TypeOK, NEW p \in Procs, NEW l \in Places, NEW r \in LocType, Step(p, l, r),
           ofile' \in [Procs -> 0 .. NINODE], \A q \in Procs : q # p => ofile'[q] = ofile[q]
    PROVE  Moves(p) /\ pc'[p] = l /\ loc'[p] = r
BY DEF Step, Moves, TypeOK

LEMMA PutsAre ==
    ASSUME NEW q
    PROVE  /\ q = <<>> => LastOf(q) = 0 /\ BeforeOf(q) = 0 /\ Len(q) = 0
           /\ \A x : q = <<x>> => LastOf(q) = x /\ BeforeOf(q) = 0 /\ Len(q) = 1
           /\ \A x, y : q = <<x, y>> => LastOf(q) = y /\ BeforeOf(q) = x /\ Len(q) = 2
<1>1. q = <<>> => Len(q) = 0
  <2>1. <<>> \in Seq({}) /\ \A u \in Seq({}) : u = <<>> <=> Len(u) = 0
    BY EmptySeq
  <2> QED BY <2>1, Zenon
<1>2. \A x : q = <<x>> => Len(q) = 1 /\ q # <<>> /\ q[1] = x
  OBVIOUS
<1>3. \A x, y : q = <<x, y>> => Len(q) = 2 /\ q # <<>> /\ q[1] = x /\ q[2] = y
  OBVIOUS
<1> QED BY <1>1, <1>2, <1>3 DEF LastOf, BeforeOf

LEMMA NoLocalsAre ==
    /\ NoLocals \in LocType
    /\ NoLocals.op = "" /\ NoLocals.at = 0 /\ NoLocals.ip = 0 /\ NoLocals.dp = 0
    /\ NoLocals.inum = 0 /\ NoLocals.puts = <<>> /\ NoLocals.unref = 0
<1>1. <<>> \in Seq(Slots) /\ <<>> \in Seq(Names) /\ 0 \in 0 .. NINODE /\ 0 \in 0 .. NINODES
  BY InodeAssumption
<1> QED BY <1>1 DEF NoLocals, LocType

LEMMA SlotSeq ==
    ASSUME NEW s \in Slots
    PROVE  <<>> \in Seq(Slots) /\ <<s>> \in Seq(Slots) /\ s \in 0 .. NINODE /\ s # 0
BY InodeAssumption DEF Slots

-----------------------------------------------------------------------------
(* The steps that leave the disk alone.                                    *)
LEMMA CallStartStep ==
    ASSUME InodeInv, NEW p \in Procs, CallStart(p)
    PROVE  InodeInv'
<1> DEFINE t == Slot(icache, ROOTINO)
           e == Iget(icache, ROOTINO)
<1>i. TypeOK /\ RefCounts /\ ProcsOK /\ FreshOK /\ InodesOK /\ CacheCoherent
  BY DEF InodeInv
<1>1. ROOTINO \in Inums /\ Public(ROOTINO)
  BY <1>i, RootPublic
<1>2. /\ Good(e, dinode) /\ Tame(icache, e, p)
      /\ t \in Slots /\ e[t].inum = ROOTINO /\ e[t].ref = icache[t].ref + 1
      /\ \A u \in Slots : u # t => e[u] = icache[u]
  BY <1>i, <1>1, InvGood, IgetIs DEF CallStart
<1>3. PICK q \in Requests :
         /\ q.op \in {"open", "create"} => ofile[p] = 0
         /\ Step(p, "namex", [NoLocals EXCEPT !.op = q.op, !.path = q.path, !.new = q.new,
                                              !.at = t])
  BY DEF CallStart
<1> DEFINE r == [NoLocals EXCEPT !.op = q.op, !.path = q.path, !.new = q.new, !.at = t]
<1>4. icache' = e /\ UNCHANGED disk /\ ofile' = ofile /\ pc[p] = "user" /\ loc[p].puts = <<>>
      /\ loc[p].unref = 0
  BY DEF CallStart, At
<1>5. /\ r.op = q.op /\ r.path = q.path /\ r.new = q.new /\ r.at = t /\ r.ip = 0 /\ r.dp = 0
      /\ r.inum = 0 /\ r.puts = <<>> /\ r.unref = 0
      /\ q.op \in Calls /\ q.path \in Seq(Names) /\ q.new \in Seq(Names)
      /\ q.path # <<>> /\ (q.new # <<>> <=> q.op = "link")
  BY InodeAssumption DEF NoLocals
<1>6. r \in LocType
  <2>1. <<>> \in Seq(Slots) /\ t \in 0 .. NINODE
    BY <1>2, SlotSeq
  <2> HIDE DEF t
  <2> QED BY <1>5, <2>1, NoLocalsAre DEF LocType
<1> HIDE DEF r, t, e
<1>7. Moves(p) /\ pc'[p] = "namex" /\ loc'[p] = r
  <2>1. "namex" \in Places /\ ofile' \in [Procs -> 0 .. NINODE]
    BY <1>i, <1>4 DEF Places, TypeOK
  <2> QED BY <1>i, <1>3, <1>4, <1>6, <2>1, StepIs DEF r
<1>8. CallOK(p)
  BY <1>i DEF ProcsOK
<1>9. loc[p].at = 0 /\ loc[p].ip = 0 /\ loc[p].dp = 0
  BY <1>4, <1>8 DEF CallOK, HasIp, HasDp, Credit
<1>10. RefCounts'
  <2>1. ASSUME NEW s \in Slots
        PROVE  icache'[s].ref
                 = icache[s].ref + OwnRefs(ofile'[p], loc'[p], s) - OwnRefs(ofile[p], loc[p], s)
    <3>1. s # 0 /\ icache[s].ref \in Nat
      BY <1>i, SlotSeq DEF TypeOK, CacheType
    <3>2. OwnRefs(ofile'[p], r, s) = One(ofile[p] = s) + One(t = s)
      BY <1>4, <1>5, <3>1, PutsAre DEF OwnRefs, One
    <3>3. OwnRefs(ofile[p], loc[p], s) = One(ofile[p] = s)
      BY <1>4, <1>9, <3>1, PutsAre DEF OwnRefs, One
    <3>4. e[s].ref = icache[s].ref + One(t = s)
      BY <1>2, <3>1 DEF One
    <3> QED BY <1>4, <1>7, <3>1, <3>2, <3>3, <3>4 DEF One
  <2>2. Len(loc'[p].puts) <= 2
    BY <1>5, <1>7
  <2> QED BY <1>i, <1>7, <2>1, <2>2, RefsStep DEF Moves
<1>11. CallOK(p)' /\ LockOK(p)'
  <2>0. t # 0
    BY <1>2, SlotSeq
  <2>1. CallOK(p)'
    <3>1. ~Credit(p)'
      BY <1>5, <1>7 DEF Credit, Calls
    <3>2. q.op # "" /\ (q.op = "link" => q.new # <<>>) /\ q.path # <<>>
      BY <1>5 DEF Calls
    <3>3. pc'[p] # "user" /\ loc'[p].op \in {"open", "create"} => ofile'[p] = 0
      BY <1>3, <1>4, <1>5, <1>7
    <3>4. Len(loc'[p].puts) <= 1
      BY <1>5, <1>7, PutsAre
    <3> QED BY <1>5, <1>7, <2>0, <3>1, <3>2, <3>3, <3>4 DEF CallOK, HasIp, HasDp, Making, Named
  <2>2. LockOK(p)'
    <3>1. ofile[p] # 0 => icache[ofile[p]].valid /\ icache[ofile[p]].ref > 0 /\ ofile[p] \in Slots
      BY <1>i, Pinned, PointerIs DEF ProcsOK, LockOK, Fields, Used
    <3>2. ofile'[p] # 0 => icache'[ofile'[p]].valid
      BY <1>2, <1>4, <3>1 DEF Tame
    <3> QED BY <1>7, <3>2 DEF LockOK, DpLocked, IpLocked
  <2> QED BY <2>1, <2>2
<1>12. MayPoint(p)
  BY <1>1, <1>2, <1>4, <1>5, <1>7, PutsAre DEF MayPoint, May, HeldBy
<1> QED
  <2>1. ~Credit(p)'
    BY <1>3, <1>5, <1>7 DEF Credit, Calls
  <2> QED BY <1>2, <1>4, <1>5, <1>7, <1>10, <1>11, <1>12, <2>1, TameCalm, Quiet

(* A process locks an inode, and unlocks it without a change.              *)
LEMMA Glance ==
    ASSUME InodeInv, NEW p \in Procs, NEW f \in Lockable,
           NEW s, s = Pointer(p, f), s # 0, Unlocked(s)
    PROVE  LET e == Iunlock(Ilock(icache, s, p), s) IN
           /\ Good(e, dinode) /\ Tame(icache, e, p)
           /\ \A t \in Slots : e[t].ref = icache[t].ref
           /\ e[s].valid /\ e[s].inum = Inum(p, f)
           /\ \A t \in Slots : t # s => e[t] = icache[t]
<1> DEFINE c == Ilock(icache, s, p)
           e == Iunlock(c, s)
<1>1. /\ s \in Slots /\ Good(c, dinode) /\ Tame(icache, c, p) /\ c[s].lock = p /\ c[s].valid
      /\ \A t \in Slots : c[t].ref = icache[t].ref
      /\ \A t \in Slots : t # s => c[t] = icache[t]
      /\ c[s].inum = Inum(p, f)
  BY Enter
<1> HIDE DEF c
<1>2. /\ Good(e, dinode) /\ Tame(c, e, p) /\ e[s].valid = c[s].valid /\ e[s].inum = c[s].inum
      /\ \A t \in Slots : t # s => e[t] = c[t]
      /\ e[s].ref = c[s].ref
  <2>1. c[s].lock \in {p, None} /\ s \in Slots /\ Good(c, dinode)
    BY <1>1
  <2> QED BY <2>1, IunlockIs
<1> HIDE DEF e
<1>3. Tame(icache, e, p)
  BY <1>1, <1>2, TameTrans
<1> QED BY <1>1, <1>2, <1>3 DEF e, c

(* A process that holds the lock of s gets the entry of inode i.           *)
LEMMA GetInside ==
    ASSUME InodeInv, NEW p \in Procs, NEW f \in Lockable,
           NEW s, s = Pointer(p, f), s # 0, Unlocked(s),
           NEW i \in Inums, CanIget(Ilock(icache, s, p), i)
    PROVE  LET c == Ilock(icache, s, p)
               t == Slot(c, i)
               e == Iget(c, i) IN
           /\ Good(e, dinode) /\ Tame(icache, e, p)
           /\ t \in Slots /\ e[t].inum = i
           /\ \A u \in Slots : e[u].ref = icache[u].ref + One(t = u)
           /\ e[s].valid /\ e[s].lock = p /\ e[s].inum = Inum(p, f)
<1> DEFINE c == Ilock(icache, s, p)
           t == Slot(c, i)
           e == Iget(c, i)
<1>1. /\ s \in Slots /\ Good(c, dinode) /\ Tame(icache, c, p) /\ c[s].lock = p /\ c[s].valid
      /\ \A u \in Slots : c[u].ref = icache[u].ref
      /\ c[s].inum = Inum(p, f) /\ c[s].ref > 0
  BY Enter
<1>2. CanIget(c, i)
  OBVIOUS
<1> HIDE DEF c
<1>3. /\ Good(e, dinode) /\ Tame(c, e, p)
      /\ t \in Slots /\ e[t].inum = i /\ e[t].ref = c[t].ref + 1 /\ e[t].lock = c[t].lock
      /\ \A u \in Slots : u # t => e[u] = c[u]
  BY <1>1, <1>2, IgetIs
<1> HIDE DEF e, t
<1>4. Tame(icache, e, p)
  BY <1>1, <1>3, TameTrans
<1>5. e[s].valid /\ e[s].inum = c[s].inum
  BY <1>1, <1>3 DEF Tame
<1>6. e[s].lock = p
  BY <1>1, <1>3
<1>7. \A u \in Slots : icache[u].ref \in Nat
  BY DEF InodeInv, TypeOK, CacheType
<1>8. \A u \in Slots : e[u].ref = icache[u].ref + One(t = u)
  BY <1>1, <1>3, <1>7 DEF One
<1> QED BY <1>1, <1>3, <1>4, <1>5, <1>6, <1>8 DEF e, t, c

LEMMA Release ==
    ASSUME NEW c, NEW e, NEW d, NEW p \in Procs, NEW s \in Slots, Good(e, d), Tame(c, e, p),
           e[s].lock = p
    PROVE  LET g == Iunlock(e, s) IN
           /\ Good(g, d) /\ Tame(c, g, p)
           /\ \A u \in Slots : g[u].ref = e[u].ref /\ g[u].inum = e[u].inum
           /\ \A u \in Slots : g[u].valid = e[u].valid
<1> DEFINE g == Iunlock(e, s)
<1>1. /\ Good(g, d) /\ Tame(e, g, p)
      /\ \A t \in Slots : t # s => g[t] = e[t]
      /\ g[s].inum = e[s].inum /\ g[s].ref = e[s].ref /\ g[s].valid = e[s].valid
  BY IunlockIs
<1> HIDE DEF g
<1>2. Tame(c, g, p)
  BY <1>1, TameTrans
<1> QED BY <1>1, <1>2 DEF g

LEMMA NamexStep ==
    ASSUME InodeInv, NEW p \in Procs, Namex(p)
    PROVE  InodeInv'
<1> DEFINE r == loc[p]
           s == r.at
           c == Ilock(icache, s, p)
           last == Len(r.path) = 1
           i == Dirlookup(c, s, Head(r.path))
<1>i. TypeOK /\ RefCounts /\ ProcsOK /\ FreshOK /\ InodesOK /\ LinksHeld
  BY DEF InodeInv
<1>1. /\ pc[p] = "namex" /\ r.puts = <<>> /\ r.unref = 0 /\ Unlocked(s)
      /\ UNCHANGED disk /\ ofile' = ofile
  BY DEF Namex, At
<1>2. CallOK(p) /\ LockOK(p) /\ PointerOK(p)
  BY <1>i DEF ProcsOK
<1>3. /\ s # 0 /\ r.dp = 0 /\ r.inum = 0 /\ r.path # <<>> /\ r.op # ""
      /\ (r.ip # 0 <=> r.op = "link_new") /\ (r.op = "link" => r.new # <<>>)
      /\ (r.op \in {"open", "create"} => ofile[p] = 0)
  <2>1. Credit(p) <=> r.op = "link_new"
    BY <1>1 DEF Credit
  <2> DEFINE l == pc[p]
  <2>2. /\ r.at # 0 <=> l = "namex"
        /\ r.ip # 0 <=> l \in HasIp \/ Credit(p)
        /\ r.dp # 0 <=> l \in HasDp
        /\ r.inum # 0 <=> l = "ialloc"
        /\ l \in Named => r.path # <<>>
        /\ l = "namex" => r.op # "" /\ (r.op = "link" => r.new # <<>>)
        /\ l # "user" /\ r.op \in {"open", "create"} => ofile[p] = 0
    BY <1>2 DEF CallOK
  <2>3. l = "namex"
    BY <1>1
  <2>4. l \notin HasIp /\ l \notin HasDp /\ l \in Named
    BY <2>3 DEF HasIp, HasDp, Named
  <2> HIDE DEF r, l
  <2> QED BY <2>1, <2>2, <2>3, <2>4
<1>4. r \in LocType /\ ofile[p] \in 0 .. NINODE
  BY <1>i DEF TypeOK
<1>5. /\ r.op \in Calls \cup {"link_new"} /\ r.path \in Seq(Names) /\ r.new \in Seq(Names)
      /\ Head(r.path) \in Names /\ Tail(r.path) \in Seq(Names)
      /\ (~last => Tail(r.path) # <<>>)
  <2>1. /\ r.op \in Calls \cup {"link_new"} /\ r.path \in Seq(Names) /\ r.new \in Seq(Names)
    BY <1>3, <1>4 DEF LocType
  <2> HIDE DEF r
  <2>2. Head(r.path) \in Names /\ Tail(r.path) \in Seq(Names)
    BY <1>3, <2>1, HeadTailProperties
  <2>3. ~last => Tail(r.path) # <<>>
    <3>1. Len(Tail(r.path)) = Len(r.path) - 1 /\ Len(r.path) \in Nat
      BY <1>3, <2>1, HeadTailProperties, LenProperties
    <3>2. Tail(r.path) = <<>> => Len(Tail(r.path)) = 0
      BY PutsAre
    <3> QED BY <3>1, <3>2
  <2> QED BY <2>1, <2>2, <2>3
<1>6. s = Pointer(p, "at") /\ "at" \in Lockable
  BY PointerIs DEF Lockable
<1>7. /\ s \in Slots /\ Inum(p, "at") \in Inums /\ Public(Inum(p, "at"))
      /\ icache[s].inum = Inum(p, "at") /\ icache[s].ref > 0
  BY <1>i, <1>3, <1>6, PointedPublic DEF Fields
<1>8. /\ c[s].valid /\ c[s].lock = p /\ c[s].inum = Inum(p, "at")
      /\ c[s].type = dinode[Inum(p, "at")].type /\ c[s].addr = dinode[Inum(p, "at")].addr
  <2>1. s # 0 /\ Unlocked(s)
    BY <1>1, <1>3
  <2> HIDE DEF r, s
  <2> QED BY <1>6, <2>1, Enter
<1>9. /\ Good(Iunlock(c, s), dinode) /\ Tame(icache, Iunlock(c, s), p)
      /\ \A t \in Slots : Iunlock(c, s)[t].ref = icache[t].ref
      /\ Iunlock(c, s)[s].inum = Inum(p, "at")
  <2>1. s # 0 /\ Unlocked(s)
    BY <1>1, <1>3
  <2> HIDE DEF r, s
  <2> QED BY <1>6, <2>1, Glance
<1>10. c[s].type = "dir" /\ i # 0 => i \in Inums /\ Public(i)
  <2>1. ASSUME c[s].type = "dir", i # 0 PROVE i \in Inums /\ Public(i)
    <3>1. Inum(p, "at") \in Dirs
      BY <1>i, <1>7, <1>8, <2>1, PublicDir DEF IsDir
    <3>2. i = entry[dinode[Inum(p, "at")].addr][Head(r.path)]
      BY <1>8 DEF Dirlookup
    <3> QED BY <1>i, <1>5, <2>1, <3>1, <3>2, NamedPublic
  <2> QED BY <2>1
<1>11. \A t \in Slots : t # 0 /\ icache[t].ref \in Nat /\ t \in 0 .. NINODE /\ <<t>> \in Seq(Slots)
  BY <1>i, SlotSeq DEF TypeOK, CacheType
<1>12. ofile[p] # 0 => icache[ofile[p]].valid /\ icache[ofile[p]].ref > 0 /\ ofile[p] \in Slots
  BY <1>i, <1>2, Pinned, PointerIs DEF LockOK, Fields, Used
<1>13. \A t \in Slots : OwnRefs(ofile[p], r, t) = One(ofile[p] = t) + One(s = t) + One(r.ip = t)
  <2>1. LastOf(r.puts) = 0 /\ BeforeOf(r.puts) = 0 /\ r.dp = 0 /\ r.unref = 0
    BY <1>1, <1>3, PutsAre
  <2>2. \A t \in Slots : t # 0
    BY <1>11
  <2> HIDE DEF r
  <2> QED BY <2>1, <2>2 DEF OwnRefs, One
<1>t. <<>> \in Seq(Slots) /\ 0 \in 0 .. NINODE
  BY InodeAssumption
(* Whatever the step leaves in loc[p], it is right if this holds of it. *)
<1> DEFINE Call(l, u) ==
             /\ u \in LocType /\ Len(u.puts) <= 1 /\ u.inum = 0 /\ u.unref = 0
             /\ u.op = r.op /\ u.new = r.new
             /\ l \in {"user", "link_bad", "create", "unlink", "link_new", "open", "link", "namex"}
             /\ u.at # 0 <=> l = "namex"
             /\ u.ip # 0 <=> r.op = "link_new" \/ l \in {"open", "link"}
             /\ u.dp # 0 <=> l \in {"create", "unlink", "link_new"}
             /\ l # "user" /\ l # "link_bad" => u.path # <<>>
             /\ l = "create" => r.op \in {"create", "mkdir", "mknod"}
             /\ (l = "open" => r.op = "open") /\ (l = "link" => r.op = "link")
             /\ l \in {"link_new", "link_bad"} => r.op = "link_new"
             /\ r.op = "link_new" => u.ip = r.ip /\ l \in {"link_new", "link_bad", "namex"}
           Cache(u, e) ==
             /\ Good(e, dinode) /\ Tame(icache, e, p)
             /\ \A t \in Slots : e[t].ref
                  = icache[t].ref + OwnRefs(ofile[p], u, t) - OwnRefs(ofile[p], r, t)
             /\ u.dp # 0 => IsDir(e[u.dp].inum)
<1>14. ASSUME NEW l, NEW u, NEW e, icache' = e, Step(p, l, u), Call(l, u), Cache(u, e), MayPoint(p)
       PROVE  InodeInv'
  <2>0. l \in Places
    BY <1>14 DEF Places
  <2>1. Moves(p) /\ pc'[p] = l /\ loc'[p] = u
    BY <1>i, <1>1, <1>14, <2>0, StepIs DEF TypeOK
  <2>2. RefCounts'
    <3>1. \A t \in Slots : icache'[t].ref
             = icache[t].ref + OwnRefs(ofile'[p], loc'[p], t) - OwnRefs(ofile[p], loc[p], t)
      BY <1>1, <1>14, <2>1
    <3>2. Len(loc'[p].puts) <= 2
      <4>1. Len(u.puts) \in Nat
        BY LenProperties DEF LocType
      <4> QED BY <1>14, <2>1, <4>1
    <3> QED BY <1>i, <2>1, <3>1, <3>2, RefsStep DEF Moves
  <2>3. Credit(p)' <=> r.op = "link_new"
    BY <1>14, <2>1 DEF Credit
  <2>4. CallOK(p)'
    BY <1>1, <1>3, <1>14, <2>1, <2>3 DEF CallOK, HasIp, HasDp, Making, Named
  <2>5. LockOK(p)'
    BY <1>1, <1>12, <1>14, <2>1 DEF LockOK, DpLocked, IpLocked, Tame
  <2>6. Credit(p)' => Credit(p) /\ loc'[p].ip = loc[p].ip
    BY <1>1, <1>14, <2>1, <2>3 DEF Credit
  <2> QED BY <1>1, <1>14, <2>1, <2>2, <2>4, <2>5, <2>6, TameCalm, Quiet
<1> HIDE DEF c, Call, Cache
<1>15. CASE c[s].type # "dir" \/ ((~Parent(r) \/ ~last) /\ i = 0)
  <2> DEFINE l == Missing(r.op)
             u == [r EXCEPT !.at = 0, !.puts = <<s>>]
             e == Iunlock(c, s)
  <2>1. icache' = e /\ Step(p, l, u)
    BY <1>15 DEF Namex, c
  <2>2. /\ u \in LocType /\ u.op = r.op /\ u.new = r.new /\ u.at = 0 /\ u.ip = r.ip /\ u.dp = 0
        /\ u.inum = 0 /\ u.puts = <<s>> /\ u.unref = 0 /\ u.path = r.path
    BY <1>1, <1>3, <1>4, <1>7, <1>11, <1>t DEF LocType
  <2>3. l = IF r.op = "link_new" THEN "link_bad" ELSE "user"
    BY DEF Missing
  <2>4. l \in Places
    BY <2>3 DEF Places
  <2> HIDE DEF u, l, e, r
  <2>5. \A t \in Slots : OwnRefs(ofile[p], u, t) = One(ofile[p] = t) + One(s = t) + One(r.ip = t)
    BY <1>11, <2>2, PutsAre DEF OwnRefs, One
  <2>6. \A t \in Slots : e[t].ref
                = icache[t].ref + OwnRefs(ofile[p], u, t) - OwnRefs(ofile[p], r, t)
    BY <1>9, <1>11, <1>13, <2>5 DEF One, e
  <2>7. MayPoint(p)
    <3>1. loc'[p] = u
      BY <1>i, <2>1 DEF Step, TypeOK
    <3> QED BY <1>1, <2>2, <3>1, PutsAre DEF MayPoint, May, HeldBy, r
  <2>8. Len(u.puts) <= 1
    BY <2>2, PutsAre
  <2>9. Call(l, u)
    BY <1>3, <2>2, <2>3, <2>8 DEF Call
  <2>10. Cache(u, e)
    BY <1>9, <2>2, <2>6 DEF Cache, e
  <2> QED BY <1>14, <2>1, <2>7, <2>9, <2>10

<1>16. CASE ~(c[s].type # "dir" \/ ((~Parent(r) \/ ~last) /\ i = 0)) /\ Parent(r) /\ last
  <2> DEFINE l == Found(r.op)
             u == [r EXCEPT !.at = 0, !.dp = s]
             e == Iunlock(c, s)
  <2>1. icache' = e /\ Step(p, l, u)
    BY <1>16 DEF Namex, c
  <2>2. /\ u \in LocType /\ u.op = r.op /\ u.new = r.new /\ u.at = 0 /\ u.ip = r.ip /\ u.dp = s
        /\ u.inum = 0 /\ u.puts = <<>> /\ u.unref = 0 /\ u.path = r.path
    BY <1>1, <1>3, <1>4, <1>7, <1>11, <1>t DEF LocType
  <2>3. /\ r.op \in {"create", "mkdir", "mknod", "unlink", "link_new"}
        /\ l = IF r.op \in {"mkdir", "mknod"} THEN "create" ELSE r.op
    BY <1>16 DEF Found, Parent
  <2>4. l \in {"create", "unlink", "link_new"} /\ l \in Places
    BY <2>3 DEF Places
  <2> HIDE DEF u, l, e, r
  <2>5. \A t \in Slots : OwnRefs(ofile[p], u, t) = One(ofile[p] = t) + One(s = t) + One(r.ip = t)
    BY <1>11, <2>2, PutsAre DEF OwnRefs, One
  <2>6. \A t \in Slots : e[t].ref
                = icache[t].ref + OwnRefs(ofile[p], u, t) - OwnRefs(ofile[p], r, t)
    BY <1>9, <1>11, <1>13, <2>5 DEF One, e
  <2>7. MayPoint(p)
    <3>1. loc'[p] = u
      BY <1>i, <2>1 DEF Step, TypeOK
    <3> QED BY <1>1, <2>2, <3>1, PutsAre DEF MayPoint, May, HeldBy, r
  <2>8. Len(u.puts) <= 1
    BY <2>2, PutsAre
  <2>9. IsDir(e[u.dp].inum)
    BY <1>8, <1>9, <1>16, <2>2 DEF IsDir, e
  <2>10. /\ l = "link_new" <=> r.op = "link_new"
         /\ l = "create" => r.op \in {"create", "mkdir", "mknod"}
    BY <2>3
  <2>11. Call(l, u)
    BY <1>3, <1>7, <1>11, <2>2, <2>4, <2>8, <2>10 DEF Call
  <2>12. Cache(u, e)
    BY <1>9, <2>6, <2>9 DEF Cache, e
  <2> QED BY <1>14, <2>1, <2>7, <2>11, <2>12
<1>17. CASE ~(c[s].type # "dir" \/ ((~Parent(r) \/ ~last) /\ i = 0)) /\ ~(Parent(r) /\ last)
  <2> DEFINE t == Slot(c, i)
             e == Iunlock(Iget(c, i), s)
             l == IF last THEN Found(r.op) ELSE "namex"
             u == IF last THEN [r EXCEPT !.at = 0, !.ip = t, !.puts = <<s>>]
                  ELSE [r EXCEPT !.at = t, !.path = Tail(@), !.puts = <<s>>]
  <2>1. CanIget(c, i) /\ icache' = e /\ Step(p, l, u)
    BY <1>17 DEF Namex, c
  <2>2. i \in Inums /\ Public(i)
    BY <1>10, <1>17
  <2>3. /\ Good(Iget(c, i), dinode) /\ Tame(icache, Iget(c, i), p)
        /\ t \in Slots /\ Iget(c, i)[t].inum = i
        /\ \A v \in Slots : Iget(c, i)[v].ref = icache[v].ref + One(t = v)
        /\ Iget(c, i)[s].lock = p
    <3> HIDE DEF i
    <3>1. CanIget(Ilock(icache, s, p), i)
      BY <2>1 DEF c
    <3>2. s # 0 /\ Unlocked(s)
      BY <1>1, <1>3
    <3> HIDE DEF r, s, i
    <3> QED BY <1>6, <2>2, <3>1, <3>2, GetInside DEF c
  <2> HIDE DEF t, i
  <2>4. /\ Good(e, dinode) /\ Tame(icache, e, p) /\ e[t].inum = i
        /\ \A v \in Slots : e[v].ref = icache[v].ref + One(t = v)
    BY <1>7, <2>3, Release
  <2> HIDE DEF e
  <2>5. /\ u \in LocType /\ u.op = r.op /\ u.new = r.new /\ u.dp = 0
        /\ u.inum = 0 /\ u.puts = <<s>> /\ u.unref = 0
        /\ last => u.at = 0 /\ u.ip = t /\ u.path = r.path
        /\ ~last => u.at = t /\ u.ip = r.ip /\ u.path = Tail(r.path)
    BY <1>1, <1>3, <1>4, <1>5, <1>7, <1>11, <1>t, <2>3 DEF LocType
  <2>6. last => l = r.op /\ r.op \in {"open", "link"}
    BY <1>5, <1>17 DEF Found, Parent, Calls
  <2>7. l \in {"open", "link", "namex"} /\ (~last => l = "namex") /\ l \in Places
    BY <2>6 DEF Places
  <2> HIDE DEF u, l, r
  <2>8. \A v \in Slots : OwnRefs(ofile[p], u, v)
            = One(ofile[p] = v) + One(s = v) + One(r.ip = v) + One(t = v)
    <3>1. last => r.ip = 0
      BY <1>3, <2>6
    <3> HIDE DEF last
    <3>2. CASE last
      BY <1>11, <2>5, <3>1, <3>2, PutsAre DEF OwnRefs, One
    <3>3. CASE ~last
      BY <1>11, <2>5, <3>3, PutsAre DEF OwnRefs, One
    <3> QED BY <3>2, <3>3
  <2>9. \A v \in Slots : e[v].ref
                = icache[v].ref + OwnRefs(ofile[p], u, v) - OwnRefs(ofile[p], r, v)
    BY <1>11, <1>13, <2>4, <2>8 DEF One
  <2>10. MayPoint(p)
    <3>1. loc'[p] = u
      BY <1>i, <2>1 DEF Step, TypeOK
    <3>2. May(p, t) /\ May(p, 0) /\ May(p, s) /\ May(p, r.ip) /\ May(p, ofile[p])
      BY <2>1, <2>2, <2>4 DEF May, HeldBy, r
    <3>3. (u.at = 0 \/ u.at = t) /\ (u.ip = t \/ u.ip = r.ip)
      BY <2>5
    <3> QED BY <1>1, <2>5, <3>1, <3>2, <3>3, PutsAre DEF MayPoint
  <2>11. Len(u.puts) <= 1
    BY <2>5, PutsAre
  <2>12. /\ u.at # 0 <=> l = "namex"
         /\ u.ip # 0 <=> r.op = "link_new" \/ l \in {"open", "link"}
         /\ u.path # <<>>
         /\ l = "open" => r.op = "open"
         /\ l = "link" => r.op = "link"
         /\ r.op = "link_new" => u.ip = r.ip
    <3>1. t # 0
      BY <1>11, <2>3
    <3> HIDE DEF last
    <3>2. CASE last
      BY <1>3, <2>5, <2>6, <3>1, <3>2
    <3>3. CASE ~last
      BY <1>3, <1>5, <2>5, <2>7, <3>1, <3>3
    <3> QED BY <3>2, <3>3
  <2>13. Call(l, u)
    BY <1>3, <2>5, <2>7, <2>11, <2>12 DEF Call
  <2>14. Cache(u, e)
    BY <2>4, <2>5, <2>9 DEF Cache
  <2> QED BY <1>14, <2>1, <2>10, <2>13, <2>14
<1> QED BY <1>15, <1>16, <1>17

(* The two ends of a call: s is the only entry that it has left.           *)
Only(p, s) == /\ pc[p] \notin {"user", "ialloc", "new"} /\ s \in Slots /\ s \in HeldBy(p)
              /\ \A t \in Slots :
                    OwnRefs(ofile[p], loc[p], t) = One(ofile[p] = t) + One(s = t)

LEMMA DroppedStep ==
    ASSUME InodeInv, NEW p \in Procs, NEW c, NEW s, Dropped(p, c, s), UNCHANGED disk, Only(p, s),
           Good(Iunlock(c, s), dinode), Tame(icache, Iunlock(c, s), p),
           \A t \in Slots : Iunlock(c, s)[t].ref = icache[t].ref
    PROVE  InodeInv'
<1> DEFINE u == [NoLocals EXCEPT !.puts = <<s>>]
           e == Iunlock(c, s)
<1>i. TypeOK /\ RefCounts /\ ProcsOK
  BY DEF InodeInv
<1>1. icache' = e /\ Step(p, "user", u) /\ ofile' = ofile
  BY DEF Dropped
<1>2. /\ u \in LocType /\ u.op = "" /\ u.at = 0 /\ u.ip = 0 /\ u.dp = 0
      /\ u.inum = 0 /\ u.puts = <<s>> /\ u.unref = 0
  BY NoLocalsAre, SlotSeq DEF LocType, Only
<1> HIDE DEF u, e
<1>3. Moves(p) /\ pc'[p] = "user" /\ loc'[p] = u
  <2>1. "user" \in Places /\ ofile' \in [Procs -> 0 .. NINODE]
    BY <1>i, <1>1 DEF Places, TypeOK
  <2> QED BY <1>i, <1>1, <1>2, <2>1, StepIs
<1>4. LastOf(u.puts) = s /\ BeforeOf(u.puts) = 0 /\ Len(u.puts) = 1
  BY <1>2, PutsAre
<1>5. RefCounts'
  <2>1. ASSUME NEW t \in Slots
        PROVE  icache'[t].ref
                 = icache[t].ref + OwnRefs(ofile'[p], loc'[p], t) - OwnRefs(ofile[p], loc[p], t)
    <3>1. t # 0 /\ icache[t].ref \in Nat
      BY <1>i, SlotSeq DEF TypeOK, CacheType
    <3>2. OwnRefs(ofile'[p], u, t) = One(ofile[p] = t) + One(s = t)
      <4>1. u.at = 0 /\ u.ip = 0 /\ u.dp = 0 /\ u.unref = 0 /\ ofile'[p] = ofile[p]
        BY <1>1, <1>2
      <4> QED BY <1>4, <3>1, <4>1 DEF OwnRefs, One
    <3>3. OwnRefs(ofile[p], loc[p], t) = One(ofile[p] = t) + One(s = t)
      BY DEF Only
    <3> QED BY <1>1, <1>3, <3>1, <3>2, <3>3 DEF One, e
  <2>2. Len(loc'[p].puts) <= 2
    BY <1>3, <1>4
  <2> QED BY <1>i, <1>3, <2>1, <2>2, RefsStep DEF Moves
<1>6. ~Credit(p)'
  BY <1>3 DEF Credit
<1>7. CallOK(p)'
  BY <1>2, <1>3, <1>6 DEF CallOK, HasIp, HasDp, Named, Making
<1>8. LockOK(p)'
  <2>1. ofile[p] # 0 => icache[ofile[p]].valid /\ icache[ofile[p]].ref > 0 /\ ofile[p] \in Slots
    BY <1>i, Pinned, PointerIs DEF ProcsOK, LockOK, Fields, Used
  <2>2. ofile'[p] # 0 => icache'[ofile'[p]].valid
    BY <1>1, <2>1 DEF Tame, e
  <2> QED BY <1>3, <2>2 DEF LockOK, DpLocked, IpLocked
<1>9. MayPoint(p)
  BY <1>1, <1>2, <1>3, <1>4 DEF MayPoint, May, HeldBy, Only
<1> QED BY <1>1, <1>2, <1>3, <1>5, <1>6, <1>7, <1>8, <1>9, TameCalm, Quiet DEF Only, e

LEMMA OpenedStep ==
    ASSUME InodeInv, NEW p \in Procs, NEW c, NEW s, Opened(p, c, s), UNCHANGED disk, Only(p, s),
           Good(Iunlock(c, s), dinode), Tame(icache, Iunlock(c, s), p),
           \A t \in Slots : Iunlock(c, s)[t].ref = icache[t].ref,
           Iunlock(c, s)[s].valid, loc[p].op \in {"open", "create"}
    PROVE  InodeInv'
<1> DEFINE u == NoLocals
           e == Iunlock(c, s)
<1>i. TypeOK /\ RefCounts /\ ProcsOK
  BY DEF InodeInv
<1>1. icache' = e /\ Step(p, "user", u) /\ ofile' = [ofile EXCEPT ![p] = s]
  BY DEF Opened
<1>2. /\ u \in LocType /\ u.op = "" /\ u.at = 0 /\ u.ip = 0 /\ u.dp = 0
      /\ u.inum = 0 /\ u.puts = <<>> /\ u.unref = 0
  BY NoLocalsAre
<1> HIDE DEF u, e
<1>o. ofile'[p] = s /\ ofile' \in [Procs -> 0 .. NINODE] /\ ofile[p] = 0
      /\ \A q \in Procs : q # p => ofile'[q] = ofile[q]
  <2>1. ofile \in [Procs -> 0 .. NINODE] /\ s \in 0 .. NINODE
    BY <1>i, SlotSeq DEF TypeOK, Only
  <2>2. ofile[p] = 0
    BY <1>i DEF ProcsOK, CallOK, Only
  <2> QED BY <1>1, <2>1, <2>2
<1>3. Moves(p) /\ pc'[p] = "user" /\ loc'[p] = u
  <2>1. "user" \in Places
    BY DEF Places
  <2> QED BY <1>i, <1>1, <1>2, <1>o, <2>1, StepIs
<1>4. LastOf(u.puts) = 0 /\ BeforeOf(u.puts) = 0 /\ Len(u.puts) = 0
  BY <1>2, PutsAre
<1>5. RefCounts'
  <2>1. ASSUME NEW t \in Slots
        PROVE  icache'[t].ref
                 = icache[t].ref + OwnRefs(ofile'[p], loc'[p], t) - OwnRefs(ofile[p], loc[p], t)
    <3>1. t # 0 /\ icache[t].ref \in Nat
      BY <1>i, SlotSeq DEF TypeOK, CacheType
    <3>2. OwnRefs(ofile'[p], u, t) = One(s = t)
      <4>1. u.at = 0 /\ u.ip = 0 /\ u.dp = 0 /\ u.unref = 0 /\ ofile'[p] = s
        BY <1>2, <1>o
      <4> QED BY <1>4, <3>1, <4>1 DEF OwnRefs, One
    <3>3. OwnRefs(ofile[p], loc[p], t) = One(s = t)
      BY <1>o, <3>1 DEF Only, One
    <3> QED BY <1>1, <1>3, <3>1, <3>2, <3>3 DEF One, e
  <2>2. Len(loc'[p].puts) <= 2
    BY <1>3, <1>4
  <2> QED BY <1>i, <1>3, <2>1, <2>2, RefsStep DEF Moves
<1>6. ~Credit(p)'
  BY <1>3 DEF Credit
<1>7. CallOK(p)'
  BY <1>2, <1>3, <1>6 DEF CallOK, HasIp, HasDp, Named, Making
<1>8. LockOK(p)'
  BY <1>1, <1>3, <1>o DEF LockOK, DpLocked, IpLocked, e
<1>9. MayPoint(p)
  BY <1>o, <1>2, <1>3, <1>4 DEF MayPoint, May, Only
<1> QED BY <1>1, <1>2, <1>3, <1>5, <1>6, <1>7, <1>8, <1>9, TameCalm, Quiet DEF Only, e

(* Where a call that is not looking up a path is, and what it has.         *)
LEMMA AtIs ==
    ASSUME InodeInv, NEW p \in Procs, NEW l, At(p, l), l # "namex"
    PROVE  LET r == loc[p] IN
           /\ pc[p] = l /\ r \in LocType /\ ofile[p] \in 0 .. NINODE
           /\ r.puts = <<>> /\ r.unref = 0 /\ r.at = 0
           /\ r.ip # 0 <=> l \in HasIp
           /\ r.dp # 0 <=> l \in HasDp
           /\ r.inum # 0 <=> l = "ialloc"
           /\ \A t \in Slots :
                 OwnRefs(ofile[p], r, t) = One(ofile[p] = t) + One(r.ip = t) + One(r.dp = t)
<1> DEFINE r == loc[p]
<1>1. TypeOK /\ CallOK(p)
  BY DEF InodeInv, ProcsOK
<1>2. pc[p] = l /\ r \in LocType /\ ofile[p] \in 0 .. NINODE /\ r.puts = <<>> /\ r.unref = 0
  BY <1>1 DEF At, TypeOK
<1>3. Credit(p) => l \in HasIp
  BY <1>2 DEF Credit, HasIp
<1>4. /\ r.at # 0 <=> l = "namex"
      /\ r.ip # 0 <=> l \in HasIp \/ Credit(p)
      /\ r.dp # 0 <=> l \in HasDp
      /\ r.inum # 0 <=> l = "ialloc"
  BY <1>1, <1>2 DEF CallOK
<1>5. LastOf(r.puts) = 0 /\ BeforeOf(r.puts) = 0
  BY <1>2, PutsAre
<1>6. \A t \in Slots : t # 0
  BY SlotSeq
<1> HIDE DEF r
<1>7. \A t \in Slots :
         OwnRefs(ofile[p], r, t) = One(ofile[p] = t) + One(r.ip = t) + One(r.dp = t)
  <2>1. r.at = 0 /\ r.unref = 0
    BY <1>2, <1>4
  <2> QED BY <1>5, <1>6, <2>1 DEF OwnRefs, One
<1> QED BY <1>2, <1>3, <1>4, <1>7 DEF r

(* A call that locks its last entry ends there.                            *)
LEMMA EndIp ==
    ASSUME InodeInv, NEW p \in Procs, NEW l \in {"open", "found", "link"}, At(p, l),
           Unlocked(loc[p].ip), UNCHANGED disk,
           \/ loc[p].op \in {"open", "create"} /\ Opened(p, Ilock(icache, loc[p].ip, p), loc[p].ip)
           \/ Dropped(p, Ilock(icache, loc[p].ip, p), loc[p].ip)
    PROVE  InodeInv'
<1> DEFINE s == loc[p].ip
           c == Ilock(icache, s, p)
<1>1. /\ pc[p] = l /\ s # 0 /\ loc[p].dp = 0
      /\ \A t \in Slots :
            OwnRefs(ofile[p], loc[p], t) = One(ofile[p] = t) + One(s = t) + One(loc[p].dp = t)
  BY AtIs DEF HasIp, HasDp
<1>2. s = Pointer(p, "ip") /\ "ip" \in Lockable /\ "ip" \in Fields
  BY PointerIs DEF Lockable, Fields
<1>3. s \in Slots /\ s \in HeldBy(p)
  BY <1>1, <1>2, Pinned DEF InodeInv, HeldBy
<1>4. Only(p, s)
  <2>1. \A t \in Slots : t # 0
    BY SlotSeq
  <2> HIDE DEF s
  <2> QED BY <1>1, <1>3, <2>1 DEF Only, One
<1>5. Unlocked(s) /\ s # 0
  BY <1>1
<1> HIDE DEF s
<1>6. /\ Good(Iunlock(c, s), dinode) /\ Tame(icache, Iunlock(c, s), p)
      /\ \A t \in Slots : Iunlock(c, s)[t].ref = icache[t].ref
      /\ Iunlock(c, s)[s].valid
  BY <1>2, <1>5, Glance
<1>7. CASE loc[p].op \in {"open", "create"} /\ Opened(p, c, s)
  <2> HIDE DEF c
  <2> QED BY <1>4, <1>6, <1>7, OpenedStep
<1>8. CASE Dropped(p, c, s)
  <2> HIDE DEF c
  <2> QED BY <1>4, <1>6, <1>8, DroppedStep
<1> QED BY <1>7, <1>8 DEF s

LEMMA OpenStep ==
    ASSUME InodeInv, NEW p \in Procs, Open(p)
    PROVE  InodeInv'
<1>1. At(p, "open") /\ Unlocked(loc[p].ip) /\ UNCHANGED disk
  BY DEF Open
<1>2. loc[p].op = "open"
  BY <1>1 DEF InodeInv, ProcsOK, CallOK, At
<1> QED BY <1>1, <1>2, EndIp DEF Open

LEMMA CreateFoundStep ==
    ASSUME InodeInv, NEW p \in Procs, CreateFound(p)
    PROVE  InodeInv'
<1>1. At(p, "found") /\ Unlocked(loc[p].ip) /\ UNCHANGED disk
  BY DEF CreateFound
<1> QED BY <1>1, EndIp DEF CreateFound

LEMMA CreatedStep ==
    ASSUME InodeInv, NEW p \in Procs, Created(p)
    PROVE  InodeInv'
<1> DEFINE s == loc[p].ip
<1>0. At(p, "created") /\ UNCHANGED disk
  BY DEF Created
<1>1. /\ pc[p] = "created" /\ s # 0 /\ loc[p].dp = 0
      /\ \A t \in Slots :
            OwnRefs(ofile[p], loc[p], t) = One(ofile[p] = t) + One(s = t) + One(loc[p].dp = t)
  BY <1>0, AtIs DEF HasIp, HasDp
<1>2. s \in Slots /\ s \in HeldBy(p)
  BY <1>1, Pinned, PointerIs DEF InodeInv, HeldBy, Fields
<1>3. icache[s].lock = p /\ icache[s].valid
  BY <1>1 DEF InodeInv, ProcsOK, LockOK, IpLocked
<1>4. Only(p, s)
  <2>1. \A t \in Slots : t # 0
    BY SlotSeq
  <2> HIDE DEF s
  <2> QED BY <1>1, <1>2, <2>1 DEF Only, One
<1>5. Good(icache, dinode)
  BY InvGood DEF InodeInv
<1>6. /\ Good(Iunlock(icache, s), dinode) /\ Tame(icache, Iunlock(icache, s), p)
      /\ \A t \in Slots : Iunlock(icache, s)[t].ref = icache[t].ref
      /\ Iunlock(icache, s)[s].valid
  <2> HIDE DEF s
  <2>1. Tame(icache, icache, p)
    BY DEF Tame
  <2> QED BY <1>2, <1>3, <1>5, <2>1, Release
<1>7. CASE loc[p].op = "create" /\ Opened(p, icache, s)
  BY <1>0, <1>4, <1>6, <1>7, OpenedStep
<1>8. CASE Dropped(p, icache, s)
  BY <1>0, <1>4, <1>6, <1>8, DroppedStep
<1> QED BY <1>7, <1>8 DEF Created

LEMMA UnlinkBadStep ==
    ASSUME InodeInv, NEW p \in Procs, UnlinkBad(p)
    PROVE  InodeInv'
<1> DEFINE s == loc[p].dp
<1>0. At(p, "unlink_bad") /\ UNCHANGED disk /\ Dropped(p, icache, s)
  BY DEF UnlinkBad
<1>1. /\ pc[p] = "unlink_bad" /\ s # 0 /\ loc[p].ip = 0
      /\ \A t \in Slots :
            OwnRefs(ofile[p], loc[p], t) = One(ofile[p] = t) + One(loc[p].ip = t) + One(s = t)
  BY <1>0, AtIs DEF HasIp, HasDp
<1>2. s \in Slots /\ s \in HeldBy(p)
  BY <1>1, Pinned, PointerIs DEF InodeInv, HeldBy, Fields
<1>3. icache[s].lock = p /\ icache[s].valid
  BY <1>1 DEF InodeInv, ProcsOK, LockOK, DpLocked
<1>4. Only(p, s)
  <2>1. \A t \in Slots : t # 0
    BY SlotSeq
  <2> HIDE DEF s
  <2> QED BY <1>1, <1>2, <2>1 DEF Only, One
<1>5. Good(icache, dinode)
  BY InvGood DEF InodeInv
<1>6. /\ Good(Iunlock(icache, s), dinode) /\ Tame(icache, Iunlock(icache, s), p)
      /\ \A t \in Slots : Iunlock(icache, s)[t].ref = icache[t].ref
  <2> HIDE DEF s
  <2>1. Tame(icache, icache, p)
    BY DEF Tame
  <2> QED BY <1>2, <1>3, <1>5, <2>1, Release
<1> QED BY <1>0, <1>4, <1>6, DroppedStep

-----------------------------------------------------------------------------
(* A step in the middle of a call, to place l with the locals u and the    *)
(* cache e: what it must see to, in terms of these.                        *)
CreditAt(l, u) == \/ l \in {"link_root", "link_new", "link_exists", "link_bad", "unlinked"}
                  \/ l = "namex" /\ u.op = "link_new"

CallAt(l, u, o) ==
    /\ l \in Places /\ u \in LocType
    /\ u.at # 0 <=> l = "namex"
    /\ u.ip # 0 <=> l \in HasIp \/ CreditAt(l, u)
    /\ u.dp # 0 <=> l \in HasDp
    /\ u.inum # 0 <=> l = "ialloc"
    /\ l \in Named => u.path # <<>>
    /\ l = "namex" => u.op # "" /\ (u.op = "link" => u.new # <<>>)
    /\ l \in {"link", "link_root"} => u.new # <<>>
    /\ l \in Making => u.op \in {"create", "mkdir", "mknod"}
    /\ l = "open" => u.op = "open"
    /\ l # "user" /\ u.op \in {"open", "create"} => o = 0
    /\ Len(u.puts) <= 2 /\ (l # "user" => Len(u.puts) <= 1)
    /\ l \in {"ialloc", "new"} => u.puts = <<>> /\ u.unref = 0

LocksAt(l, u, e, p) == /\ l \in DpLocked => e[u.dp].lock = p /\ e[u.dp].valid
                       /\ l \in IpLocked => e[u.ip].lock = p /\ e[u.ip].valid

CountsAt(u, e, p) == \A t \in Slots :
    e[t].ref = icache[t].ref + OwnRefs(ofile[p], u, t) - OwnRefs(ofile[p], loc[p], t)

LEMMA MiddleIs ==
    ASSUME InodeInv, NEW p \in Procs, NEW l, NEW u, NEW e, Step(p, l, u), ofile' = ofile,
           icache' = e, Tame(icache, e, p),
           CallAt(l, u, ofile[p]), LocksAt(l, u, e, p), CountsAt(u, e, p)
    PROVE  /\ Moves(p) /\ pc'[p] = l /\ loc'[p] = u
           /\ RefCounts' /\ CallOK(p)' /\ LockOK(p)'
           /\ Credit(p)' <=> CreditAt(l, u)
<1>i. TypeOK /\ RefCounts /\ ProcsOK
  BY DEF InodeInv
<1>1. Moves(p) /\ pc'[p] = l /\ loc'[p] = u
  <2>1. l \in Places /\ u \in LocType
    BY DEF CallAt
  <2>2. ofile' \in [Procs -> 0 .. NINODE] /\ \A q \in Procs : q # p => ofile'[q] = ofile[q]
    BY <1>i DEF TypeOK
  <2> QED BY <1>i, <2>1, <2>2, StepIs
<1>2. RefCounts'
  <2>1. \A t \in Slots : icache'[t].ref
           = icache[t].ref + OwnRefs(ofile'[p], loc'[p], t) - OwnRefs(ofile[p], loc[p], t)
    BY <1>1 DEF CountsAt
  <2>2. Len(loc'[p].puts) <= 2
    <3>1. Len(u.puts) <= 2
      BY DEF CallAt
    <3> QED BY <1>1, <3>1
  <2> QED BY <1>i, <1>1, <2>1, <2>2, RefsStep DEF Moves
<1>3. Credit(p)' <=> CreditAt(l, u)
  BY <1>1 DEF Credit, CreditAt
<1>4. CallOK(p)'
  <2>1. l = pc'[p] /\ u = loc'[p] /\ ofile[p] = ofile'[p]
    BY <1>1
  <2>2. CallAt(pc'[p], loc'[p], ofile'[p]) /\ (Credit(p)' <=> CreditAt(pc'[p], loc'[p]))
    BY <1>3, <2>1
  <2>3. /\ loc'[p].at # 0 <=> pc'[p] = "namex"
        /\ loc'[p].ip # 0 <=> pc'[p] \in HasIp \/ Credit(p)'
        /\ loc'[p].dp # 0 <=> pc'[p] \in HasDp
        /\ loc'[p].inum # 0 <=> pc'[p] = "ialloc"
        /\ pc'[p] # "user" => Len(loc'[p].puts) <= 1
        /\ pc'[p] \in {"ialloc", "new"} => loc'[p].puts = <<>> /\ loc'[p].unref = 0
    BY <2>2 DEF CallAt
  <2>4. /\ pc'[p] \in Named => loc'[p].path # <<>>
        /\ pc'[p] = "namex" => loc'[p].op # "" /\ (loc'[p].op = "link" => loc'[p].new # <<>>)
        /\ pc'[p] \in {"link", "link_root"} => loc'[p].new # <<>>
        /\ pc'[p] \in Making => loc'[p].op \in {"create", "mkdir", "mknod"}
        /\ pc'[p] = "open" => loc'[p].op = "open"
        /\ pc'[p] # "user" /\ loc'[p].op \in {"open", "create"} => ofile'[p] = 0
    BY <2>2 DEF CallAt
  <2> QED BY <2>3, <2>4 DEF CallOK
<1>5. LockOK(p)'
  <2>1. ofile[p] # 0 => icache[ofile[p]].valid /\ icache[ofile[p]].ref > 0 /\ ofile[p] \in Slots
    BY <1>i, Pinned, PointerIs DEF ProcsOK, LockOK, Fields, Used
  <2>2. ofile'[p] # 0 => icache'[ofile'[p]].valid
    BY <2>1 DEF Tame
  <2> QED BY <1>1, <2>2 DEF LockOK, LocksAt
<1> QED BY <1>1, <1>2, <1>3, <1>4, <1>5

LEMMA Middle ==
    ASSUME InodeInv, NEW p \in Procs, NEW l, NEW u, NEW e, Step(p, l, u), ofile' = ofile,
           UNCHANGED disk, icache' = e, Good(e, dinode), Tame(icache, e, p),
           CallAt(l, u, ofile[p]), LocksAt(l, u, e, p), CountsAt(u, e, p),
           pc[p] \notin {"ialloc", "new"}, l \notin {"ialloc", "new"},
           MayPoint(p), u.dp # 0 => u.dp = loc[p].dp \/ IsDir(e[u.dp].inum),
           CreditAt(l, u) => Credit(p) /\ u.ip = loc[p].ip /\ (pc[p] = "unlinked" => l = "unlinked"),
           l = "unlink_ip" => entry[dinode[e[u.dp].inum].addr][Head(u.path)] = e[u.ip].inum
    PROVE  InodeInv'
<1>1. /\ Moves(p) /\ pc'[p] = l /\ loc'[p] = u
      /\ RefCounts' /\ CallOK(p)' /\ LockOK(p)'
      /\ Credit(p)' <=> CreditAt(l, u)
  BY MiddleIs
<1>2. Good(icache', dinode) /\ Tame(icache, icache', p)
  OBVIOUS
<1>3. /\ loc'[p].dp # 0 => loc'[p].dp = loc[p].dp \/ IsDir(icache'[loc'[p].dp].inum)
      /\ Credit(p)' => /\ Credit(p) /\ loc'[p].ip = loc[p].ip
                       /\ pc[p] = "unlinked" => pc'[p] = "unlinked"
      /\ pc'[p] = "unlink_ip" => entry[dinode[icache'[loc'[p].dp].inum].addr][Head(loc'[p].path)]
                    = icache'[loc'[p].ip].inum
  BY <1>1
<1> QED BY <1>1, <1>2, <1>3, TameCalm, Quiet

(* A directory that p refers to, and what a name in it leads to.           *)
LEMMA DpDir ==
    ASSUME InodeInv, NEW p \in Procs, loc[p].dp # 0
    PROVE  LET D == Inum(p, "dp") IN
           /\ loc[p].dp \in Slots /\ icache[loc[p].dp].inum = D /\ icache[loc[p].dp].ref > 0
           /\ D \in Inums /\ D \in Dirs /\ Public(D) /\ IsDir(D)
           /\ dinode[D].addr # 0 /\ dinode[D].addr \in Blocks
           /\ \A n \in Names : LET i == entry[dinode[D].addr][n] IN
                 i # 0 => i \in Inums /\ Public(i)
<1> USE DEF InodeInv
<1>1. "dp" \in Fields /\ Pointer(p, "dp") = loc[p].dp
  BY PointerIs DEF Fields
<1> DEFINE D == Inum(p, "dp")
<1>2. /\ loc[p].dp \in Slots /\ icache[loc[p].dp].inum = D /\ icache[loc[p].dp].ref > 0
      /\ D \in Inums /\ Public(D)
  BY <1>1, PointedPublic
<1>3. IsDir(D)
  BY DEF ProcsOK, PointerOK
<1> HIDE DEF D
<1>4. D \in Dirs /\ dinode[D].addr # 0
  BY <1>2, <1>3, PublicDir
<1>5. dinode[D].addr \in Blocks
  <2>1. dinode[D].addr \in 0 .. NBLOCKS
    BY <1>2 DEF TypeOK, DiskType
  <2> QED BY <1>4, <2>1, InodeAssumption DEF Blocks
<1>6. \A n \in Names : LET i == entry[dinode[D].addr][n] IN
         i # 0 => i \in Inums /\ Public(i)
  BY <1>4, NamedPublic
<1> QED BY <1>2, <1>3, <1>4, <1>5, <1>6 DEF D

LEMMA DpLookup ==
    ASSUME InodeInv, NEW p \in Procs, NEW l \in {"create", "unlink", "link_new"}, At(p, l),
           Unlocked(loc[p].dp)
    PROVE  LET s == loc[p].dp
               c == Ilock(icache, s, p)
               i == Dirlookup(c, s, Head(loc[p].path)) IN
           /\ s # 0 /\ s \in Slots /\ s = Pointer(p, "dp") /\ "dp" \in Lockable
           /\ loc[p].path \in Seq(Names) /\ loc[p].path # <<>> /\ Head(loc[p].path) \in Names
           /\ i = entry[dinode[Inum(p, "dp")].addr][Head(loc[p].path)]
           /\ c[s].addr = dinode[Inum(p, "dp")].addr
           /\ i # 0 => i \in Inums /\ Public(i)
<1> DEFINE s == loc[p].dp
           c == Ilock(icache, s, p)
           i == Dirlookup(c, s, Head(loc[p].path))
<1>1. s # 0
  BY AtIs DEF HasDp
<1>2. loc[p].path \in Seq(Names) /\ loc[p].path # <<>>
  BY DEF At, InodeInv, ProcsOK, CallOK, Named, TypeOK, LocType
<1>3. Head(loc[p].path) \in Names
  BY <1>2, HeadTailProperties
<1>4. s = Pointer(p, "dp") /\ "dp" \in Lockable
  BY PointerIs DEF Lockable
<1>5. c[s].addr = dinode[Inum(p, "dp")].addr
  <2>1. Unlocked(s)
    OBVIOUS
  <2> HIDE DEF s
  <2> QED BY <1>1, <1>4, <2>1, Enter
<1>6. i = entry[dinode[Inum(p, "dp")].addr][Head(loc[p].path)]
  BY <1>5 DEF Dirlookup
<1>7. i # 0 => i \in Inums /\ Public(i)
  <2> HIDE DEF i
  <2> QED BY <1>1, <1>3, <1>6, DpDir
<1>8. s \in Slots
  BY <1>1, DpDir
<1> QED BY <1>1, <1>2, <1>3, <1>4, <1>5, <1>6, <1>7, <1>8

LEMMA UnlinkLookupStep ==
    ASSUME InodeInv, NEW p \in Procs, UnlinkLookup(p)
    PROVE  InodeInv'
<1> DEFINE r == loc[p]
           s == r.dp
           c == Ilock(icache, s, p)
           i == Dirlookup(c, s, Head(r.path))
<1>1. At(p, "unlink") /\ Unlocked(s) /\ UNCHANGED disk
  BY DEF UnlinkLookup
<1>2. /\ s # 0 /\ s \in Slots /\ s = Pointer(p, "dp") /\ "dp" \in Lockable
      /\ r.path \in Seq(Names) /\ r.path # <<>>
      /\ i = entry[dinode[Inum(p, "dp")].addr][Head(r.path)]
      /\ i # 0 => i \in Inums /\ Public(i)
  BY <1>1, DpLookup
<1>3. /\ pc[p] = "unlink" /\ r \in LocType /\ r.puts = <<>> /\ r.unref = 0 /\ r.at = 0
      /\ r.ip = 0 /\ r.inum = 0
      /\ \A t \in Slots : OwnRefs(ofile[p], r, t) = One(ofile[p] = t) + One(r.ip = t) + One(s = t)
  BY <1>1, AtIs DEF HasIp
<1>4. \A t \in Slots : t # 0 /\ icache[t].ref \in Nat /\ t \in 0 .. NINODE
  BY SlotSeq DEF InodeInv, TypeOK, CacheType
<1>5. CASE i = 0 /\ Dropped(p, c, s)
  <2>1. Only(p, s)
    <3>1. s \in HeldBy(p)
      BY DEF HeldBy
    <3> HIDE DEF s
    <3> QED BY <1>2, <1>3, <1>4, <3>1 DEF Only, One
  <2> HIDE DEF r, s, i
  <2>2. /\ Good(Iunlock(c, s), dinode) /\ Tame(icache, Iunlock(c, s), p)
        /\ \A t \in Slots : Iunlock(c, s)[t].ref = icache[t].ref
    BY <1>1, <1>2, Glance
  <2> HIDE DEF c
  <2> QED BY <1>1, <1>5, <2>1, <2>2, DroppedStep
<1>6. CASE /\ i # 0 /\ CanIget(c, i)
           /\ icache' = Iget(c, i)
           /\ Step(p, "unlink_ip", [r EXCEPT !.ip = Slot(c, i)])
           /\ UNCHANGED ofile
  <2> DEFINE t == Slot(c, i)
             e == Iget(c, i)
             u == [r EXCEPT !.ip = t]
  <2>1. /\ Good(e, dinode) /\ Tame(icache, e, p)
        /\ t \in Slots /\ e[t].inum = i
        /\ \A v \in Slots : e[v].ref = icache[v].ref + One(t = v)
        /\ e[s].valid /\ e[s].lock = p /\ e[s].inum = Inum(p, "dp")
    <3>1. /\ Unlocked(s) /\ CanIget(c, i) /\ i \in Inums
          /\ s # 0 /\ s = Pointer(p, "dp") /\ "dp" \in Lockable
      BY <1>1, <1>2, <1>6
    <3> HIDE DEF i, r, s
    <3> QED BY <3>1, GetInside
  <2> HIDE DEF t, e
  <2>2. /\ u \in LocType /\ u.op = r.op /\ u.new = r.new /\ u.at = 0 /\ u.ip = t /\ u.dp = s
        /\ u.inum = 0 /\ u.puts = <<>> /\ u.unref = 0 /\ u.path = r.path
    BY <1>3, <1>4, <2>1 DEF LocType
  <2> HIDE DEF u
  <2>3. LastOf(u.puts) = 0 /\ BeforeOf(u.puts) = 0 /\ Len(u.puts) = 0
    BY <2>2, PutsAre
  <2>4. CallAt("unlink_ip", u, ofile[p])
    <3>1. t # 0 /\ "unlink_ip" \in Places
      BY <1>4, <2>1 DEF Places
    <3>2. r.op \in {"open", "create"} => ofile[p] = 0
      BY <1>3 DEF InodeInv, ProcsOK, CallOK
    <3> HIDE DEF r, s
    <3> QED BY <1>2, <2>2, <2>3, <3>1, <3>2 DEF CallAt, HasIp, HasDp, Named, Making
  <2>5. LocksAt("unlink_ip", u, e, p)
    BY <2>1, <2>2 DEF LocksAt, IpLocked
  <2>6. CountsAt(u, e, p)
    <3>1. ASSUME NEW v \in Slots
          PROVE  e[v].ref = icache[v].ref + OwnRefs(ofile[p], u, v) - OwnRefs(ofile[p], r, v)
      <4>1. v # 0 /\ icache[v].ref \in Nat /\ e[v].ref = icache[v].ref + One(t = v)
        BY <1>4, <2>1
      <4>2. OwnRefs(ofile[p], r, v) = One(ofile[p] = v) + One(s = v)
        BY <1>3, <4>1 DEF One
      <4>3. OwnRefs(ofile[p], u, v) = One(ofile[p] = v) + One(t = v) + One(s = v)
        <5>1. u.at = 0 /\ u.ip = t /\ u.dp = s /\ u.unref = 0
          BY <2>2
        <5> QED BY <2>3, <4>1, <5>1 DEF OwnRefs, One
      <4> QED BY <4>1, <4>2, <4>3 DEF One
    <3> QED BY <3>1 DEF CountsAt
  <2>7. MayPoint(p)
    <3>1. loc'[p] = u /\ ofile' = ofile
      BY <1>6 DEF Step, InodeInv, TypeOK, u, t
    <3>2. icache' = e
      BY <1>6 DEF e
    <3>3. ofile'[p] = ofile[p] /\ loc'[p].at = 0 /\ loc'[p].ip = t /\ loc'[p].dp = s
          /\ LastOf(loc'[p].puts) = 0 /\ BeforeOf(loc'[p].puts) = 0
      BY <2>2, <2>3, <3>1
    <3>4. May(p, ofile[p]) /\ May(p, s) /\ May(p, 0)
      BY DEF May, HeldBy
    <3>5. May(p, t)
      BY <1>2, <1>6, <2>1, <3>2 DEF May
    <3> HIDE DEF s, t
    <3> QED BY <3>3, <3>4, <3>5 DEF MayPoint
  <2>8. entry[dinode[e[u.dp].inum].addr][Head(u.path)] = e[u.ip].inum
    BY <1>2, <2>1, <2>2
  <2>9. Step(p, "unlink_ip", u) /\ ofile' = ofile /\ icache' = e
    BY <1>6 DEF u, t, e
  <2>10. ~CreditAt("unlink_ip", u)
    BY DEF CreditAt
  <2>11. u.dp = loc[p].dp /\ pc[p] \notin {"ialloc", "new"}
    BY <1>3, <2>2
  <2> HIDE DEF r, s, c, i
  <2> QED BY <1>1, <2>1, <2>4, <2>5, <2>6, <2>7, <2>8, <2>9, <2>10, <2>11, Middle
<1> QED BY <1>5, <1>6 DEF UnlinkLookup

(* What create() and dirlink() do when the name exists.                    *)
LEMMA CreateLookupFound ==
    ASSUME InodeInv, NEW p \in Procs, CreateLookup(p),
           Dirlookup(Ilock(icache, loc[p].dp, p), loc[p].dp, Head(loc[p].path)) # 0
    PROVE  InodeInv'
<1> DEFINE r == loc[p]
           s == r.dp
           c == Ilock(icache, s, p)
           i == Dirlookup(c, s, Head(r.path))
           t == Slot(c, i)
           g == Iget(c, i)
           e == Iunlock(g, s)
           u == [r EXCEPT !.dp = 0, !.ip = t, !.puts = <<s>>]
<1>1. /\ At(p, "create") /\ Unlocked(s) /\ UNCHANGED disk /\ ofile' = ofile /\ CanIget(c, i)
      /\ icache' = e /\ Step(p, "found", u)
  BY DEF CreateLookup, disk
<1>2. /\ s # 0 /\ s \in Slots /\ s = Pointer(p, "dp") /\ "dp" \in Lockable
      /\ i \in Inums /\ Public(i)
  BY <1>1, DpLookup
<1>3. /\ pc[p] = "create" /\ r \in LocType /\ r.puts = <<>> /\ r.unref = 0 /\ r.at = 0
      /\ r.ip = 0 /\ r.inum = 0
      /\ \A v \in Slots : OwnRefs(ofile[p], r, v) = One(ofile[p] = v) + One(r.ip = v) + One(s = v)
  BY <1>1, AtIs DEF HasIp
<1>4. \A v \in Slots : v # 0 /\ icache[v].ref \in Nat /\ v \in 0 .. NINODE /\ <<v>> \in Seq(Slots)
  BY SlotSeq DEF InodeInv, TypeOK, CacheType
<1>5. /\ r.op \in {"create", "mkdir", "mknod"} /\ (r.op = "create" => ofile[p] = 0)
  <2>1. CallOK(p)
    BY DEF InodeInv, ProcsOK
  <2> QED BY <1>3, <2>1 DEF CallOK, Making
<1>6. /\ Good(g, dinode) /\ Tame(icache, g, p)
      /\ t \in Slots /\ g[t].inum = i
      /\ \A v \in Slots : g[v].ref = icache[v].ref + One(t = v)
      /\ g[s].lock = p
  <2>1. /\ Unlocked(s) /\ CanIget(c, i) /\ i \in Inums
        /\ s # 0 /\ s = Pointer(p, "dp") /\ "dp" \in Lockable
    BY <1>1, <1>2
  <2> HIDE DEF i, r, s
  <2> QED BY <2>1, GetInside
<1> HIDE DEF t, g
<1>7. /\ Good(e, dinode) /\ Tame(icache, e, p) /\ e[t].inum = i
      /\ \A v \in Slots : e[v].ref = icache[v].ref + One(t = v)
  <2> HIDE DEF i, s
  <2> QED BY <1>2, <1>6, Release
<1> HIDE DEF e
<1>8. /\ u \in LocType /\ u.op = r.op /\ u.at = 0 /\ u.ip = t /\ u.dp = 0
      /\ u.inum = 0 /\ u.puts = <<s>> /\ u.unref = 0
  <2>1. 0 \in 0 .. NINODE
    BY InodeAssumption
  <2> QED BY <1>2, <1>3, <1>4, <1>6, <2>1 DEF LocType
<1> HIDE DEF u
<1>9. LastOf(u.puts) = s /\ BeforeOf(u.puts) = 0 /\ Len(u.puts) = 1
  BY <1>8, PutsAre
<1>10. CallAt("found", u, ofile[p])
  <2>1. t # 0 /\ "found" \in Places
    BY <1>4, <1>6 DEF Places
  <2>2. u.op \in {"create", "mkdir", "mknod"} /\ (u.op = "create" => ofile[p] = 0)
    BY <1>5, <1>8
  <2> HIDE DEF r, s
  <2> QED BY <1>8, <1>9, <2>1, <2>2 DEF CallAt, HasIp, HasDp, Named, Making
<1>11. LocksAt("found", u, e, p)
  BY DEF LocksAt, IpLocked, DpLocked
<1>12. CountsAt(u, e, p)
  <2>1. ASSUME NEW v \in Slots
        PROVE  e[v].ref = icache[v].ref + OwnRefs(ofile[p], u, v) - OwnRefs(ofile[p], r, v)
    <3>1. v # 0 /\ icache[v].ref \in Nat /\ e[v].ref = icache[v].ref + One(t = v)
      BY <1>4, <1>7
    <3>2. OwnRefs(ofile[p], r, v) = One(ofile[p] = v) + One(s = v)
      BY <1>3, <3>1 DEF One
    <3>3. OwnRefs(ofile[p], u, v) = One(ofile[p] = v) + One(t = v) + One(s = v)
      <4>1. u.at = 0 /\ u.ip = t /\ u.dp = 0 /\ u.unref = 0
        BY <1>8
      <4> QED BY <1>9, <3>1, <4>1 DEF OwnRefs, One
    <3> QED BY <3>1, <3>2, <3>3 DEF One
  <2> QED BY <2>1 DEF CountsAt
<1>13. MayPoint(p)
  <2>1. loc'[p] = u
    BY <1>1 DEF Step, InodeInv, TypeOK, u
  <2> QED BY <1>1, <1>2, <1>7, <1>8, <1>9, <2>1 DEF MayPoint, May, HeldBy
<1>14. ~CreditAt("found", u) /\ u.dp = 0 /\ pc[p] \notin {"ialloc", "new"}
  BY <1>3, <1>8 DEF CreditAt
<1> HIDE DEF r, s, c, i
<1> QED BY <1>1, <1>7, <1>10, <1>11, <1>12, <1>13, <1>14, Middle

LEMMA LinkEntryExists ==
    ASSUME InodeInv, NEW p \in Procs, LinkEntry(p),
           Dirlookup(Ilock(icache, loc[p].dp, p), loc[p].dp, Head(loc[p].path)) # 0
    PROVE  InodeInv'
<1> DEFINE r == loc[p]
           s == r.dp
           c == Ilock(icache, s, p)
           i == Dirlookup(c, s, Head(r.path))
           t == Slot(c, i)
           e == Iget(c, i)
           u == [r EXCEPT !.puts = <<t>>]
<1>1. /\ At(p, "link_new") /\ Unlocked(s) /\ UNCHANGED disk /\ ofile' = ofile /\ CanIget(c, i)
      /\ icache' = e /\ Step(p, "link_exists", u)
  BY DEF LinkEntry, disk
<1>2. /\ s # 0 /\ s \in Slots /\ s = Pointer(p, "dp") /\ "dp" \in Lockable
      /\ i \in Inums /\ Public(i)
  BY <1>1, DpLookup
<1>3. /\ pc[p] = "link_new" /\ r \in LocType /\ r.puts = <<>> /\ r.unref = 0 /\ r.at = 0
      /\ r.ip # 0 /\ r.inum = 0
      /\ \A v \in Slots : OwnRefs(ofile[p], r, v) = One(ofile[p] = v) + One(r.ip = v) + One(s = v)
  BY <1>1, AtIs DEF HasIp
<1>4. \A v \in Slots : v # 0 /\ icache[v].ref \in Nat /\ v \in 0 .. NINODE /\ <<v>> \in Seq(Slots)
  BY SlotSeq DEF InodeInv, TypeOK, CacheType
<1>5. r.op \in {"open", "create"} => ofile[p] = 0
  <2>1. CallOK(p)
    BY DEF InodeInv, ProcsOK
  <2> QED BY <1>3, <2>1 DEF CallOK
<1>6. /\ Good(e, dinode) /\ Tame(icache, e, p)
      /\ t \in Slots /\ e[t].inum = i
      /\ \A v \in Slots : e[v].ref = icache[v].ref + One(t = v)
      /\ e[s].lock = p /\ e[s].valid
  <2>1. /\ Unlocked(s) /\ CanIget(c, i) /\ i \in Inums
        /\ s # 0 /\ s = Pointer(p, "dp") /\ "dp" \in Lockable
    BY <1>1, <1>2
  <2> HIDE DEF i, r, s
  <2> QED BY <2>1, GetInside
<1> HIDE DEF t, e
<1>8. /\ u \in LocType /\ u.op = r.op /\ u.at = 0 /\ u.ip = r.ip /\ u.dp = s
      /\ u.inum = 0 /\ u.puts = <<t>> /\ u.unref = 0
  BY <1>3, <1>4, <1>6 DEF LocType
<1> HIDE DEF u
<1>9. LastOf(u.puts) = t /\ BeforeOf(u.puts) = 0 /\ Len(u.puts) = 1
  BY <1>8, PutsAre
<1>10. CallAt("link_exists", u, ofile[p])
  <2>1. "link_exists" \in Places
    BY DEF Places
  <2>2. u.op \in {"open", "create"} => ofile[p] = 0
    BY <1>5, <1>8
  <2>3. CreditAt("link_exists", u)
    BY DEF CreditAt
  <2>4. s # 0 /\ r.ip # 0
    BY <1>2, <1>3
  <2> HIDE DEF r, s
  <2> QED BY <1>8, <1>9, <2>1, <2>2, <2>3, <2>4 DEF CallAt, HasIp, HasDp, Named, Making
<1>11. LocksAt("link_exists", u, e, p)
  BY <1>6, <1>8 DEF LocksAt, IpLocked
<1>12. CountsAt(u, e, p)
  <2>1. ASSUME NEW v \in Slots
        PROVE  e[v].ref = icache[v].ref + OwnRefs(ofile[p], u, v) - OwnRefs(ofile[p], r, v)
    <3>1. v # 0 /\ icache[v].ref \in Nat /\ e[v].ref = icache[v].ref + One(t = v)
      BY <1>4, <1>6
    <3>2. OwnRefs(ofile[p], r, v) = One(ofile[p] = v) + One(r.ip = v) + One(s = v)
      BY <1>3
    <3>3. OwnRefs(ofile[p], u, v) = One(ofile[p] = v) + One(r.ip = v) + One(s = v) + One(t = v)
      <4>1. u.at = 0 /\ u.ip = r.ip /\ u.dp = s /\ u.unref = 0
        BY <1>8
      <4> HIDE DEF r, s
      <4> QED BY <1>9, <3>1, <4>1 DEF OwnRefs, One
    <3> HIDE DEF r, s
    <3> QED BY <3>1, <3>2, <3>3 DEF One
  <2> QED BY <2>1 DEF CountsAt
<1>13. MayPoint(p)
  <2>1. loc'[p] = u
    BY <1>1 DEF Step, InodeInv, TypeOK, u
  <2> QED BY <1>1, <1>2, <1>6, <1>8, <1>9, <2>1 DEF MayPoint, May, HeldBy
<1>14. /\ Credit(p) /\ u.ip = loc[p].ip /\ pc[p] # "unlinked" /\ u.dp = loc[p].dp
       /\ pc[p] \notin {"ialloc", "new"}
  BY <1>3, <1>8 DEF Credit
<1> HIDE DEF r, s, c, i
<1> QED BY <1>1, <1>6, <1>10, <1>11, <1>12, <1>13, <1>14, Middle

LEMMA LinkExistsStep ==
    ASSUME InodeInv, NEW p \in Procs, LinkExists(p)
    PROVE  InodeInv'
<1> DEFINE r == loc[p]
           s == r.dp
           e == Iunlock(icache, s)
           u == [r EXCEPT !.dp = 0, !.puts = <<s>>]
<1>1. /\ At(p, "link_exists") /\ UNCHANGED disk /\ ofile' = ofile
      /\ icache' = e /\ Step(p, "link_bad", u)
  BY DEF LinkExists
<1>2. /\ pc[p] = "link_exists" /\ r \in LocType /\ r.puts = <<>> /\ r.unref = 0 /\ r.at = 0
      /\ r.ip # 0 /\ r.inum = 0 /\ s # 0
      /\ \A v \in Slots : OwnRefs(ofile[p], r, v) = One(ofile[p] = v) + One(r.ip = v) + One(s = v)
  BY <1>1, AtIs DEF HasIp, HasDp
<1>3. \A v \in Slots : v # 0 /\ icache[v].ref \in Nat /\ <<v>> \in Seq(Slots)
  BY SlotSeq DEF InodeInv, TypeOK, CacheType
<1>4. s \in Slots
  BY <1>2, DpDir
<1>5. r.op \in {"open", "create"} => ofile[p] = 0
  BY <1>2 DEF InodeInv, ProcsOK, CallOK
<1>6. icache[s].lock = p
  BY <1>2 DEF InodeInv, ProcsOK, LockOK, DpLocked
<1>7. /\ Good(e, dinode) /\ Tame(icache, e, p)
      /\ \A v \in Slots : e[v].ref = icache[v].ref
  <2>1. Good(icache, dinode) /\ Tame(icache, icache, p)
    BY InvGood DEF InodeInv, Tame
  <2> HIDE DEF s
  <2> QED BY <1>4, <1>6, <2>1, Release
<1>8. /\ u \in LocType /\ u.op = r.op /\ u.at = 0 /\ u.ip = r.ip /\ u.dp = 0
      /\ u.inum = 0 /\ u.puts = <<s>> /\ u.unref = 0
  <2>1. 0 \in 0 .. NINODE
    BY InodeAssumption
  <2> QED BY <1>2, <1>3, <1>4, <2>1 DEF LocType
<1> HIDE DEF u, e
<1>9. LastOf(u.puts) = s /\ BeforeOf(u.puts) = 0 /\ Len(u.puts) = 1
  BY <1>8, PutsAre
<1>10. CallAt("link_bad", u, ofile[p])
  <2>1. "link_bad" \in Places /\ CreditAt("link_bad", u)
    BY DEF Places, CreditAt
  <2>2. u.op \in {"open", "create"} => ofile[p] = 0
    BY <1>5, <1>8
  <2>3. u.ip # 0
    BY <1>2, <1>8
  <2> HIDE DEF r, s
  <2> QED BY <1>8, <1>9, <2>1, <2>2, <2>3 DEF CallAt, HasIp, HasDp, Named, Making
<1>11. LocksAt("link_bad", u, e, p)
  BY DEF LocksAt, IpLocked, DpLocked
<1>12. CountsAt(u, e, p)
  <2>1. ASSUME NEW v \in Slots
        PROVE  e[v].ref = icache[v].ref + OwnRefs(ofile[p], u, v) - OwnRefs(ofile[p], r, v)
    <3>1. v # 0 /\ icache[v].ref \in Nat /\ e[v].ref = icache[v].ref
      BY <1>3, <1>7
    <3>2. OwnRefs(ofile[p], u, v) = One(ofile[p] = v) + One(r.ip = v) + One(s = v)
      <4>1. u.at = 0 /\ u.ip = r.ip /\ u.dp = 0 /\ u.unref = 0
        BY <1>8
      <4> HIDE DEF r, s
      <4> QED BY <1>9, <3>1, <4>1 DEF OwnRefs, One
    <3> QED BY <1>2, <3>1, <3>2 DEF One
  <2> QED BY <2>1 DEF CountsAt
<1>13. MayPoint(p)
  <2>1. loc'[p] = u
    BY <1>1 DEF Step, InodeInv, TypeOK, u
  <2> QED BY <1>1, <1>8, <1>9, <2>1 DEF MayPoint, May, HeldBy
<1>14. /\ Credit(p) /\ u.ip = loc[p].ip /\ pc[p] # "unlinked" /\ u.dp = 0
       /\ pc[p] \notin {"ialloc", "new"}
  BY <1>2, <1>8 DEF Credit
<1> HIDE DEF r, s
<1> QED BY <1>1, <1>7, <1>10, <1>11, <1>12, <1>13, <1>14, Middle

LEMMA LinkRootStep ==
    ASSUME InodeInv, NEW p \in Procs, LinkRoot(p)
    PROVE  InodeInv'
<1> DEFINE r == loc[p]
           t == Slot(icache, ROOTINO)
           e == Iget(icache, ROOTINO)
           u == [r EXCEPT !.op = "link_new", !.path = r.new, !.new = <<>>, !.at = t]
<1>i. TypeOK /\ RefCounts /\ ProcsOK /\ FreshOK /\ InodesOK /\ CacheCoherent
  BY DEF InodeInv
<1>1. /\ At(p, "link_root") /\ UNCHANGED disk /\ ofile' = ofile /\ CanIget(icache, ROOTINO)
      /\ icache' = e /\ Step(p, "namex", u)
  BY DEF LinkRoot
<1>2. /\ pc[p] = "link_root" /\ r \in LocType /\ r.puts = <<>> /\ r.unref = 0 /\ r.at = 0
      /\ r.ip # 0 /\ r.inum = 0 /\ r.dp = 0
      /\ \A v \in Slots : OwnRefs(ofile[p], r, v) = One(ofile[p] = v) + One(r.ip = v) + One(r.dp = v)
  BY <1>1, AtIs DEF HasIp, HasDp
<1>3. \A v \in Slots : v # 0 /\ icache[v].ref \in Nat /\ v \in 0 .. NINODE
  BY SlotSeq DEF InodeInv, TypeOK, CacheType
<1>4. r.new # <<>> /\ r.new \in Seq(Names)
  <2>1. CallOK(p)
    BY <1>i DEF ProcsOK
  <2> QED BY <1>2, <2>1 DEF CallOK, LocType
<1>5. ROOTINO \in Inums /\ Public(ROOTINO)
  BY <1>i, RootPublic
<1>6. /\ Good(e, dinode) /\ Tame(icache, e, p)
      /\ t \in Slots /\ e[t].inum = ROOTINO /\ e[t].ref = icache[t].ref + 1
      /\ \A v \in Slots : v # t => e[v] = icache[v]
  BY <1>i, <1>1, <1>5, InvGood, IgetIs
<1> HIDE DEF t, e
<1>8. /\ u \in LocType /\ u.op = "link_new" /\ u.path = r.new /\ u.at = t /\ u.ip = r.ip /\ u.dp = 0
      /\ u.inum = 0 /\ u.puts = <<>> /\ u.unref = 0
  <2>1. <<>> \in Seq(Names)
    OBVIOUS
  <2> QED BY <1>2, <1>3, <1>4, <1>6, <2>1 DEF LocType
<1> HIDE DEF u
<1>9. LastOf(u.puts) = 0 /\ BeforeOf(u.puts) = 0 /\ Len(u.puts) = 0
  BY <1>8, PutsAre
<1>10. CallAt("namex", u, ofile[p])
  <2>1. "namex" \in Places /\ CreditAt("namex", u) /\ t # 0
    BY <1>3, <1>6, <1>8 DEF Places, CreditAt
  <2>2. u.ip # 0 /\ u.path # <<>>
    BY <1>2, <1>4, <1>8
  <2> HIDE DEF r
  <2> QED BY <1>8, <1>9, <2>1, <2>2 DEF CallAt, HasIp, HasDp, Named, Making
<1>11. LocksAt("namex", u, e, p)
  BY DEF LocksAt, IpLocked, DpLocked
<1>12. CountsAt(u, e, p)
  <2>1. ASSUME NEW v \in Slots
        PROVE  e[v].ref = icache[v].ref + OwnRefs(ofile[p], u, v) - OwnRefs(ofile[p], r, v)
    <3>1. v # 0 /\ icache[v].ref \in Nat /\ e[v].ref = icache[v].ref + One(t = v)
      BY <1>3, <1>6 DEF One
    <3>2. OwnRefs(ofile[p], u, v) = One(ofile[p] = v) + One(t = v) + One(r.ip = v)
      <4>1. u.at = t /\ u.ip = r.ip /\ u.dp = 0 /\ u.unref = 0
        BY <1>8
      <4> HIDE DEF r
      <4> QED BY <1>9, <3>1, <4>1 DEF OwnRefs, One
    <3>3. OwnRefs(ofile[p], r, v) = One(ofile[p] = v) + One(r.ip = v)
      BY <1>2, <3>1 DEF One
    <3> HIDE DEF r
    <3> QED BY <3>1, <3>2, <3>3 DEF One
  <2> QED BY <2>1 DEF CountsAt
<1>13. MayPoint(p)
  <2>1. loc'[p] = u
    BY <1>1 DEF Step, InodeInv, TypeOK, u, t
  <2> QED BY <1>1, <1>5, <1>6, <1>8, <1>9, <2>1 DEF MayPoint, May, HeldBy
<1>14. /\ Credit(p) /\ u.ip = loc[p].ip /\ pc[p] # "unlinked" /\ u.dp = 0
       /\ pc[p] \notin {"ialloc", "new"}
  BY <1>2, <1>8 DEF Credit
<1> HIDE DEF r
<1> QED BY <1>1, <1>6, <1>10, <1>11, <1>12, <1>13, <1>14, Middle

(* unlink() of a directory that is not empty. *)
UnlinkRefused(p) ==
    LET s == loc[p].ip
        c == Ilock(icache, s, p) IN
    /\ At(p, "unlink_ip") /\ Unlocked(s)
    /\ icache' = Iunlock(c, s)
    /\ Step(p, "unlink_bad", [loc[p] EXCEPT !.ip = 0, !.puts = <<s>>])
    /\ UNCHANGED ofile /\ UNCHANGED disk

LEMMA UnlinkRefusedStep ==
    ASSUME InodeInv, NEW p \in Procs, UnlinkRefused(p)
    PROVE  InodeInv'
<1> DEFINE r == loc[p]
           s == r.ip
           c == Ilock(icache, s, p)
           e == Iunlock(c, s)
           u == [r EXCEPT !.ip = 0, !.puts = <<s>>]
<1>1. /\ At(p, "unlink_ip") /\ Unlocked(s) /\ UNCHANGED disk /\ ofile' = ofile
      /\ icache' = e /\ Step(p, "unlink_bad", u)
  BY DEF UnlinkRefused
<1>2. /\ pc[p] = "unlink_ip" /\ r \in LocType /\ r.puts = <<>> /\ r.unref = 0 /\ r.at = 0
      /\ r.dp # 0 /\ r.inum = 0 /\ s # 0
      /\ \A v \in Slots : OwnRefs(ofile[p], r, v) = One(ofile[p] = v) + One(s = v) + One(r.dp = v)
  BY <1>1, AtIs DEF HasIp, HasDp
<1>3. \A v \in Slots : v # 0 /\ icache[v].ref \in Nat /\ <<v>> \in Seq(Slots)
  BY SlotSeq DEF InodeInv, TypeOK, CacheType
<1>4. s \in Slots /\ s = Pointer(p, "ip") /\ "ip" \in Lockable
  BY <1>2, Pinned, PointerIs DEF InodeInv, Fields, Lockable
<1>5. r.op \in {"open", "create"} => ofile[p] = 0
  BY <1>2 DEF InodeInv, ProcsOK, CallOK
<1>6. icache[r.dp].lock = p /\ icache[r.dp].valid /\ r.dp \in Slots /\ r.dp # s
  <2>1. icache[r.dp].lock = p /\ icache[r.dp].valid
    BY <1>2 DEF InodeInv, ProcsOK, LockOK, DpLocked
  <2>2. icache[s].lock = None
    BY <1>1 DEF Unlocked
  <2> QED BY <1>2, <2>1, <2>2, DpDir, InodeAssumption
<1>7. /\ Good(e, dinode) /\ Tame(icache, e, p)
      /\ \A v \in Slots : e[v].ref = icache[v].ref
      /\ \A v \in Slots : v # s => e[v] = icache[v]
  <2>1. Unlocked(s) /\ s # 0
    BY <1>1, <1>2
  <2> HIDE DEF s, r
  <2> QED BY <1>4, <2>1, Glance
<1>8. /\ u \in LocType /\ u.op = r.op /\ u.at = 0 /\ u.ip = 0 /\ u.dp = r.dp
      /\ u.inum = 0 /\ u.puts = <<s>> /\ u.unref = 0
  <2>1. 0 \in 0 .. NINODE
    BY InodeAssumption
  <2> QED BY <1>2, <1>3, <1>4, <2>1 DEF LocType
<1> HIDE DEF u, e
<1>9. LastOf(u.puts) = s /\ BeforeOf(u.puts) = 0 /\ Len(u.puts) = 1
  BY <1>8, PutsAre
<1>10. CallAt("unlink_bad", u, ofile[p])
  <2>1. "unlink_bad" \in Places /\ ~CreditAt("unlink_bad", u)
    BY DEF Places, CreditAt
  <2>2. u.op \in {"open", "create"} => ofile[p] = 0
    BY <1>5, <1>8
  <2>3. u.dp # 0
    BY <1>2, <1>8
  <2> HIDE DEF r, s
  <2> QED BY <1>8, <1>9, <2>1, <2>2, <2>3 DEF CallAt, HasIp, HasDp, Named, Making
<1>11. LocksAt("unlink_bad", u, e, p)
  BY <1>6, <1>7, <1>8 DEF LocksAt, IpLocked
<1>12. CountsAt(u, e, p)
  <2>1. ASSUME NEW v \in Slots
        PROVE  e[v].ref = icache[v].ref + OwnRefs(ofile[p], u, v) - OwnRefs(ofile[p], r, v)
    <3>1. v # 0 /\ icache[v].ref \in Nat /\ e[v].ref = icache[v].ref
      BY <1>3, <1>7
    <3>2. OwnRefs(ofile[p], u, v) = One(ofile[p] = v) + One(s = v) + One(r.dp = v)
      <4>1. u.at = 0 /\ u.ip = 0 /\ u.dp = r.dp /\ u.unref = 0
        BY <1>8
      <4> HIDE DEF r, s
      <4> QED BY <1>9, <3>1, <4>1 DEF OwnRefs, One
    <3> QED BY <1>2, <3>1, <3>2 DEF One
  <2> QED BY <2>1 DEF CountsAt
<1>13. MayPoint(p)
  <2>1. loc'[p] = u
    BY <1>1 DEF Step, InodeInv, TypeOK, u
  <2> QED BY <1>1, <1>8, <1>9, <2>1 DEF MayPoint, May, HeldBy
<1>14. ~CreditAt("unlink_bad", u) /\ u.dp = loc[p].dp /\ pc[p] \notin {"ialloc", "new"}
  BY <1>2, <1>8 DEF CreditAt
<1> HIDE DEF r, s
<1> QED BY <1>1, <1>7, <1>10, <1>11, <1>12, <1>13, <1>14, Middle

LEMMA CloseStep ==
    ASSUME InodeInv, NEW p \in Procs, Close(p)
    PROVE  InodeInv'
<1> DEFINE r == loc[p]
           s == ofile[p]
           u == [r EXCEPT !.puts = <<s>>]
<1>i. TypeOK /\ RefCounts /\ ProcsOK
  BY DEF InodeInv
<1>1. /\ At(p, "user") /\ s # 0 /\ UNCHANGED disk /\ icache' = icache /\ pc' = pc
      /\ ofile' = [ofile EXCEPT ![p] = 0] /\ loc' = [loc EXCEPT ![p] = u]
  BY DEF Close, TypeOK
<1>2. /\ pc[p] = "user" /\ r \in LocType /\ r.puts = <<>> /\ r.unref = 0 /\ r.at = 0
      /\ r.dp = 0 /\ r.inum = 0 /\ r.ip = 0
      /\ \A v \in Slots : OwnRefs(s, r, v) = One(s = v) + One(r.ip = v) + One(r.dp = v)
  BY <1>1, AtIs DEF HasIp, HasDp
<1>3. \A v \in Slots : v # 0 /\ icache[v].ref \in Nat /\ <<v>> \in Seq(Slots)
  BY SlotSeq DEF InodeInv, TypeOK, CacheType
<1>4. s \in Slots
  BY <1>1, Pinned, PointerIs DEF InodeInv, Fields
<1>5. /\ u \in LocType /\ u.at = 0 /\ u.ip = 0 /\ u.dp = 0
      /\ u.inum = 0 /\ u.puts = <<s>> /\ u.unref = 0
  BY <1>2, <1>3, <1>4 DEF LocType
<1> HIDE DEF u
<1>6. LastOf(u.puts) = s /\ BeforeOf(u.puts) = 0 /\ Len(u.puts) = 1
  BY <1>5, PutsAre
<1>7. Moves(p) /\ loc'[p] = u /\ ofile'[p] = 0 /\ pc'[p] = "user"
  <2>1. 0 \in 0 .. NINODE
    BY InodeAssumption
  <2>2. pc \in [Procs -> Places] /\ loc \in [Procs -> LocType] /\ ofile \in [Procs -> 0 .. NINODE]
    BY <1>i DEF TypeOK
  <2> QED BY <1>1, <1>2, <1>5, <2>1, <2>2 DEF Moves
<1>8. RefCounts'
  <2>1. ASSUME NEW v \in Slots
        PROVE  icache'[v].ref
                 = icache[v].ref + OwnRefs(ofile'[p], loc'[p], v) - OwnRefs(ofile[p], loc[p], v)
    <3>1. v # 0 /\ icache[v].ref \in Nat
      BY <1>3
    <3>2. OwnRefs(0, u, v) = One(s = v)
      <4>1. u.at = 0 /\ u.ip = 0 /\ u.dp = 0 /\ u.unref = 0
        BY <1>5
      <4> HIDE DEF r, s
      <4> QED BY <1>6, <3>1, <4>1 DEF OwnRefs, One
    <3>3. OwnRefs(ofile[p], loc[p], v) = One(s = v)
      BY <1>2, <3>1 DEF One
    <3> QED BY <1>1, <1>7, <3>1, <3>2, <3>3 DEF One
  <2>2. Len(loc'[p].puts) <= 2
    <3>1. Len(u.puts) <= 2
      BY <1>6
    <3> QED BY <1>7, <3>1
  <2> QED BY <1>i, <1>7, <2>1, <2>2, RefsStep DEF Moves
<1>9. ~Credit(p)'
  BY <1>7 DEF Credit
<1>10. CallOK(p)'
  BY <1>5, <1>7, <1>9 DEF CallOK, HasIp, HasDp, Named, Making
<1>11. LockOK(p)'
  BY <1>7 DEF LockOK, DpLocked, IpLocked
<1>12. MayPoint(p)
  BY <1>5, <1>6, <1>7 DEF MayPoint, May, HeldBy
<1>13. Good(icache', dinode) /\ Calm(icache, icache', p)
  BY <1>1, InvGood DEF InodeInv, Calm
<1> QED BY <1>1, <1>2, <1>5, <1>7, <1>8, <1>9, <1>10, <1>11, <1>12, <1>13, Quiet

(* iput(): the inode that is to be put has been unlocked, and then the     *)
(* reference goes.                                                         *)
LEMMA IputRefStep ==
    ASSUME InodeInv, NEW p \in Procs, IputRef(p)
    PROVE  InodeInv'
<1> DEFINE r == loc[p]
           s == r.unref
           u == [r EXCEPT !.unref = 0]
           e == [icache EXCEPT ![s].ref = @ - 1]
<1>i. TypeOK /\ RefCounts /\ ProcsOK /\ FreshOK
  BY DEF InodeInv
<1>1. /\ s # 0 /\ UNCHANGED disk /\ icache' = e /\ pc' = pc
      /\ ofile' = ofile /\ loc' = [loc EXCEPT ![p] = u]
  BY DEF IputRef
<1>2. s \in Slots /\ icache[s].ref > 0
  BY <1>1, <1>i, Pinned, PointerIs DEF Used, Fields
<1>3. \A v \in Slots : v # 0 /\ icache[v].ref \in Nat
  BY <1>i, SlotSeq DEF TypeOK, CacheType
<1>t. pc \in [Procs -> Places] /\ loc \in [Procs -> LocType] /\ ofile \in [Procs -> 0 .. NINODE]
      /\ icache \in CacheType /\ r \in LocType
  BY <1>i DEF TypeOK
<1>4. /\ u \in LocType /\ u.op = r.op /\ u.path = r.path /\ u.new = r.new /\ u.at = r.at
      /\ u.ip = r.ip /\ u.dp = r.dp /\ u.inum = r.inum /\ u.puts = r.puts /\ u.unref = 0
  <2>1. 0 \in 0 .. NINODE
    BY InodeAssumption
  <2> QED BY <1>t, <2>1 DEF LocType
<1>5. /\ e \in CacheType
      /\ \A v \in Slots : /\ e[v].inum = icache[v].inum /\ e[v].valid = icache[v].valid
                          /\ e[v].lock = icache[v].lock /\ Content(e[v]) = Content(icache[v])
                          /\ e[v].ref = icache[v].ref - One(s = v)
  <2> DEFINE x == [icache[s] EXCEPT !.ref = @ - 1]
  <2>1. icache[s] \in EntryType /\ icache[s].ref - 1 \in Nat
    BY <1>t, <1>2 DEF CacheType, EntryType
  <2>2. e = [icache EXCEPT ![s] = x]
    BY <1>t, <1>2 DEF CacheType
  <2>3. /\ x \in EntryType /\ x.inum = icache[s].inum /\ x.valid = icache[s].valid
        /\ x.lock = icache[s].lock /\ Content(x) = Content(icache[s]) /\ x.ref = icache[s].ref - 1
    BY <2>1 DEF EntryType, Content
  <2> HIDE DEF x, e, s
  <2> DEFINE y == [icache EXCEPT ![s] = x]
  <2>5. y \in CacheType /\ y[s] = x /\ \A v \in Slots : v # s => y[v] = icache[v]
    BY <1>t, <1>2, <2>3, EntryChange
  <2> HIDE DEF y
  <2>4. e \in CacheType /\ e[s] = x /\ \A v \in Slots : v # s => e[v] = icache[v]
    BY <2>2, <2>5 DEF y
  <2> QED BY <1>3, <2>3, <2>4 DEF One
<1> HIDE DEF u, e
<1>7. Moves(p) /\ loc'[p] = u /\ ofile'[p] = ofile[p] /\ pc'[p] = pc[p]
  BY <1>1, <1>t, <1>4 DEF Moves
<1>8. RefCounts'
  <2>1. ASSUME NEW v \in Slots
        PROVE  icache'[v].ref
                 = icache[v].ref + OwnRefs(ofile'[p], loc'[p], v) - OwnRefs(ofile[p], loc[p], v)
    <3>1. v # 0 /\ icache[v].ref \in Nat /\ e[v].ref = icache[v].ref - One(s = v)
      BY <1>3, <1>5
    <3>2. OwnRefs(ofile[p], u, v) = OwnRefs(ofile[p], r, v) - One(s = v)
      <4>1. /\ u.at = r.at /\ u.ip = r.ip /\ u.dp = r.dp /\ u.puts = r.puts /\ u.unref = 0
        BY <1>4
      <4>2. s = r.unref
        OBVIOUS
      <4> HIDE DEF r, s
      <4> QED BY <3>1, <4>1, <4>2 DEF OwnRefs, One
    <3>3. OwnRefs(ofile[p], r, v) \in Nat
      BY DEF OwnRefs, One
    <3> HIDE DEF r, s
    <3>4. icache'[v].ref = icache[v].ref + OwnRefs(ofile[p], u, v) - OwnRefs(ofile[p], r, v)
      BY <1>1, <3>1, <3>2, <3>3 DEF One
    <3> QED BY <1>7, <3>4 DEF r
  <2>2. Len(loc'[p].puts) <= 2
    BY <1>i, <1>4, <1>7 DEF RefCounts
  <2> QED BY <1>i, <1>7, <2>1, <2>2, RefsStep DEF Moves
<1>9. Good(e, dinode)
  <2>1. Good(icache, dinode)
    BY InvGood DEF InodeInv
  <2>2. \A v \in Slots : e[v].ref > 0 => icache[v].ref > 0
    BY <1>3, <1>5 DEF One
  <2>3. e[Cwd].ref > 0
    <3>1. e[Cwd].ref = Cardinality(Pointers(Cwd)') + 1
      BY <1>1, <1>8, CwdIn DEF RefCounts
    <3>2. Cardinality(Pointers(Cwd)') \in Nat
      <4>1. Pointers(Cwd)' \in SUBSET (Procs \X Fields)
        BY DEF Pointers
      <4> QED BY <4>1, PointersFinite, FS_Subset, FS_CardinalityType
    <3> QED BY <3>1, <3>2
  <2>4. \A v, w \in Slots : e[v].ref > 0 /\ e[w].ref > 0 /\ e[v].inum = e[w].inum => v = w
    BY <1>5, <2>1, <2>2 DEF Good
  <2>5. \A v \in Slots : e[v].ref > 0 => e[v].inum \in Inums
    BY <1>5, <2>1, <2>2 DEF Good
  <2>6. \A v \in Slots : e[v].ref > 0 /\ e[v].valid =>
          Content(e[v]) = dinode[e[v].inum] /\ dinode[e[v].inum].type # "none"
    BY <1>5, <2>1, <2>2 DEF Good
  <2>7. e[Cwd].inum = ROOTINO /\ dinode \in DiskType
    BY <1>5, <2>1, CwdIn DEF Good
  <2> QED BY <1>5, <2>3, <2>4, <2>5, <2>6, <2>7 DEF Good
<1>10. Calm(icache, icache', p)
  BY <1>1, <1>5 DEF Calm
<1>11. CallOK(p) /\ LockOK(p) /\ pc[p] \notin {"ialloc", "new"}
  <2>1. CallOK(p) /\ LockOK(p)
    BY <1>i DEF ProcsOK
  <2> QED BY <1>1, <2>1 DEF CallOK
<1>12. Credit(p)' <=> Credit(p)
  BY <1>4, <1>7 DEF Credit
<1>13. CallOK(p)'
  BY <1>4, <1>7, <1>11, <1>12 DEF CallOK
<1>14. LockOK(p)'
  <2>1. /\ pc[p] \in DpLocked => loc[p].dp # 0
        /\ pc[p] \in IpLocked => loc[p].ip # 0
    BY <1>11 DEF CallOK, DpLocked, IpLocked, HasIp, HasDp
  <2>2. /\ loc[p].dp # 0 => loc[p].dp \in Slots
        /\ loc[p].ip # 0 => loc[p].ip \in Slots
        /\ ofile[p] # 0 => ofile[p] \in Slots
    BY <1>i, Pinned, PointerIs DEF Fields
  <2>3. /\ pc[p] \in DpLocked => e[loc[p].dp].lock = p /\ e[loc[p].dp].valid
        /\ pc[p] \in IpLocked => e[loc[p].ip].lock = p /\ e[loc[p].ip].valid
        /\ ofile[p] # 0 => e[ofile[p]].valid
    BY <1>5, <1>11, <2>1, <2>2 DEF LockOK
  <2> QED BY <1>1, <1>4, <1>7, <2>3 DEF LockOK
<1>15. MayPoint(p)
  BY <1>4, <1>7 DEF MayPoint, May, HeldBy
<1>16. /\ loc'[p].dp = loc[p].dp /\ loc'[p].ip = loc[p].ip /\ loc'[p].path = loc[p].path
  BY <1>4, <1>7
<1> QED BY <1>1, <1>7, <1>8, <1>9, <1>10, <1>11, <1>12, <1>13, <1>14, <1>15, <1>16, Quiet

LEMMA PutsSplit ==
    ASSUME NEW S, NEW q \in Seq(S), q # <<>>, Len(q) <= 2
    PROVE  /\ Head(q) \in S /\ Tail(q) \in Seq(S)
           /\ \/ q = <<Head(q)>> /\ Tail(q) = <<>>
              \/ \E b \in S : q = <<Head(q), b>> /\ Tail(q) = <<b>>
<1>0. Head(q) \in S /\ Tail(q) \in Seq(S) /\ Head(q) = q[1] /\ Len(Tail(q)) = Len(q) - 1
  BY HeadTailProperties
<1>1. Len(q) \in Nat /\ Len(q) # 0 /\ \A k \in 1 .. Len(q) : q[k] \in S
  BY LenProperties, EmptySeq, ElementOfSeq
<1>2. CASE Len(q) = 1
  <2>1. q = <<Head(q)>>
    BY <1>0, <1>1, <1>2
  <2>2. Tail(q) = <<>>
    <3>1. Len(Tail(q)) = 0
      BY <1>0, <1>2
    <3>2. \A u \in Seq(S) : u = <<>> <=> Len(u) = 0
      BY EmptySeq
    <3> QED BY <1>0, <3>1, <3>2, Zenon
  <2> QED BY <2>1, <2>2
<1>3. CASE Len(q) = 2
  <2>1. q[2] \in S
    BY <1>1, <1>3
  <2>2. q = <<Head(q), q[2]>>
    BY <1>0, <1>1, <1>3
  <2>3. Tail(q) = <<q[2]>>
    <3>1. Tail(<<Head(q), q[2]>>) = <<q[2]>>
      OBVIOUS
    <3> QED BY <2>2, <3>1, Zenon
  <2> QED BY <2>1, <2>2, <2>3
<1> QED BY <1>0, <1>1, <1>2, <1>3

LEMMA IputFreeCall ==
    ASSUME InodeInv, NEW p \in Procs, IputFree(p),
           \A v \in Slots : icache'[v].ref = icache[v].ref
    PROVE  LET s == Head(loc[p].puts) IN
           /\ s \in Slots /\ loc[p].puts # <<>> /\ s \in HeldBy(p) /\ icache[s].lock = None
           /\ \E f \in {"last", "before"} : Pointer(p, f) = s
           /\ pc[p] \notin {"ialloc", "new"} /\ pc' = pc
           /\ Moves(p) /\ ofile'[p] = ofile[p] /\ pc'[p] = pc[p]
           /\ loc'[p].at = loc[p].at /\ loc'[p].ip = loc[p].ip /\ loc'[p].dp = loc[p].dp
           /\ loc'[p].op = loc[p].op /\ loc'[p].path = loc[p].path /\ loc'[p].unref = s
           /\ LastOf(loc'[p].puts) \in {0, LastOf(loc[p].puts)} /\ BeforeOf(loc'[p].puts) = 0
           /\ s = LastOf(loc[p].puts) => LastOf(loc'[p].puts) = 0 \/ BeforeOf(loc[p].puts) = s
           /\ RefCounts' /\ CallOK(p)' /\ (Credit(p)' <=> Credit(p))
<1> DEFINE r == loc[p]
           q == r.puts
           s == Head(q)
           u == [r EXCEPT !.puts = Tail(@), !.unref = s]
<1>i. TypeOK /\ RefCounts /\ ProcsOK
  BY DEF InodeInv
<1>1. /\ q # <<>> /\ r.unref = 0 /\ Unlocked(s) /\ pc' = pc /\ ofile' = ofile
      /\ loc' = [loc EXCEPT ![p] = u]
  BY <1>i DEF IputFree, TypeOK
<1>t. pc \in [Procs -> Places] /\ loc \in [Procs -> LocType] /\ ofile \in [Procs -> 0 .. NINODE]
      /\ icache \in CacheType /\ r \in LocType /\ q \in Seq(Slots) /\ Len(q) <= 2
  BY <1>i DEF TypeOK, LocType, RefCounts
<1>2. /\ s \in Slots /\ Tail(q) \in Seq(Slots)
      /\ \/ q = <<s>> /\ Tail(q) = <<>>
         \/ \E b \in Slots : q = <<s, b>> /\ Tail(q) = <<b>>
  <2>1. q \in Seq(Slots) /\ q # <<>> /\ Len(q) <= 2
    BY <1>1, <1>t
  <2> HIDE DEF r, q
  <2> QED BY <2>1, PutsSplit
<1>3. \A v \in Slots : v # 0 /\ icache[v].ref \in Nat /\ v \in 0 .. NINODE
  BY <1>t, SlotSeq DEF CacheType
<1>4. /\ u \in LocType /\ u.op = r.op /\ u.path = r.path /\ u.new = r.new /\ u.at = r.at
      /\ u.ip = r.ip /\ u.dp = r.dp /\ u.inum = r.inum /\ u.puts = Tail(q) /\ u.unref = s
  <2> HIDE DEF s
  <2> QED BY <1>t, <1>2, <1>3 DEF LocType
<1> HIDE DEF u
<1>5. Moves(p) /\ loc'[p] = u /\ ofile'[p] = ofile[p] /\ pc'[p] = pc[p]
  BY <1>1, <1>t, <1>4 DEF Moves
<1> HIDE DEF s, q, r
<1>6. /\ \/ LastOf(q) = s /\ BeforeOf(q) = 0 /\ LastOf(u.puts) = 0 /\ BeforeOf(u.puts) = 0
            /\ Len(u.puts) = 0
         \/ BeforeOf(q) = s /\ LastOf(u.puts) = LastOf(q) /\ BeforeOf(u.puts) = 0 /\ Len(u.puts) = 1
            /\ Len(q) = 2
      /\ s = LastOf(q) \/ s = BeforeOf(q)
  <2>1. CASE q = <<s>> /\ Tail(q) = <<>>
    BY <1>4, <2>1, PutsAre
  <2>2. CASE \E b \in Slots : q = <<s, b>> /\ Tail(q) = <<b>>
    <3>1. PICK b \in Slots : q = <<s, b>> /\ Tail(q) = <<b>>
      BY <2>2
    <3>2. LastOf(q) = b /\ BeforeOf(q) = s /\ Len(q) = 2
      BY <3>1, PutsAre
    <3>3. LastOf(u.puts) = b /\ BeforeOf(u.puts) = 0 /\ Len(u.puts) = 1
      BY <1>4, <3>1, PutsAre
    <3> QED BY <3>2, <3>3
  <2> QED BY <1>2, <2>1, <2>2
<1>7. RefCounts'
  <2>1. ASSUME NEW v \in Slots
        PROVE  icache'[v].ref
                 = icache[v].ref + OwnRefs(ofile'[p], loc'[p], v) - OwnRefs(ofile[p], loc[p], v)
    <3>1. v # 0 /\ icache[v].ref \in Nat
      BY <1>3
    <3>2. OwnRefs(ofile[p], u, v) = OwnRefs(ofile[p], r, v)
      <4>1. /\ u.at = r.at /\ u.ip = r.ip /\ u.dp = r.dp /\ u.unref = s /\ r.unref = 0 /\ r.puts = q
        BY <1>1, <1>4 DEF q
      <4> QED BY <1>6, <3>1, <4>1 DEF OwnRefs, One
    <3>3. OwnRefs(ofile[p], r, v) \in Nat
      BY DEF OwnRefs, One
    <3>4. icache'[v].ref = icache[v].ref + OwnRefs(ofile[p], u, v) - OwnRefs(ofile[p], r, v)
      BY <3>1, <3>2, <3>3
    <3> QED BY <1>5, <3>4 DEF r
  <2>2. Len(loc'[p].puts) <= 2
    <3>1. Len(u.puts) <= 2
      BY <1>6
    <3> QED BY <1>5, <3>1
  <2> QED BY <1>i, <1>5, <2>1, <2>2, RefsStep DEF Moves
<1>8. CallOK(p)
  BY <1>i DEF ProcsOK
<1>9. pc[p] \notin {"ialloc", "new"}
  BY <1>1, <1>8 DEF CallOK, q, r
<1>10. Credit(p)' <=> Credit(p)
  BY <1>4, <1>5 DEF Credit, r
<1>11. CallOK(p)'
  <2>1. Len(u.puts) <= 1
    BY <1>6
  <2> QED BY <1>4, <1>5, <1>8, <1>9, <1>10, <2>1 DEF CallOK, r
<1>12. s \in HeldBy(p)
  BY <1>6 DEF HeldBy, q, r
<1>13. icache[s].lock = None
  BY <1>1 DEF Unlocked
<1>14. /\ LastOf(loc'[p].puts) \in {0, LastOf(loc[p].puts)} /\ BeforeOf(loc'[p].puts) = 0
       /\ s = LastOf(loc[p].puts) => LastOf(loc'[p].puts) = 0 \/ BeforeOf(loc[p].puts) = s
  BY <1>5, <1>6 DEF q, r
<1>15. /\ loc'[p].at = loc[p].at /\ loc'[p].ip = loc[p].ip /\ loc'[p].dp = loc[p].dp
       /\ loc'[p].op = loc[p].op /\ loc'[p].path = loc[p].path /\ loc'[p].unref = s
  BY <1>4, <1>5 DEF r
<1>16. s \in Slots /\ loc[p].puts # <<>>
  BY <1>1, <1>2 DEF q, r
<1>17. \E f \in {"last", "before"} : Pointer(p, f) = s
  BY <1>6, PointerIs DEF q, r
<1> QED BY <1>1, <1>17, <1>5, <1>7, <1>9, <1>10, <1>11, <1>12, <1>13, <1>14, <1>15, <1>16 DEF s, q, r

LEMMA IputFreeKept ==
    ASSUME InodeInv, NEW p \in Procs, IputFree(p), ~Last(icache[Head(loc[p].puts)])
    PROVE  InodeInv'
<1>1. icache' = icache /\ UNCHANGED disk
  BY DEF IputFree, disk
<1>2. /\ pc[p] \notin {"ialloc", "new"} /\ pc' = pc
      /\ Moves(p) /\ ofile'[p] = ofile[p] /\ pc'[p] = pc[p]
      /\ loc'[p].at = loc[p].at /\ loc'[p].ip = loc[p].ip /\ loc'[p].dp = loc[p].dp
      /\ loc'[p].path = loc[p].path
      /\ LastOf(loc'[p].puts) \in {0, LastOf(loc[p].puts)} /\ BeforeOf(loc'[p].puts) = 0
      /\ RefCounts' /\ CallOK(p)' /\ (Credit(p)' <=> Credit(p))
  BY <1>1, IputFreeCall
<1>3. LockOK(p)'
  <2>1. LockOK(p)
    BY DEF InodeInv, ProcsOK
  <2> QED BY <1>1, <1>2, <2>1 DEF LockOK
<1>4. MayPoint(p)
  BY <1>2 DEF MayPoint, May, HeldBy
<1>5. Good(icache', dinode) /\ Calm(icache, icache', p)
  BY <1>1, InvGood DEF InodeInv, Calm
<1> QED BY <1>1, <1>2, <1>3, <1>4, <1>5, Quiet

-----------------------------------------------------------------------------
(* The steps that change the disk.  What is written back.                  *)
InodeType == [type : Types \cup {"none"}, nlink : Nat, addr : 0 .. NBLOCKS]

Writes(d, i, r, D) ==
    d \in DiskType /\ i \in Inums /\ r \in InodeType /\ D = [d EXCEPT ![i] = r]

LEMMA DiskChange ==
    ASSUME NEW d, NEW i, NEW r, NEW D, Writes(d, i, r, D)
    PROVE  D \in DiskType /\ D[i] = r /\ \A j \in Inums : j # i => D[j] = d[j]
BY DEF Writes, DiskType, InodeType

Updates(c, d, s, r, e, D) ==
    /\ Good(c, d) /\ s \in Slots /\ c[s].ref > 0 /\ c[s].valid
    /\ r \in EntryType /\ r.inum = c[s].inum /\ r.ref = c[s].ref /\ r.lock = c[s].lock
    /\ r.valid = TRUE /\ r.type # "none"
    /\ e = [c EXCEPT ![s] = r] /\ D = [d EXCEPT ![c[s].inum] = Content(r)]

LEMMA IupdateIs ==
    ASSUME NEW c, NEW d, NEW s, NEW r, NEW e, NEW D, Updates(c, d, s, r, e, D)
    PROVE  /\ Good(e, D) /\ e[s] = r /\ \A t \in Slots : t # s => e[t] = c[t]
           /\ \A p : Tame(c, e, p)
           /\ c[s].inum \in Inums /\ D[c[s].inum] = Content(r)
           /\ \A i \in Inums : i # c[s].inum => D[i] = d[i]
<1> USE DEF Updates
<1> DEFINE i == c[s].inum
<1>0. e = [c EXCEPT ![s] = r] /\ D = [d EXCEPT ![i] = Content(r)]
  OBVIOUS
<1>1. c \in CacheType /\ d \in DiskType /\ i \in Inums
  BY DEF Good
<1>2. e \in CacheType /\ e[s] = r /\ \A t \in Slots : t # s => e[t] = c[t]
  <2> DEFINE g == [c EXCEPT ![s] = r]
  <2>1. g \in CacheType /\ g[s] = r /\ \A t \in Slots : t # s => g[t] = c[t]
    BY <1>1 DEF CacheType, EntryType
  <2> QED BY <1>0, <2>1
<1>3. /\ D \in DiskType /\ D[i] = Content(r) /\ \A j \in Inums : j # i => D[j] = d[j]
      /\ D[i].type = r.type
  <2>1. Content(r) \in InodeType /\ Content(r).type = r.type
    BY DEF EntryType, Content, InodeType
  <2> HIDE DEF i, Updates
  <2>2. Writes(d, i, Content(r), D)
    BY <1>0, <1>1, <2>1 DEF Writes
  <2>3. D \in DiskType /\ D[i] = Content(r) /\ \A j \in Inums : j # i => D[j] = d[j]
    BY <2>2, DiskChange
  <2> QED BY <2>1, <2>3
<1>4. \A t \in Slots : e[t].inum = c[t].inum /\ e[t].ref = c[t].ref
  BY <1>2
<1>5. \A t \in Slots : c[t].ref > 0 /\ c[t].inum = i => t = s
  BY DEF Good
<1>6. \A t \in Slots : e[t].ref > 0 /\ e[t].valid =>
         Content(e[t]) = D[e[t].inum] /\ D[e[t].inum].type # "none"
  <2> SUFFICES ASSUME NEW t \in Slots, e[t].ref > 0, e[t].valid
               PROVE  Content(e[t]) = D[e[t].inum] /\ D[e[t].inum].type # "none"
    OBVIOUS
  <2>1. CASE t = s
    BY <1>2, <1>3, <2>1
  <2>2. CASE t # s
    <3>1. e[t] = c[t]
      BY <1>2, <2>2
    <3>2. c[t].inum # i /\ c[t].inum \in Inums
      BY <1>5, <2>2, <3>1 DEF Good
    <3>3. Content(c[t]) = d[c[t].inum] /\ d[c[t].inum].type # "none"
      BY <3>1 DEF Good
    <3> QED BY <1>3, <3>1, <3>2, <3>3
  <2> QED BY <2>1, <2>2
<1>7. /\ \A t, u \in Slots : e[t].ref > 0 /\ e[u].ref > 0 /\ e[t].inum = e[u].inum => t = u
      /\ \A t \in Slots : e[t].ref > 0 => e[t].inum \in Inums
      /\ e[Cwd].inum = ROOTINO /\ e[Cwd].ref > 0
  BY <1>4, CwdIn DEF Good
<1>8. Good(e, D)
  BY <1>2, <1>3, <1>6, <1>7 DEF Good
<1>9. \A p : Tame(c, e, p)
  <2>1. \A t \in Slots : e[t].lock = c[t].lock /\ (c[t].valid => e[t].valid)
    BY <1>2
  <2> QED BY <1>4, <2>1 DEF Tame
<1> QED BY <1>1, <1>2, <1>3, <1>8, <1>9

(* An inode that is freed, and one that is allocated.                      *)
Frees(c, d, s, e, D) ==
    /\ Good(c, d) /\ s \in Slots /\ c[s].ref > 0 /\ c[s].valid /\ s # Cwd
    /\ e = [c EXCEPT ![s] = Freed(@)] /\ D = [d EXCEPT ![c[s].inum] = FreeInode]

LEMMA FreedIs ==
    ASSUME NEW c, NEW d, NEW s, NEW e, NEW D, Frees(c, d, s, e, D)
    PROVE  /\ Good(e, D) /\ e[s].inum = c[s].inum /\ e[s].ref = c[s].ref /\ e[s].lock = c[s].lock
           /\ \A t \in Slots : t # s => e[t] = c[t]
           /\ c[s].inum \in Inums /\ D[c[s].inum] = FreeInode
           /\ \A i \in Inums : i # c[s].inum => D[i] = d[i]
<1> DEFINE r == Freed(c[s])
           i == c[s].inum
<1> USE DEF Frees
<1>1. c \in CacheType /\ d \in DiskType /\ i \in Inums /\ c[s] \in EntryType
  BY DEF Good, CacheType, EntryType
<1>2. r \in EntryType /\ r.inum = i /\ r.ref = c[s].ref /\ r.lock = c[s].lock /\ r.valid = FALSE
  <2>1. 0 \in 0 .. NBLOCKS
    BY InodeAssumption
  <2> QED BY <1>1, <2>1 DEF Freed, EntryType
<1>3. e = [c EXCEPT ![s] = r]
  BY <1>1 DEF CacheType
<1> HIDE DEF r
<1>4. e \in CacheType /\ e[s] = r /\ \A t \in Slots : t # s => e[t] = c[t]
  <2> DEFINE g == [c EXCEPT ![s] = r]
  <2>1. g \in CacheType /\ g[s] = r /\ \A t \in Slots : t # s => g[t] = c[t]
    BY <1>1, <1>2 DEF CacheType, EntryType
  <2> QED BY <1>3, <2>1
<1>5. /\ D \in DiskType /\ D[i] = FreeInode /\ \A j \in Inums : j # i => D[j] = d[j]
  <2>1. FreeInode \in InodeType
    BY InodeAssumption DEF FreeInode, InodeType
  <2>2. D = [d EXCEPT ![i] = FreeInode]
    OBVIOUS
  <2> HIDE DEF i, Frees
  <2>3. Writes(d, i, FreeInode, D)
    BY <1>1, <2>1, <2>2 DEF Writes
  <2> QED BY <2>3, DiskChange
<1>6. \A t \in Slots : e[t].inum = c[t].inum /\ e[t].ref = c[t].ref
  BY <1>2, <1>4
<1>7. \A t \in Slots : c[t].ref > 0 /\ c[t].inum = i => t = s
  BY DEF Good
<1>8. \A t \in Slots : e[t].ref > 0 /\ e[t].valid =>
         Content(e[t]) = D[e[t].inum] /\ D[e[t].inum].type # "none"
  <2> SUFFICES ASSUME NEW t \in Slots, e[t].ref > 0, e[t].valid
               PROVE  Content(e[t]) = D[e[t].inum] /\ D[e[t].inum].type # "none"
    OBVIOUS
  <2>1. t # s
    BY <1>2, <1>4
  <2>2. e[t] = c[t]
    BY <1>4, <2>1
  <2>3. c[t].inum # i /\ c[t].inum \in Inums
    BY <1>7, <2>1, <2>2 DEF Good
  <2>4. Content(c[t]) = d[c[t].inum] /\ d[c[t].inum].type # "none"
    BY <2>2 DEF Good
  <2> QED BY <1>5, <2>2, <2>3, <2>4
<1>9. /\ \A t, u \in Slots : e[t].ref > 0 /\ e[u].ref > 0 /\ e[t].inum = e[u].inum => t = u
      /\ \A t \in Slots : e[t].ref > 0 => e[t].inum \in Inums
      /\ e[Cwd].inum = ROOTINO /\ e[Cwd].ref > 0
  BY <1>6, CwdIn DEF Good
<1>10. Good(e, D)
  BY <1>4, <1>5, <1>8, <1>9 DEF Good
<1> QED BY <1>1, <1>2, <1>3, <1>4, <1>5, <1>10

Allocates(c, d, i, t, D) == /\ Good(c, d) /\ i \in Inums /\ d[i].type = "none" /\ t \in Types
                            /\ D = [d EXCEPT ![i].type = t]

LEMMA AllocatedIs ==
    ASSUME NEW c, NEW d, NEW i, NEW t, NEW D, Allocates(c, d, i, t, D)
    PROVE  /\ Good(c, D) /\ D[i] = [d[i] EXCEPT !.type = t]
           /\ \A j \in Inums : j # i => D[j] = d[j]
<1> DEFINE x == [d[i] EXCEPT !.type = t]
<1> USE DEF Allocates
<1>1. d \in DiskType /\ c \in CacheType
  BY DEF Good
<1>2. D = [d EXCEPT ![i] = x]
  BY <1>1 DEF DiskType
<1>3. x \in [type : Types \cup {"none"}, nlink : Nat, addr : 0 .. NBLOCKS] /\ x.type # "none"
  BY <1>1 DEF DiskType, Types
<1> HIDE DEF x
<1>4. D \in DiskType /\ D[i] = x /\ \A j \in Inums : j # i => D[j] = d[j]
  BY <1>1, <1>2, <1>3 DEF DiskType
<1>5. \A s \in Slots : c[s].ref > 0 /\ c[s].valid => c[s].inum # i /\ c[s].inum \in Inums
  BY DEF Good
<1>6. \A s \in Slots : c[s].ref > 0 /\ c[s].valid =>
         Content(c[s]) = D[c[s].inum] /\ D[c[s].inum].type # "none"
  BY <1>4, <1>5 DEF Good
<1>7. Good(c, D)
  BY <1>4, <1>6 DEF Good
<1> QED BY <1>2, <1>4, <1>7 DEF x

(* The last pointer to an inode is the only one.                           *)
LEMMA LastPointer ==
    ASSUME TypeOK, RefCounts, NEW p \in Procs, NEW f \in Fields, NEW s \in Slots,
           Pointer(p, f) = s, icache[s].ref = 1
    PROVE  /\ s # Cwd
           /\ \A q \in Procs, g \in Fields : Pointer(q, g) = s => q = p /\ g = f
<1>1. Pointers(s) \in SUBSET (Procs \X Fields) /\ <<p, f>> \in Pointers(s)
  BY DEF Pointers
<1>2. IsFiniteSet(Pointers(s)) /\ Cardinality(Pointers(s)) \in Nat
  BY <1>1, PointersFinite, FS_Subset, FS_CardinalityType
<1>3. Cardinality(Pointers(s)) # 0
  BY <1>1, <1>2, FS_EmptySet
<1>4. 1 = Cardinality(Pointers(s)) + IF s = Cwd THEN 1 ELSE 0
  BY DEF RefCounts
<1>5. s # Cwd /\ Cardinality(Pointers(s)) = 1
  BY <1>2, <1>3, <1>4
<1>6. PICK x : Pointers(s) = {x}
  BY <1>2, <1>5, FS_Singleton
<1>7. ASSUME NEW q \in Procs, NEW g \in Fields, Pointer(q, g) = s PROVE q = p /\ g = f
  <2>1. <<q, g>> \in Pointers(s)
    BY <1>7 DEF Pointers
  <2>2. <<q, g>> = <<p, f>>
    BY <1>1, <1>6, <2>1
  <2> QED BY <2>2
<1> QED BY <1>5, <1>7

(* Nobody else is where the lock of dp is held, when p has it or it is     *)
(* free.                                                                   *)
LEMMA LockedOut ==
    ASSUME InodeInv, NEW q \in Procs, pc[q] \in DpLocked,
           NEW s \in Slots, icache[s].ref > 0, icache[s].inum = Inum(q, "dp")
    PROVE  icache[s].lock = q
<1>1. loc[q].dp # 0 /\ icache[loc[q].dp].lock = q
  BY DEF InodeInv, ProcsOK, CallOK, LockOK, DpLocked, HasDp
<1>2. loc[q].dp \in Slots /\ icache[loc[q].dp].ref > 0 /\ icache[loc[q].dp].inum = Inum(q, "dp")
  BY <1>1, DpDir
<1>3. loc[q].dp = s
  BY <1>2 DEF InodeInv, CacheCoherent, Used
<1> QED BY <1>1, <1>3

LEMMA DirBlocks ==
    ASSUME TypeOK, BlocksOwned, NEW d \in Dirs
    PROVE  /\ dinode[d].addr \in Blocks /\ dinode[d].addr \in bitmap /\ d \in Alloc /\ IsDir(d)
           /\ \A e \in Dirs : dinode[e].addr = dinode[d].addr => e = d
<1>1. d \in Alloc /\ d \in Inums /\ dinode[d].addr # 0 /\ IsDir(d) /\ \A e \in Dirs : e \in Alloc
  BY DEF Dirs, Alloc, IsDir
<1>2. dinode[d].addr \in 0 .. NBLOCKS
  BY <1>1 DEF TypeOK, DiskType
<1>3. dinode[d].addr \in Blocks
  BY <1>1, <1>2, InodeAssumption DEF Blocks
<1>4. dinode[d].addr \in bitmap
  BY <1>1 DEF BlocksOwned
<1>5. \A e \in Dirs : dinode[e].addr = dinode[d].addr => e = d
  BY <1>1 DEF BlocksOwned
<1> QED BY <1>1, <1>3, <1>4, <1>5

-----------------------------------------------------------------------------
(* Counting links: a set T that is within S and one element more or less.  *)
Within(T, S, n) == \/ n = 0 /\ T \subseteq S
                   \/ n = 1 /\ \E x : T \subseteq S \cup {x}
                   \/ n = -1 /\ \E x \in S : T \subseteq S \ {x}

LEMMA WithinCard ==
    ASSUME NEW T, NEW S, NEW n, IsFiniteSet(S), Within(T, S, n)
    PROVE  /\ n \in Int /\ Cardinality(S) \in Nat /\ Cardinality(T) \in Nat
           /\ Cardinality(T) <= Cardinality(S) + n
<1>0. Cardinality(S) \in Nat
  BY FS_CardinalityType
<1>1. CASE n = 0 /\ T \subseteq S
  <2>1. IsFiniteSet(T) /\ Cardinality(T) <= Cardinality(S)
    BY <1>1, FS_Subset
  <2>2. Cardinality(T) \in Nat
    BY <2>1, FS_CardinalityType
  <2> QED BY <1>0, <1>1, <2>1, <2>2
<1>2. CASE n = 1 /\ \E x : T \subseteq S \cup {x}
  <2>1. PICK x : T \subseteq S \cup {x}
    BY <1>2
  <2> DEFINE U == S \cup {x}
  <2>2. IsFiniteSet(U) /\ (Cardinality(U) = Cardinality(S) \/ Cardinality(U) = Cardinality(S) + 1)
    BY FS_AddElement
  <2> HIDE DEF U
  <2>3. IsFiniteSet(T) /\ Cardinality(T) <= Cardinality(U)
    BY <2>1, <2>2, FS_Subset DEF U
  <2>4. Cardinality(T) \in Nat
    BY <2>3, FS_CardinalityType
  <2> QED BY <1>0, <1>2, <2>2, <2>3, <2>4
<1>3. CASE n = -1 /\ \E x \in S : T \subseteq S \ {x}
  <2>1. PICK x \in S : T \subseteq S \ {x}
    BY <1>3
  <2> DEFINE U == S \ {x}
  <2>2. IsFiniteSet(U) /\ Cardinality(U) = Cardinality(S) - 1
    BY <2>1, FS_RemoveElement
  <2> HIDE DEF U
  <2>3. IsFiniteSet(T) /\ Cardinality(T) <= Cardinality(U)
    BY <2>1, <2>2, FS_Subset DEF U
  <2>4. Cardinality(T) \in Nat
    BY <2>3, FS_CardinalityType
  <2> QED BY <1>0, <1>3, <2>2, <2>3, <2>4
<1> QED BY <1>1, <1>2, <1>3 DEF Within

(* The links of inode i are still covered.                                 *)
LEMMA LinksStep ==
    ASSUME TypeOK, LinksHeld, NEW i \in Inums, NEW a, NEW b, NEW k,
           Within(NamesOf(i)', NamesOf(i), a), Within(Subdirs(i)', Subdirs(i), b),
           Within(Credits(i)', Credits(i), k),
           dinode'[i].nlink \in Nat, dinode[i].nlink + a + b + k <= dinode'[i].nlink
    PROVE  Cardinality(NamesOf(i)') + Cardinality(Subdirs(i)') + Cardinality(Credits(i)')
              <= dinode'[i].nlink
<1>1. /\ IsFiniteSet(NamesOf(i)) /\ IsFiniteSet(Subdirs(i)) /\ IsFiniteSet(Credits(i))
  BY LinksFinite
<1>2. Cardinality(NamesOf(i)) + Cardinality(Subdirs(i)) + Cardinality(Credits(i)) <= dinode[i].nlink
  BY DEF LinksHeld
<1>3. dinode[i].nlink \in Nat
  BY DEF TypeOK, DiskType
<1>4. /\ a \in Int /\ Cardinality(NamesOf(i)) \in Nat /\ Cardinality(NamesOf(i)') \in Nat
      /\ Cardinality(NamesOf(i)') <= Cardinality(NamesOf(i)) + a
  BY <1>1, WithinCard
<1>5. /\ b \in Int /\ Cardinality(Subdirs(i)) \in Nat /\ Cardinality(Subdirs(i)') \in Nat
      /\ Cardinality(Subdirs(i)') <= Cardinality(Subdirs(i)) + b
  BY <1>1, WithinCard
<1>6. /\ k \in Int /\ Cardinality(Credits(i)) \in Nat /\ Cardinality(Credits(i)') \in Nat
      /\ Cardinality(Credits(i)') <= Cardinality(Credits(i)) + k
  BY <1>1, WithinCard
<1> QED BY <1>2, <1>3, <1>4, <1>5, <1>6

(* What a step that sets entry n of directory D to v does to the names.    *)
OldDir(d, D, n, v) ==
    /\ d \in Dirs /\ dinode'[d].addr = dinode[d].addr
    /\ \A m \in Names : entry'[dinode[d].addr][m]
          = IF d = D /\ m = n THEN v ELSE entry[dinode[d].addr][m]
NewDir(d) == entry'[dinode'[d].addr] = NoEntries

LEMMA NamesFewer ==
    ASSUME InodeInv,
           \A d \in Dirs' : NewDir(d) \/ OldDir(d, 0, 0, 0),
           \A j \in Alloc : IsDir(j)' => IsDir(j),
           NEW i \in Inums
    PROVE  Within(NamesOf(i)', NamesOf(i), 0) /\ Within(Subdirs(i)', Subdirs(i), 0)
<1>0. 0 \notin Inums
  BY DEF Inums
<1>1. \A d \in Dirs', m \in Names : entry'[dinode'[d].addr][m] # 0 =>
         /\ d \in Dirs /\ dinode'[d].addr = dinode[d].addr
         /\ entry'[dinode'[d].addr][m] = entry[dinode[d].addr][m]
  <2> SUFFICES ASSUME NEW d \in Dirs', NEW m \in Names, entry'[dinode'[d].addr][m] # 0
               PROVE  /\ d \in Dirs /\ dinode'[d].addr = dinode[d].addr
                      /\ entry'[dinode'[d].addr][m] = entry[dinode[d].addr][m]
    OBVIOUS
  <2>1. ~NewDir(d)
    BY DEF NewDir, NoEntries
  <2>2. OldDir(d, 0, 0, 0)
    BY <2>1
  <2>3. d \in Inums
    BY DEF Dirs, Alloc
  <2> QED BY <1>0, <2>2, <2>3 DEF OldDir
<1>2. NamesOf(i)' \subseteq NamesOf(i)
  <2> SUFFICES ASSUME NEW d \in Dirs', NEW m \in Names, entry'[dinode'[d].addr][m] = i
               PROVE  <<dinode'[d].addr, m>> \in NamesOf(i)
    BY DEF NamesOf
  <2>1. d \in Dirs /\ dinode'[d].addr = dinode[d].addr /\ entry[dinode[d].addr][m] = i
    BY <1>0, <1>1
  <2> QED BY <2>1 DEF NamesOf
<1>3. Subdirs(i)' \subseteq Subdirs(i)
  <2> SUFFICES ASSUME NEW m \in Names, i \in Dirs', entry'[dinode'[i].addr][m] # 0,
                      dinode'[entry'[dinode'[i].addr][m]].type = "dir"
               PROVE  m \in Subdirs(i)
    BY DEF Subdirs, IsDir
  <2>1. /\ i \in Dirs /\ dinode'[i].addr = dinode[i].addr
        /\ entry'[dinode'[i].addr][m] = entry[dinode[i].addr][m]
    BY <1>1
  <2> DEFINE j == entry[dinode[i].addr][m]
  <2>2. Public(j)
    BY <2>1, NamedPublic DEF InodeInv
  <2>3. j \in Alloc /\ dinode'[j].type = "dir"
    BY <2>1, <2>2 DEF Public, IsDir
  <2>4. IsDir(j)
    BY <2>3 DEF IsDir
  <2> QED BY <2>1, <2>4 DEF Subdirs
<1> QED BY <1>2, <1>3 DEF Within

LEMMA EntrySet ==
    ASSUME InodeInv, NEW D \in Dirs, NEW n \in Names, NEW v,
           v = 0 \/ v \in Alloc,
           \A d \in Dirs' : NewDir(d) \/ OldDir(d, D, n, v),
           \A j \in Alloc : IsDir(j)' => IsDir(j),
           NEW i \in Inums
    PROVE  LET x == <<dinode[D].addr, n>> IN
           /\ NamesOf(i)' \subseteq NamesOf(i) \cup {x}
           /\ i # v => NamesOf(i)' \subseteq NamesOf(i) \ {x}
           /\ Subdirs(i)' \subseteq Subdirs(i) \cup {n}
           /\ i # D => Subdirs(i)' \subseteq Subdirs(i)
           /\ v = 0 \/ ~IsDir(v) => Subdirs(i)' \subseteq Subdirs(i)
           /\ i = D /\ v = 0 => Subdirs(i)' \subseteq Subdirs(i) \ {n}
<1> DEFINE x == <<dinode[D].addr, n>>
<1>0. 0 \notin Inums /\ TypeOK /\ BlocksOwned
  BY DEF Inums, InodeInv
<1>1. \A d \in Dirs', m \in Names : entry'[dinode'[d].addr][m] # 0 =>
         /\ d \in Dirs /\ dinode'[d].addr = dinode[d].addr
         /\ \/ d = D /\ m = n /\ entry'[dinode'[d].addr][m] = v
            \/ ~(d = D /\ m = n) /\ entry'[dinode'[d].addr][m] = entry[dinode[d].addr][m]
  <2> SUFFICES ASSUME NEW d \in Dirs', NEW m \in Names, entry'[dinode'[d].addr][m] # 0
               PROVE  /\ d \in Dirs /\ dinode'[d].addr = dinode[d].addr
                      /\ \/ d = D /\ m = n /\ entry'[dinode'[d].addr][m] = v
                         \/ /\ ~(d = D /\ m = n)
                            /\ entry'[dinode'[d].addr][m] = entry[dinode[d].addr][m]
    OBVIOUS
  <2>1. ~NewDir(d)
    BY DEF NewDir, NoEntries
  <2>2. OldDir(d, D, n, v)
    BY <2>1
  <2> QED BY <2>2 DEF OldDir
<1>2. ASSUME NEW d \in Dirs', NEW m \in Names, entry'[dinode'[d].addr][m] = i
      PROVE  /\ <<dinode'[d].addr, m>> \in NamesOf(i) \cup {x}
             /\ i # v => <<dinode'[d].addr, m>> \in NamesOf(i) \ {x}
  <2>1. d \in Dirs /\ dinode'[d].addr = dinode[d].addr
    BY <1>0, <1>1, <1>2
  <2>2. CASE d = D /\ m = n /\ i = v
    BY <2>1, <2>2
  <2>3. CASE ~(d = D /\ m = n) /\ entry[dinode[d].addr][m] = i
    <3>1. <<dinode[d].addr, m>> \in NamesOf(i)
      BY <2>1, <2>3 DEF NamesOf
    <3>2. <<dinode[d].addr, m>> # x
      BY <1>0, <2>1, <2>3, DirBlocks
    <3> QED BY <2>1, <3>1, <3>2
  <2> QED BY <1>0, <1>1, <1>2, <2>2, <2>3
<1>3. NamesOf(i)' \subseteq NamesOf(i) \cup {x} /\ (i # v => NamesOf(i)' \subseteq NamesOf(i) \ {x})
  <2> SUFFICES ASSUME NEW y \in NamesOf(i)'
               PROVE  y \in NamesOf(i) \cup {x} /\ (i # v => y \in NamesOf(i) \ {x})
    OBVIOUS
  <2>1. PICK d \in Dirs', m \in Names : y = <<dinode'[d].addr, m>> /\ entry'[dinode'[d].addr][m] = i
    BY DEF NamesOf
  <2> HIDE DEF x
  <2> QED BY <1>2, <2>1
<1>4. ASSUME NEW m \in Subdirs(i)'
      PROVE  /\ i \in Dirs
             /\ \/ i = D /\ m = n /\ v # 0 /\ IsDir(v)
                \/ m \in Subdirs(i) /\ ~(i = D /\ m = n)
  <2>1. m \in Names /\ i \in Dirs' /\ entry'[dinode'[i].addr][m] # 0
        /\ dinode'[entry'[dinode'[i].addr][m]].type = "dir"
    BY <1>4 DEF Subdirs, IsDir
  <2>2. i \in Dirs /\ dinode'[i].addr = dinode[i].addr
    BY <1>1, <2>1
  <2>3. CASE i = D /\ m = n /\ entry'[dinode'[i].addr][m] = v
    <3>1. dinode'[v].type = "dir" /\ v # 0 /\ IsDir(v)
      BY <2>1, <2>3 DEF IsDir
    <3> QED BY <2>2, <2>3, <3>1
  <2>4. CASE ~(i = D /\ m = n) /\ entry'[dinode'[i].addr][m] = entry[dinode[i].addr][m]
    <3> DEFINE j == entry[dinode[i].addr][m]
    <3>1. Public(j)
      BY <2>1, <2>2, <2>4, NamedPublic DEF InodeInv
    <3>2. j \in Alloc /\ dinode'[j].type = "dir"
      BY <2>1, <2>4, <3>1 DEF Public, IsDir
    <3>3. m \in Subdirs(i)
      BY <2>1, <2>2, <2>4, <3>2 DEF Subdirs
    <3> QED BY <2>2, <2>4, <3>3
  <2> QED BY <1>1, <2>1, <2>3, <2>4
<1> QED BY <1>3, <1>4

-----------------------------------------------------------------------------
(* What a step that changes the disk must see to, part by part.            *)
LEMMA Whole ==
    ASSUME NEW p \in Procs, Moves(p), Good(icache', dinode'),
           RefCounts', ProcsOK', FreshOK', LinksHeld', BlocksOwned', UnlinkOK',
           bitmap' \subseteq Blocks, entry' \in [Blocks -> [Names -> 0 .. NINODES]],
           ROOTINO \in Dirs',
           \A i \in Inums : dinode'[i].type = "none" => dinode'[i] = FreeInode,
           \A i \in Inums : dinode'[i].type = "dir" =>
              dinode'[i].addr # 0 \/ \E q \in Procs : Creating(q, i)'
    PROVE  InodeInv'
<1>1. TypeOK' /\ CacheCoherent'
  BY GoodCoherent DEF Good, TypeOK, Moves
<1>2. InodesOK'
  <2>1. (\A i \in Inums \ Alloc : dinode[i] = FreeInode)'
    BY DEF Alloc
  <2>2. (\A i \in Alloc : IsDir(i) => i \in Dirs \/ \E q \in Procs : Creating(q, i))'
    BY DEF Alloc, Dirs, IsDir
  <2> QED BY <2>1, <2>2, GoodCoherent DEF InodesOK
<1> QED BY <1>1, <1>2 DEF InodeInv

(* The types of the inodes stay, and p makes and gets no new one.          *)
LEMMA Steady ==
    ASSUME InodeInv, NEW p \in Procs, Moves(p), Calm(icache, icache', p),
           CallOK(p)', LockOK(p)',
           pc[p] \notin {"ialloc", "new"}, pc'[p] \notin {"ialloc", "new"},
           \A i \in Inums : dinode'[i].type = dinode[i].type,
           \A q \in Procs, i \in Inums : Creating(q, i) => dinode'[i] = dinode[i],
           MayPoint(p), loc'[p].dp # 0 => loc'[p].dp = loc[p].dp,
           Credit(p)' /\ pc'[p] # "unlinked" =>
              loc'[p].ip = loc[p].ip /\ loc[p].ip # 0 /\ ~IsDir(Inum(p, "ip"))
    PROVE  ProcsOK' /\ FreshOK' /\ \A i : ~Creating(p, i) /\ ~Creating(p, i)'
<1> USE DEF InodeInv
<1>q. Spares(p)
  BY CalmSpares
<1>1. \A f \in Fields : f # "unref" /\ Pointer(p, f)' # 0 => Public(Inum(p, f)')
  <2>1. \A f \in Fields : f # "unref" /\ Pointer(p, f)' # 0 =>
           \/ \E g \in Fields : g # "unref" /\ Pointer(p, g) = Pointer(p, f)'
           \/ Public(icache'[Pointer(p, f)'].inum)
    BY MayPointIs
  <2> QED BY <2>1, QuietPointers
<1>2. \A f \in Fields : Inum(p, f)' = 0 \/ Public(Inum(p, f)')
  BY <1>1 DEF Inum
<1>3. \A i : ~Creating(p, i) /\ ~Creating(p, i)'
  BY DEF Creating
<1>p. /\ Pointer(p, "dp") = loc[p].dp /\ Pointer(p, "ip") = loc[p].ip
      /\ Pointer(p, "dp")' = loc'[p].dp /\ Pointer(p, "ip")' = loc'[p].ip
      /\ {"dp", "ip"} \subseteq Fields
  BY DEF Pointer, Fields
<1>s. \A f \in {"dp", "ip"} : Pointer(p, f) # 0 =>
         /\ icache'[Pointer(p, f)].inum = icache[Pointer(p, f)].inum
         /\ Inum(p, f) \in Inums
  <2>1. \A f \in {"dp", "ip"} : Pointer(p, f) # 0 =>
          Pointer(p, f) \in Slots /\ Used(Pointer(p, f)) /\ Inum(p, f) \in Alloc
    BY <1>p, Pinned DEF ProcsOK, PointerOK
  <2> QED BY <2>1 DEF Calm, Used, Alloc
<1>4. PointerOK(p)'
  <2>1. \A f \in Fields : f # "unref" /\ Pointer(p, f)' # 0 => Inum(p, f)' \in Alloc'
    BY <1>1 DEF Public, Alloc
  <2>2. ASSUME loc'[p].dp # 0 PROVE IsDir(Inum(p, "dp"))'
    <3>1. loc'[p].dp = loc[p].dp /\ loc[p].dp # 0
      BY <2>2
    <3>2. Inum(p, "dp")' = Inum(p, "dp") /\ Inum(p, "dp") \in Inums
      BY <1>p, <1>s, <3>1 DEF Inum
    <3>3. IsDir(Inum(p, "dp"))
      BY <3>1 DEF ProcsOK, PointerOK
    <3> QED BY <3>2, <3>3 DEF IsDir
  <2>3. ASSUME Credit(p)', pc'[p] # "unlinked" PROVE ~IsDir(Inum(p, "ip"))'
    <3>1. loc'[p].ip = loc[p].ip /\ loc[p].ip # 0 /\ ~IsDir(Inum(p, "ip"))
      BY <2>3
    <3>2. Inum(p, "ip")' = Inum(p, "ip") /\ Inum(p, "ip") \in Inums
      BY <1>p, <1>s, <3>1 DEF Inum
    <3> QED BY <3>1, <3>2 DEF IsDir
  <2> QED BY <2>1, <2>2, <2>3 DEF PointerOK
<1>5. ProcsOK' /\ FreshOK'
  <2>1. \A q \in Procs, i \in Inums, f \in Fields : q # p /\ Creating(q, i) => Inum(p, f)' # i
    BY <1>2 DEF Public, Inums
  <2> QED BY <1>3, <1>4, <1>q, <2>1, Frame
<1> QED BY <1>3, <1>5

(* When types stay, what is a directory with a block stays one.            *)
LEMMA DirsStay ==
    ASSUME InodeInv, NEW p \in Procs, Moves(p), Spares(p),
           \A i \in Inums : Creating(p, i) => Creating(p, i)',
           \A i \in Inums : dinode'[i].type = dinode[i].type,
           \A i \in Inums : IsDir(i) => dinode'[i].addr = dinode[i].addr,
           \A i \in Inums : dinode[i].type = "none" => dinode'[i] = dinode[i]
    PROVE  /\ Alloc' = Alloc /\ Dirs' = Dirs /\ \A i \in Inums : IsDir(i)' <=> IsDir(i)
           /\ ROOTINO \in Dirs'
           /\ \A i \in Inums : dinode'[i].type = "none" => dinode'[i] = FreeInode
           /\ \A i \in Inums : dinode'[i].type = "dir" =>
                 dinode'[i].addr # 0 \/ \E q \in Procs : Creating(q, i)'
<1>1. Alloc' = Alloc /\ \A i \in Inums : IsDir(i)' <=> IsDir(i)
  BY DEF Alloc, IsDir
<1>2. Dirs' = Dirs
  BY <1>1 DEF Dirs, Alloc, IsDir
<1>3. ROOTINO \in Dirs' /\ \A i \in Inums : dinode'[i].type = "none" => dinode'[i] = FreeInode
  BY <1>2 DEF InodeInv, InodesOK, Alloc
<1>4. ASSUME NEW i \in Inums, dinode'[i].type = "dir"
      PROVE  dinode'[i].addr # 0 \/ \E q \in Procs : Creating(q, i)'
  <2>1. IsDir(i) /\ i \in Alloc /\ dinode'[i].addr = dinode[i].addr
    BY <1>4 DEF IsDir, Alloc
  <2>2. CASE i \in Dirs
    BY <2>1, <2>2 DEF Dirs
  <2>3. CASE \E q \in Procs : Creating(q, i)
    <3>1. PICK q \in Procs : Creating(q, i)
      BY <2>3
    <3>2. CallOK(q) /\ LockOK(q) /\ TypeOK /\ RefCounts
      BY <3>1 DEF InodeInv, ProcsOK
    <3>3. q # p => Creating(q, i)'
      BY <3>1, <3>2, OthersStay
    <3> QED BY <3>1, <3>3
  <2> QED BY <2>1, <2>2, <2>3 DEF InodeInv, InodesOK
<1> QED BY <1>1, <1>2, <1>3, <1>4

LEMMA UnlinkThen ==
    ASSUME InodeInv, NEW p \in Procs, Moves(p), CallOK(p)',
           \A s \in Slots : icache[s].ref > 0 => icache'[s].inum = icache[s].inum,
           pc'[p] = "unlink_ip" => /\ pc[p] = "unlink_ip" /\ loc'[p].dp = loc[p].dp
                                   /\ loc'[p].ip = loc[p].ip /\ loc'[p].path = loc[p].path,
           \A q \in Procs : pc'[q] = "unlink_ip" /\ pc[q] = "unlink_ip" =>
              LET D == Inum(q, "dp") IN
              /\ dinode'[D].addr = dinode[D].addr
              /\ entry'[dinode[D].addr][Head(loc[q].path)] = entry[dinode[D].addr][Head(loc[q].path)]
    PROVE  UnlinkOK'
<1> SUFFICES ASSUME NEW q \in Procs, pc'[q] = "unlink_ip"
             PROVE  entry'[dinode'[Inum(q, "dp")'].addr][Head(loc'[q].path)] = Inum(q, "ip")'
  BY DEF UnlinkOK
<1>i. TypeOK /\ RefCounts /\ ProcsOK /\ UnlinkOK
  BY DEF InodeInv
<1>1. /\ pc[q] = "unlink_ip" /\ loc'[q].dp = loc[q].dp /\ loc'[q].ip = loc[q].ip
      /\ loc'[q].path = loc[q].path
  BY DEF Moves
<1>2. loc[q].dp # 0 /\ loc[q].ip # 0
  BY <1>i, <1>1 DEF ProcsOK, CallOK, HasIp, HasDp
<1>3. /\ Pointer(q, "dp") = loc[q].dp /\ Pointer(q, "ip") = loc[q].ip
      /\ Pointer(q, "dp")' = loc'[q].dp /\ Pointer(q, "ip")' = loc'[q].ip
      /\ {"dp", "ip"} \subseteq Fields
  BY DEF Pointer, Fields
<1>4. /\ icache'[loc[q].dp].inum = icache[loc[q].dp].inum
      /\ icache'[loc[q].ip].inum = icache[loc[q].ip].inum
  BY <1>i, <1>2, <1>3, Pinned DEF Used
<1>5. Inum(q, "dp")' = Inum(q, "dp") /\ Inum(q, "ip")' = Inum(q, "ip")
  BY <1>1, <1>3, <1>4 DEF Inum
<1>6. entry[dinode[Inum(q, "dp")].addr][Head(loc[q].path)] = Inum(q, "ip")
  BY <1>i, <1>1 DEF UnlinkOK
<1> QED BY <1>1, <1>5, <1>6

(* An inode without a block may get one that is not in use.                *)
LEMMA BlocksThen ==
    ASSUME BlocksOwned, NEW i \in Inums, dinode[i].addr = 0, NEW b,
           b = dinode'[i].addr, b = 0 \/ b \in Blocks \ bitmap,
           dinode'[i].type # "none",
           \A j \in Inums : j # i => dinode'[j].type = dinode[j].type /\ dinode'[j].addr = dinode[j].addr,
           bitmap' = bitmap \cup ({b} \ {0})
    PROVE  BlocksOwned'
<1>1. Alloc' = Alloc \cup {i}
  BY DEF Alloc
<1>2. \A j \in Alloc : dinode[j].addr \in bitmap \cup {0}
  BY DEF BlocksOwned
<1>3. bitmap' = {dinode'[j].addr : j \in Alloc'} \ {0}
  <2>1. ASSUME NEW x \in bitmap PROVE x \in {dinode'[j].addr : j \in Alloc'} \ {0}
    <3>1. PICK j \in Alloc : x = dinode[j].addr /\ x # 0
      BY <2>1 DEF BlocksOwned
    <3>2. j # i /\ j \in Inums /\ j \in Alloc'
      BY <1>1, <3>1 DEF Alloc
    <3> QED BY <3>1, <3>2
  <2>2. b # 0 => b \in {dinode'[j].addr : j \in Alloc'} \ {0}
    BY <1>1
  <2>3. ASSUME NEW j \in Alloc', dinode'[j].addr # 0 PROVE dinode'[j].addr \in bitmap'
    <3>1. CASE j = i
      BY <2>3, <3>1
    <3>2. CASE j # i
      <4>1. j \in Alloc /\ j \in Inums
        BY <1>1, <3>2 DEF Alloc
      <4> QED BY <1>2, <2>3, <3>2, <4>1
    <3> QED BY <3>1, <3>2
  <2> QED BY <2>1, <2>2, <2>3
<1>4. ASSUME NEW j \in Alloc', NEW k \in Alloc', dinode'[j].addr = dinode'[k].addr,
             dinode'[j].addr # 0
      PROVE  j = k
  <2>1. \A h \in Alloc' : h # i => h \in Alloc /\ dinode'[h].addr = dinode[h].addr
    BY <1>1 DEF Alloc
  <2>2. b # 0 => b \notin bitmap
    OBVIOUS
  <2>3. \A h \in Alloc' : h # i => dinode'[h].addr \in bitmap \cup {0}
    BY <1>2, <2>1
  <2>4. CASE j = i \/ k = i
    BY <1>4, <2>2, <2>3, <2>4
  <2>5. CASE j # i /\ k # i
    BY <1>4, <2>1, <2>5 DEF BlocksOwned
  <2> QED BY <2>4, <2>5
<1> QED BY <1>3, <1>4 DEF BlocksOwned

LEMMA BlocksStay ==
    ASSUME BlocksOwned, bitmap' = bitmap,
           \A j \in Inums : dinode'[j].type = dinode[j].type /\ dinode'[j].addr = dinode[j].addr
    PROVE  BlocksOwned'
<1>1. Alloc' = Alloc /\ \A j \in Alloc : dinode'[j].addr = dinode[j].addr
  BY DEF Alloc
<1> QED BY <1>1 DEF BlocksOwned

(* The credits of the others stay.                                         *)
LEMMA CreditsThen ==
    ASSUME InodeInv, NEW p \in Procs, Moves(p), Spares(p), NEW i
    PROVE  /\ Credits(i)' \subseteq Credits(i) \cup {p}
           /\ (~Credit(p)' \/ Inum(p, "ip")' # i) => Credits(i)' \subseteq Credits(i) \ {p}
           /\ (Credit(p)' => Credit(p) /\ Inum(p, "ip")' = Inum(p, "ip"))
                 => Credits(i)' \subseteq Credits(i)
<1>1. \A q \in Procs : q # p /\ Credit(q)' /\ Inum(q, "ip")' = i => Credit(q) /\ Inum(q, "ip") = i
  <2> SUFFICES ASSUME NEW q \in Procs, q # p, Credit(q)', Inum(q, "ip")' = i
               PROVE  Credit(q) /\ Inum(q, "ip") = i
    OBVIOUS
  <2>1. CallOK(q) /\ LockOK(q) /\ TypeOK /\ RefCounts /\ "ip" \in Fields
    BY DEF InodeInv, ProcsOK, Fields
  <2> QED BY <2>1, OthersStay
<1> QED BY <1>1 DEF Credits

-----------------------------------------------------------------------------
(* A step that changes the number of links of an inode, and nothing else   *)
(* on disk.                                                                *)
LEMMA Relink ==
    ASSUME InodeInv, NEW p \in Procs, Moves(p), Good(icache', dinode'), Calm(icache, icache', p),
           RefCounts', CallOK(p)', LockOK(p)',
           pc[p] \notin {"ialloc", "new"}, pc'[p] \notin {"ialloc", "new", "unlink_ip"},
           MayPoint(p), loc'[p].dp # 0 => loc'[p].dp = loc[p].dp,
           Credit(p)' /\ pc'[p] # "unlinked" =>
              loc'[p].ip = loc[p].ip /\ loc[p].ip # 0 /\ ~IsDir(Inum(p, "ip")),
           NEW i \in Inums, Public(i), dinode'[i].nlink \in Nat,
           dinode'[i].type = dinode[i].type, dinode'[i].addr = dinode[i].addr,
           \A j \in Inums : j # i => dinode'[j] = dinode[j] /\ Credits(j)' \subseteq Credits(j),
           bitmap' = bitmap, entry' = entry,
           NEW k, Within(Credits(i)', Credits(i), k), dinode[i].nlink + k <= dinode'[i].nlink
    PROVE  InodeInv'
<1>i. TypeOK /\ RefCounts /\ ProcsOK /\ FreshOK /\ InodesOK /\ LinksHeld /\ BlocksOwned
  BY DEF InodeInv
<1>q. Spares(p)
  BY <1>i, CalmSpares
<1>1. \A j \in Inums : dinode'[j].type = dinode[j].type /\ dinode'[j].addr = dinode[j].addr
  OBVIOUS
<1>2. \A q \in Procs, j \in Inums : Creating(q, j) => dinode'[j] = dinode[j]
  BY DEF Public
<1>3. ProcsOK' /\ FreshOK' /\ \A j : ~Creating(p, j) /\ ~Creating(p, j)'
  BY <1>1, <1>2, Steady
<1>4. /\ Alloc' = Alloc /\ Dirs' = Dirs /\ \A j \in Inums : IsDir(j)' <=> IsDir(j)
      /\ ROOTINO \in Dirs'
      /\ \A j \in Inums : dinode'[j].type = "none" => dinode'[j] = FreeInode
      /\ \A j \in Inums : dinode'[j].type = "dir" =>
            dinode'[j].addr # 0 \/ \E q \in Procs : Creating(q, j)'
  <2>1. \A j \in Inums : dinode[j].type = "none" => dinode'[j] = dinode[j]
    BY DEF Public, Alloc
  <2> QED BY <1>1, <1>3, <1>q, <2>1, DirsStay
<1>5. LinksHeld'
  <2> SUFFICES ASSUME NEW j \in Inums
               PROVE  Cardinality(NamesOf(j)') + Cardinality(Subdirs(j)') + Cardinality(Credits(j)')
                         <= dinode'[j].nlink
    BY DEF LinksHeld
  <2>1. Within(NamesOf(j)', NamesOf(j), 0) /\ Within(Subdirs(j)', Subdirs(j), 0)
    <3>1. \A d \in Dirs' : OldDir(d, 0, 0, 0)
      <4>1. Dirs \subseteq Inums /\ 0 \notin Dirs
        BY DEF Dirs, Alloc, Inums
      <4> QED BY <1>1, <1>4, <4>1 DEF OldDir
    <3>2. \A h \in Alloc : IsDir(h)' => IsDir(h)
      BY <1>4 DEF Alloc
    <3> QED BY <3>1, <3>2, NamesFewer
  <2>2. dinode[j].nlink \in Nat
    BY <1>i DEF TypeOK, DiskType
  <2>3. CASE j = i
    <3>1. k \in Int
      BY DEF Within
    <3>2. dinode[j].nlink + 0 + 0 + k <= dinode'[j].nlink
      BY <2>2, <2>3, <3>1
    <3> QED BY <1>i, <2>1, <2>3, <3>2, LinksStep
  <2>4. CASE j # i
    <3>1. Within(Credits(j)', Credits(j), 0) /\ dinode'[j].nlink = dinode[j].nlink
      BY <2>4 DEF Within
    <3>2. dinode[j].nlink + 0 + 0 + 0 <= dinode'[j].nlink
      BY <2>2, <3>1
    <3> QED BY <1>i, <2>1, <2>2, <3>1, <3>2, LinksStep
  <2> QED BY <2>3, <2>4
<1>6. BlocksOwned'
  BY <1>1, <1>i, BlocksStay
<1>7. UnlinkOK'
  <2>1. \A q \in Procs : pc[q] = "unlink_ip" => Inum(q, "dp") \in Inums
    <3>1. \A q \in Procs : pc[q] = "unlink_ip" => loc[q].dp # 0
      BY <1>i DEF ProcsOK, CallOK, HasDp
    <3> QED BY <3>1, DpDir
  <2>2. \A s \in Slots : icache[s].ref > 0 => icache'[s].inum = icache[s].inum
    BY DEF Calm
  <2> QED BY <1>1, <2>1, <2>2, UnlinkThen
<1>8. bitmap' \subseteq Blocks /\ entry' \in [Blocks -> [Names -> 0 .. NINODES]]
  BY <1>i DEF TypeOK
<1> QED BY <1>3, <1>4, <1>5, <1>6, <1>7, <1>8, Whole

(* The number of links of s in cache c, which p has locked, is set to n.   *)
Relinks(c, d, s, n, e, D) ==
    /\ Good(c, d) /\ s \in Slots /\ c[s].ref > 0 /\ c[s].valid /\ n \in Nat
    /\ e = [c EXCEPT ![s].nlink = n] /\ D = Iupdate(d, e, s)

Relinked(c, d, s, n, e, D) ==
    LET i == c[s].inum IN
    /\ Good(e, D) /\ \A t \in Slots : t # s => e[t] = c[t]
    /\ \A p : Tame(c, e, p)
    /\ e[s].inum = i /\ e[s].ref = c[s].ref /\ e[s].lock = c[s].lock /\ e[s].valid = TRUE
    /\ e[s].addr = c[s].addr /\ e[s].type = c[s].type
    /\ i \in Inums /\ D[i].nlink = n /\ D[i].type = d[i].type /\ D[i].addr = d[i].addr
    /\ d[i].nlink = c[s].nlink /\ d[i].nlink \in Nat
    /\ \A j \in Inums : j # i => D[j] = d[j]

LEMMA NlinkIs ==
    ASSUME NEW c, NEW d, NEW s, NEW n, NEW e, NEW D, Relinks(c, d, s, n, e, D)
    PROVE  Relinked(c, d, s, n, e, D)
<1> DEFINE r == [c[s] EXCEPT !.nlink = n]
           i == c[s].inum
<1>1. c \in CacheType /\ c[s] \in EntryType /\ Content(c[s]) = d[i] /\ d[i].type # "none"
  BY DEF Relinks, Good, CacheType, EntryType
<1>2. e = [c EXCEPT ![s] = r] /\ D = Iupdate(d, e, s)
  BY <1>1 DEF Relinks, CacheType
<1>3. /\ r \in EntryType /\ r.inum = i /\ r.ref = c[s].ref /\ r.lock = c[s].lock
      /\ r.valid = TRUE /\ r.type = c[s].type /\ r.addr = c[s].addr /\ r.nlink = n
      /\ c[s].nlink \in Nat
  BY <1>1 DEF EntryType, Relinks
<1>4. /\ d[i].type = c[s].type /\ d[i].addr = c[s].addr /\ d[i].nlink = c[s].nlink
  <2> HIDE DEF i
  <2>1. /\ Content(c[s]).type = c[s].type /\ Content(c[s]).addr = c[s].addr
        /\ Content(c[s]).nlink = c[s].nlink
    BY DEF Content
  <2> QED BY <1>1, <2>1
<1>5. Content(r).type = r.type /\ Content(r).addr = r.addr /\ Content(r).nlink = r.nlink
  BY DEF Content
<1> HIDE DEF r
<1>6. r.type # "none"
  BY <1>1, <1>3, <1>4
<1>7. e[s] = r /\ D = [d EXCEPT ![i] = Content(r)]
  <2>1. e[s] = r
    BY <1>1, <1>2 DEF Relinks, CacheType
  <2> QED BY <1>2, <1>3, <2>1 DEF Iupdate
<1>8. /\ Good(e, D) /\ e[s] = r /\ \A t \in Slots : t # s => e[t] = c[t]
      /\ \A p : Tame(c, e, p)
      /\ i \in Inums /\ D[i] = Content(r)
      /\ \A j \in Inums : j # i => D[j] = d[j]
  <2>1. Updates(c, d, s, r, e, D)
    BY <1>2, <1>3, <1>6, <1>7 DEF Updates, Relinks
  <2> QED BY <2>1, IupdateIs
<1> HIDE DEF i
<1>9. /\ e[s].inum = i /\ e[s].ref = c[s].ref /\ e[s].lock = c[s].lock /\ e[s].valid = TRUE
      /\ e[s].addr = c[s].addr /\ e[s].type = c[s].type
  BY <1>3, <1>8
<1>10. /\ D[i].nlink = n /\ D[i].type = d[i].type /\ D[i].addr = d[i].addr
       /\ d[i].nlink = c[s].nlink /\ d[i].nlink \in Nat
  BY <1>3, <1>4, <1>5, <1>8
<1> QED BY <1>8, <1>9, <1>10 DEF i, Relinked

(* unlink(), and link() that has failed, take a link back.                 *)
LEMMA Uncount ==
    ASSUME InodeInv, NEW p \in Procs, NEW s, s = loc[p].ip, Only(p, s), Credit(p),
           NEW c, Good(c, dinode), Tame(icache, c, p), \A t \in Slots : c[t].ref = icache[t].ref,
           c[s].ref > 0, c[s].valid, c[s].lock = p, c[s].inum = Inum(p, "ip"), Public(c[s].inum),
           dinode' = Iupdate(dinode, OneLess(c, s), s), Dropped(p, OneLess(c, s), s),
           UNCHANGED <<bitmap, entry>>
    PROVE  InodeInv'
<1> DEFINE i == c[s].inum
           n == c[s].nlink - 1
           d == [c EXCEPT ![s].nlink = n]
           e == Iunlock(d, s)
           u == [NoLocals EXCEPT !.puts = <<s>>]
<1>i. TypeOK /\ RefCounts /\ ProcsOK /\ LinksHeld
  BY DEF InodeInv
<1>0. c \in CacheType /\ s \in Slots /\ i \in Inums
  BY DEF Good, Only
<1>1. OneLess(c, s) = d
  BY <1>0 DEF OneLess, CacheType
<1>2. c[s].nlink >= 1 /\ n \in Nat /\ c[s].nlink \in Nat
  <2>1. Content(c[s]) = dinode[i] /\ c[s].nlink \in Nat
    BY <1>0 DEF Good, CacheType
  <2>2. dinode[i].nlink = c[s].nlink
    BY <2>1 DEF Content
  <2>3. p \in Credits(i) /\ IsFiniteSet(Credits(i)) /\ Cardinality(Credits(i)) \in Nat
    BY LinksFinite DEF Credits
  <2>4. Cardinality(Credits(i)) # 0
    BY <2>3, FS_EmptySet
  <2>5. Cardinality(NamesOf(i)) + Cardinality(Subdirs(i)) + Cardinality(Credits(i)) <= dinode[i].nlink
    BY <1>i, <1>0 DEF LinksHeld
  <2>6. Cardinality(NamesOf(i)) \in Nat /\ Cardinality(Subdirs(i)) \in Nat
    BY LinksFinite
  <2> HIDE DEF i
  <2> QED BY <2>1, <2>2, <2>3, <2>4, <2>5, <2>6
<1> HIDE DEF n
<1>3. /\ Good(d, dinode') /\ Tame(c, d, p) /\ \A t \in Slots : t # s => d[t] = c[t]
      /\ d[s].inum = i /\ d[s].ref = c[s].ref /\ d[s].lock = p /\ d[s].valid = TRUE
      /\ dinode'[i].nlink = n /\ dinode'[i].type = dinode[i].type
      /\ dinode'[i].addr = dinode[i].addr
      /\ dinode[i].nlink = c[s].nlink /\ dinode[i].nlink \in Nat
      /\ \A j \in Inums : j # i => dinode'[j] = dinode[j]
  <2>1. Relinks(c, dinode, s, n, d, dinode')
    BY <1>0, <1>1, <1>2 DEF Relinks
  <2> HIDE DEF d, i
  <2>2. c[s].lock = p
    OBVIOUS
  <2>3. Relinked(c, dinode, s, n, d, dinode')
    BY <2>1, NlinkIs
  <2> QED BY <2>2, <2>3 DEF Relinked, i
<1>4. icache' = e /\ Step(p, "user", u) /\ ofile' = ofile
  BY <1>1 DEF Dropped
<1> HIDE DEF d
<1>5. /\ Good(e, dinode') /\ Tame(icache, e, p)
      /\ \A t \in Slots : e[t].ref = icache[t].ref
  <2>1. Tame(icache, d, p)
    BY <1>3, TameTrans
  <2>2. \A t \in Slots : d[t].ref = icache[t].ref
    BY <1>0, <1>3
  <2> QED BY <1>0, <1>3, <2>1, <2>2, Release
<1> HIDE DEF e
<1>6. /\ u \in LocType /\ u.op = "" /\ u.at = 0 /\ u.ip = 0 /\ u.dp = 0
      /\ u.inum = 0 /\ u.puts = <<s>> /\ u.unref = 0
  BY <1>0, NoLocalsAre, SlotSeq DEF LocType
<1> HIDE DEF u
<1>7. LastOf(u.puts) = s /\ BeforeOf(u.puts) = 0 /\ Len(u.puts) = 1
  BY <1>6, PutsAre
<1>8. CallAt("user", u, ofile[p]) /\ LocksAt("user", u, e, p) /\ ~CreditAt("user", u)
  <2>1. "user" \in Places /\ ~CreditAt("user", u) /\ LocksAt("user", u, e, p)
    BY DEF Places, CreditAt, LocksAt, DpLocked, IpLocked
  <2>2. Len(u.puts) <= 2
    BY <1>7
  <2> QED BY <1>6, <2>1, <2>2 DEF CallAt, HasIp, HasDp, Named, Making
<1>9. CountsAt(u, e, p)
  <2>1. ASSUME NEW t \in Slots
        PROVE  e[t].ref = icache[t].ref + OwnRefs(ofile[p], u, t) - OwnRefs(ofile[p], loc[p], t)
    <3>1. t # 0 /\ icache[t].ref \in Nat /\ e[t].ref = icache[t].ref
      BY <1>i, <1>5, SlotSeq DEF TypeOK, CacheType
    <3>2. OwnRefs(ofile[p], u, t) = One(ofile[p] = t) + One(s = t)
      <4>1. u.at = 0 /\ u.ip = 0 /\ u.dp = 0 /\ u.unref = 0
        BY <1>6
      <4> QED BY <1>7, <3>1, <4>1 DEF OwnRefs, One
    <3>3. OwnRefs(ofile[p], loc[p], t) = One(ofile[p] = t) + One(s = t)
      BY DEF Only
    <3> QED BY <3>1, <3>2, <3>3 DEF One
  <2> QED BY <2>1 DEF CountsAt
<1>10. /\ Moves(p) /\ pc'[p] = "user" /\ loc'[p] = u
       /\ RefCounts' /\ CallOK(p)' /\ LockOK(p)' /\ ~Credit(p)'
  BY <1>4, <1>5, <1>8, <1>9, MiddleIs
<1>11. MayPoint(p)
  BY <1>4, <1>6, <1>7, <1>10 DEF MayPoint, May, HeldBy, Only
<1>12. Calm(icache, icache', p) /\ Good(icache', dinode')
  BY <1>4, <1>5, TameCalm
<1>13. /\ Within(Credits(i)', Credits(i), -1)
       /\ \A j \in Inums : Credits(j)' \subseteq Credits(j)
  <2>1. Spares(p)
    BY <1>i, <1>12, CalmSpares
  <2>2. \A j : Credits(j)' \subseteq Credits(j) \ {p}
    BY <1>10, <2>1, CreditsThen
  <2>3. p \in Credits(i)
    BY DEF Credits
  <2> QED BY <2>2, <2>3 DEF Within
<1>14. dinode[i].nlink + (-1) <= dinode'[i].nlink /\ dinode'[i].nlink \in Nat
  BY <1>2, <1>3 DEF n
<1>15. pc[p] \notin {"ialloc", "new"}
  BY DEF Only
<1> HIDE DEF i
<1>16. i \in Inums /\ Public(i)
  BY <1>0 DEF i
<1>17. loc'[p].dp = 0
  BY <1>6, <1>10
<1>18. bitmap' = bitmap /\ entry' = entry
  OBVIOUS
<1>19. /\ dinode'[i].type = dinode[i].type /\ dinode'[i].addr = dinode[i].addr
       /\ \A j \in Inums : j # i => dinode'[j] = dinode[j] /\ Credits(j)' \subseteq Credits(j)
  BY <1>3, <1>13
<1>20. Within(Credits(i)', Credits(i), -1)
  BY <1>13
<1>21. /\ pc'[p] \notin {"ialloc", "new", "unlink_ip"} /\ ~Credit(p)'
       /\ Moves(p) /\ RefCounts' /\ CallOK(p)' /\ LockOK(p)'
  BY <1>10
<1> QED BY <1>11, <1>12, <1>14, <1>15, <1>16, <1>17, <1>18, <1>19, <1>20, <1>21, Relink

LEMMA UnlinkedStep ==
    ASSUME InodeInv, NEW p \in Procs, Unlinked(p)
    PROVE  InodeInv'
<1> DEFINE s == loc[p].ip
<1>i. TypeOK /\ RefCounts /\ ProcsOK /\ FreshOK /\ InodesOK /\ CacheCoherent
  BY DEF InodeInv
<1>0. /\ At(p, "unlinked") /\ UNCHANGED <<bitmap, entry>>
      /\ dinode' = Iupdate(dinode, OneLess(icache, s), s) /\ Dropped(p, OneLess(icache, s), s)
  BY DEF Unlinked
<1>1. /\ pc[p] = "unlinked" /\ s # 0 /\ loc[p].dp = 0
      /\ \A t \in Slots :
            OwnRefs(ofile[p], loc[p], t) = One(ofile[p] = t) + One(s = t) + One(loc[p].dp = t)
  BY <1>0, AtIs DEF HasIp, HasDp
<1>2. s = Pointer(p, "ip") /\ "ip" \in Fields
  BY PointerIs DEF Fields
<1>3. /\ s \in Slots /\ s \in HeldBy(p) /\ icache[s].ref > 0 /\ icache[s].inum = Inum(p, "ip")
      /\ Public(icache[s].inum)
  BY <1>i, <1>1, <1>2, PointedPublic DEF HeldBy
<1>4. icache[s].lock = p /\ icache[s].valid /\ Credit(p)
  BY <1>i, <1>1 DEF ProcsOK, LockOK, IpLocked, Credit
<1>5. Only(p, s)
  <2>1. \A t \in Slots : t # 0
    BY SlotSeq
  <2> HIDE DEF s
  <2> QED BY <1>1, <1>3, <2>1 DEF Only, One
<1>6. Good(icache, dinode) /\ Tame(icache, icache, p)
  BY <1>i, InvGood DEF Tame
<1> QED BY <1>0, <1>3, <1>4, <1>5, <1>6, Uncount

LEMMA LinkBadStep ==
    ASSUME InodeInv, NEW p \in Procs, LinkBad(p)
    PROVE  InodeInv'
<1> DEFINE s == loc[p].ip
           c == Ilock(icache, s, p)
<1>i. TypeOK /\ RefCounts /\ ProcsOK /\ FreshOK /\ InodesOK /\ CacheCoherent
  BY DEF InodeInv
<1>0. /\ At(p, "link_bad") /\ Unlocked(s) /\ UNCHANGED <<bitmap, entry>>
      /\ dinode' = Iupdate(dinode, OneLess(c, s), s) /\ Dropped(p, OneLess(c, s), s)
  BY DEF LinkBad
<1>1. /\ pc[p] = "link_bad" /\ s # 0 /\ loc[p].dp = 0
      /\ \A t \in Slots :
            OwnRefs(ofile[p], loc[p], t) = One(ofile[p] = t) + One(s = t) + One(loc[p].dp = t)
  BY <1>0, AtIs DEF HasIp, HasDp
<1>2. s = Pointer(p, "ip") /\ "ip" \in Fields /\ "ip" \in Lockable
  BY PointerIs DEF Fields, Lockable
<1>3. s \in Slots /\ s \in HeldBy(p) /\ Public(Inum(p, "ip"))
  BY <1>i, <1>1, <1>2, PointedPublic DEF HeldBy
<1>4. Credit(p)
  BY <1>1 DEF Credit
<1>5. Only(p, s)
  <2>1. \A t \in Slots : t # 0
    BY SlotSeq
  <2> HIDE DEF s
  <2> QED BY <1>1, <1>3, <2>1 DEF Only, One
<1> HIDE DEF s
<1>6. /\ Good(c, dinode) /\ Tame(icache, c, p) /\ \A t \in Slots : c[t].ref = icache[t].ref
      /\ c[s].inum = Inum(p, "ip") /\ c[s].ref > 0 /\ c[s].lock = p /\ c[s].valid
  BY <1>0, <1>1, <1>2, Enter
<1> HIDE DEF c
<1> QED BY <1>0, <1>3, <1>4, <1>5, <1>6, Uncount DEF s

LEMMA LinkCountStep ==
    ASSUME InodeInv, NEW p \in Procs, LinkCount(p)
    PROVE  InodeInv'
<1> DEFINE r == loc[p]
           s == r.ip
           c == Ilock(icache, s, p)
           n == c[s].nlink + 1
           d == [c EXCEPT ![s].nlink = n]
           e == Iunlock(d, s)
<1>i. TypeOK /\ RefCounts /\ ProcsOK /\ FreshOK /\ InodesOK /\ CacheCoherent
  BY DEF InodeInv
<1>k. PICK i : i = Inum(p, "ip")
  OBVIOUS
<1>0. At(p, "link") /\ Unlocked(s) /\ bitmap' = bitmap /\ entry' = entry
  BY DEF LinkCount
<1>1. /\ pc[p] = "link" /\ s # 0 /\ r.dp = 0 /\ r \in LocType /\ r.puts = <<>> /\ r.unref = 0
      /\ r.at = 0 /\ r.inum = 0
  BY <1>0, AtIs DEF HasIp, HasDp
<1>2. s = Pointer(p, "ip") /\ "ip" \in Fields /\ "ip" \in Lockable
  BY PointerIs DEF Fields, Lockable
<1>3. s \in Slots /\ s \in HeldBy(p) /\ Public(i)
  BY <1>i, <1>k, <1>1, <1>2, PointedPublic DEF HeldBy
<1>4. CASE Dropped(p, c, s) /\ UNCHANGED dinode
  <2>1. UNCHANGED disk
    BY <1>0, <1>4 DEF disk
  <2> QED BY <1>0, <1>4, <2>1, EndIp
<1>5. ASSUME c[s].type # "dir", icache' = Iunlock(OneMore(c, s), s),
             dinode' = Iupdate(dinode, OneMore(c, s), s), Step(p, "link_root", r), ofile' = ofile
      PROVE  InodeInv'
  <2>1. r.new # <<>> /\ (r.op \in {"open", "create"} => ofile[p] = 0)
    BY <1>i, <1>1 DEF ProcsOK, CallOK
  <2> HIDE DEF s
  <2>2. /\ Good(c, dinode) /\ Tame(icache, c, p) /\ \A t \in Slots : c[t].ref = icache[t].ref
        /\ c[s].inum = i /\ c[s].ref > 0 /\ c[s].lock = p /\ c[s].valid
        /\ i \in Inums /\ c[s].type = dinode[i].type
    BY <1>k, <1>0, <1>1, <1>2, Enter
  <2> HIDE DEF c
  <2>3. c \in CacheType /\ c[s].nlink \in Nat
    BY <1>3, <2>2 DEF Good, CacheType
  <2>4. n \in Nat /\ OneMore(c, s) = d
    BY <1>3, <2>3 DEF OneMore, CacheType
  <2>5. dinode' = Iupdate(dinode, d, s) /\ icache' = e
    BY <1>5, <2>4
  <2> HIDE DEF n
  <2>6. Relinks(c, dinode, s, n, d, dinode')
    BY <1>3, <2>2, <2>4, <2>5 DEF Relinks
  <2> HIDE DEF d
  <2>7. Relinked(c, dinode, s, n, d, dinode')
    BY <2>6, NlinkIs
  <2>8. /\ Good(d, dinode') /\ Tame(c, d, p) /\ \A t \in Slots : t # s => d[t] = c[t]
        /\ d[s].inum = i /\ d[s].ref = c[s].ref /\ d[s].lock = p
        /\ dinode'[i].nlink = n /\ dinode'[i].type = dinode[i].type
        /\ dinode'[i].addr = dinode[i].addr
        /\ dinode[i].nlink = c[s].nlink /\ dinode[i].nlink \in Nat
        /\ \A j \in Inums : j # i => dinode'[j] = dinode[j]
    BY <2>2, <2>7 DEF Relinked
  <2>9. /\ Good(e, dinode') /\ Tame(icache, e, p) /\ e[s].inum = i
        /\ \A t \in Slots : e[t].ref = icache[t].ref
    <3>1. Tame(icache, d, p)
      BY <2>2, <2>8, TameTrans
    <3>2. \A t \in Slots : d[t].ref = icache[t].ref
      BY <2>2, <2>8
    <3> QED BY <1>3, <2>8, <3>1, <3>2, Release
  <2> HIDE DEF e
  <2>10. CallAt("link_root", r, ofile[p]) /\ LocksAt("link_root", r, e, p) /\ CreditAt("link_root", r)
    <3>1. "link_root" \in Places /\ CreditAt("link_root", r) /\ LocksAt("link_root", r, e, p)
      BY DEF Places, CreditAt, LocksAt, DpLocked, IpLocked
    <3>2. Len(r.puts) = 0 /\ r.ip # 0
      BY <1>1, PutsAre DEF s
    <3> HIDE DEF r
    <3> QED BY <1>1, <2>1, <3>1, <3>2 DEF CallAt, HasIp, HasDp, Named, Making
  <2>11. CountsAt(r, e, p)
    <3>1. ASSUME NEW t \in Slots
          PROVE  e[t].ref = icache[t].ref + OwnRefs(ofile[p], r, t) - OwnRefs(ofile[p], r, t)
      <4>1. icache[t].ref \in Nat /\ e[t].ref = icache[t].ref
        BY <1>i, <2>9 DEF TypeOK, CacheType
      <4>2. OwnRefs(ofile[p], r, t) \in Int
        BY DEF OwnRefs, One
      <4> QED BY <4>1, <4>2
    <3> QED BY <3>1 DEF CountsAt
  <2>12. /\ Moves(p) /\ pc'[p] = "link_root" /\ loc'[p] = r
         /\ RefCounts' /\ CallOK(p)' /\ LockOK(p)' /\ Credit(p)'
    BY <1>5, <2>5, <2>9, <2>10, <2>11, MiddleIs
  <2>13. MayPoint(p)
    BY <1>5, <2>12 DEF MayPoint, May, HeldBy
  <2>14. Calm(icache, icache', p) /\ Good(icache', dinode')
    BY <2>5, <2>9, TameCalm
  <2>15. /\ Within(Credits(i)', Credits(i), 1)
         /\ \A j \in Inums : j # i => Credits(j)' \subseteq Credits(j)
    <3>1. Spares(p)
      BY <1>i, <2>14, CalmSpares
    <3>2. Pointer(p, "ip")' = s
      BY <2>12, PointerIs DEF Pointer, s
    <3>3. Inum(p, "ip")' = i
      BY <1>1, <2>5, <2>9, <3>2 DEF Inum, s
    <3>4. \A j : /\ Credits(j)' \subseteq Credits(j) \cup {p}
                 /\ j # i => Credits(j)' \subseteq Credits(j) \ {p}
      BY <2>12, <3>1, <3>3, CreditsThen
    <3> QED BY <3>4 DEF Within
  <2>16. dinode[i].nlink + 1 <= dinode'[i].nlink /\ dinode'[i].nlink \in Nat
    BY <2>4, <2>8 DEF n
  <2>17. pc[p] \notin {"ialloc", "new"} /\ pc'[p] \notin {"ialloc", "new", "unlink_ip"}
    <3> HIDE DEF r
    <3> QED BY <1>1, <2>12
  <2>18. loc'[p].dp = loc[p].dp /\ loc'[p].ip = loc[p].ip /\ loc[p].ip # 0
    <3>1. loc[p].ip # 0
      BY <1>1 DEF s
    <3> QED BY <2>12, <3>1
  <2>19. ~IsDir(Inum(p, "ip"))
    BY <1>5, <1>k, <2>2 DEF IsDir
  <2>20. i \in Inums /\ Public(i)
    BY <1>3, <2>2
  <2> HIDE DEF r
  <2> QED BY <1>0, <2>8, <2>12, <2>13, <2>14, <2>15, <2>16, <2>17, <2>18, <2>19, <2>20, Relink
<1> QED BY <1>4, <1>5 DEF LinkCount

-----------------------------------------------------------------------------
(* The new inode of create().                                              *)
LEMMA IallocIgetStep ==
    ASSUME InodeInv, NEW p \in Procs, IallocIget(p)
    PROVE  InodeInv'
<1> DEFINE r == loc[p]
           i == r.inum
           t == Slot(icache, i)
           e == Iget(icache, i)
           u == [r EXCEPT !.ip = t, !.inum = 0]
<1>i. /\ TypeOK /\ RefCounts /\ ProcsOK /\ FreshOK /\ InodesOK /\ CacheCoherent
      /\ LinksHeld /\ BlocksOwned
  BY DEF InodeInv
<1>0. /\ At(p, "ialloc") /\ CanIget(icache, i) /\ icache' = e /\ Step(p, "new", u)
      /\ ofile' = ofile /\ dinode' = dinode /\ entry' = entry /\ bitmap' = bitmap
  BY DEF IallocIget, disk
<1>1. /\ pc[p] = "ialloc" /\ r \in LocType /\ r.puts = <<>> /\ r.unref = 0 /\ r.at = 0
      /\ r.ip = 0 /\ r.dp # 0 /\ i # 0
      /\ \A v \in Slots : OwnRefs(ofile[p], r, v) = One(ofile[p] = v) + One(r.ip = v) + One(r.dp = v)
  BY <1>0, AtIs DEF HasIp, HasDp
<1>2. i \in Inums
  <2>1. i \in 0 .. NINODES
    BY <1>1 DEF LocType
  <2> HIDE DEF i
  <2> QED BY <1>1, <2>1, InodeAssumption DEF Inums
<1>3. Creating(p, i)
  BY <1>1 DEF Creating
<1>4. /\ dinode[i] = [FreeInode EXCEPT !.type = Type(r)]
      /\ \A q \in Procs : Creating(q, i) => q = p
      /\ \A q \in Procs, f \in Fields : Inum(q, f) = i => q = p /\ f = "ip"
  BY <1>i, <1>2, <1>3 DEF FreshOK
<1>5. /\ r.path # <<>> /\ r.op \in {"create", "mkdir", "mknod"}
      /\ (r.op \in {"open", "create"} => ofile[p] = 0)
      /\ icache[r.dp].lock = p /\ icache[r.dp].valid
  <2>1. CallOK(p) /\ LockOK(p)
    BY <1>i DEF ProcsOK
  <2> QED BY <1>1, <2>1 DEF CallOK, LockOK, Named, Making, DpLocked
<1>6. /\ r.dp \in Slots /\ icache[r.dp].ref > 0
  BY <1>1, DpDir
<1>7. /\ Good(e, dinode) /\ Tame(icache, e, p) /\ t \in Slots /\ e[t].inum = i
      /\ e[t].ref = icache[t].ref + 1 /\ e[t].lock = icache[t].lock
      /\ \A v \in Slots : v # t => e[v] = icache[v]
      /\ (icache[t].ref > 0 => e[t].valid = icache[t].valid)
  BY <1>i, <1>0, <1>2, InvGood, IgetIs
<1> HIDE DEF t, e
<1>8. e[r.dp].lock = p /\ e[r.dp].valid
  BY <1>5, <1>6, <1>7
<1>9. \A v \in Slots : v # 0 /\ icache[v].ref \in Nat /\ v \in 0 .. NINODE
  BY <1>i, SlotSeq DEF TypeOK, CacheType
<1>10. /\ u \in LocType /\ u.op = r.op /\ u.path = r.path /\ u.at = 0 /\ u.ip = t /\ u.dp = r.dp
       /\ u.inum = 0 /\ u.puts = <<>> /\ u.unref = 0
  <2>1. 0 \in 0 .. NINODES
    BY InodeAssumption
  <2> QED BY <1>1, <1>7, <1>9, <2>1 DEF LocType
<1>10a. Type(u) = Type(r)
  BY <1>10 DEF Type
<1> HIDE DEF u
<1>11. LastOf(u.puts) = 0 /\ BeforeOf(u.puts) = 0 /\ Len(u.puts) = 0
  BY <1>10, PutsAre
<1>12. CallAt("new", u, ofile[p]) /\ LocksAt("new", u, e, p) /\ ~CreditAt("new", u)
  <2>1. "new" \in Places /\ ~CreditAt("new", u) /\ t # 0
    BY <1>7, <1>9 DEF Places, CreditAt
  <2>2. u.dp # 0 /\ u.path # <<>> /\ u.op \in {"create", "mkdir", "mknod"}
        /\ (u.op \in {"open", "create"} => ofile[p] = 0)
        /\ e[u.dp].lock = p /\ e[u.dp].valid
    BY <1>1, <1>5, <1>8, <1>10
  <2> HIDE DEF r
  <2>3. LocksAt("new", u, e, p)
    BY <2>2 DEF LocksAt, IpLocked
  <2> QED BY <1>10, <1>11, <2>1, <2>2, <2>3 DEF CallAt, HasIp, HasDp, Named, Making
<1>13. CountsAt(u, e, p)
  <2>1. ASSUME NEW v \in Slots
        PROVE  e[v].ref = icache[v].ref + OwnRefs(ofile[p], u, v) - OwnRefs(ofile[p], r, v)
    <3>1. v # 0 /\ icache[v].ref \in Nat /\ e[v].ref = icache[v].ref + One(t = v)
      BY <1>7, <1>9 DEF One
    <3>2. OwnRefs(ofile[p], u, v) = One(ofile[p] = v) + One(t = v) + One(r.dp = v)
      <4>1. u.at = 0 /\ u.ip = t /\ u.dp = r.dp /\ u.unref = 0
        BY <1>10
      <4> HIDE DEF r
      <4> QED BY <1>11, <3>1, <4>1 DEF OwnRefs, One
    <3>3. OwnRefs(ofile[p], r, v) = One(ofile[p] = v) + One(r.dp = v)
      BY <1>1, <3>1 DEF One
    <3> HIDE DEF r
    <3> QED BY <3>1, <3>2, <3>3 DEF One
  <2> QED BY <2>1 DEF CountsAt
<1>14. /\ Moves(p) /\ pc'[p] = "new" /\ loc'[p] = u
       /\ RefCounts' /\ CallOK(p)' /\ LockOK(p)' /\ ~Credit(p)'
  BY <1>0, <1>7, <1>12, <1>13, MiddleIs
<1>15. Calm(icache, icache', p) /\ Good(icache', dinode') /\ Spares(p)
  BY <1>i, <1>0, <1>7, TameCalm, CalmSpares
<1>16. /\ Pointer(p, "ip")' = t /\ Inum(p, "ip")' = i
       /\ \A f \in Fields \ {"ip"} : \/ Pointer(p, f)' = 0 /\ Inum(p, f)' = 0
                                     \/ Pointer(p, f)' = Pointer(p, f) /\ Inum(p, f)' = Inum(p, f)
  <2>1. /\ Pointer(p, "ip")' = t /\ Pointer(p, "dp")' = r.dp /\ Pointer(p, "ofile")' = ofile[p]
        /\ Pointer(p, "at")' = 0 /\ Pointer(p, "unref")' = 0
        /\ Pointer(p, "last")' = 0 /\ Pointer(p, "before")' = 0
    <3>1. /\ Pointer(p, "ip")' = loc'[p].ip /\ Pointer(p, "dp")' = loc'[p].dp
          /\ Pointer(p, "ofile")' = ofile'[p] /\ Pointer(p, "at")' = loc'[p].at
          /\ Pointer(p, "unref")' = loc'[p].unref /\ Pointer(p, "last")' = LastOf(loc'[p].puts)
          /\ Pointer(p, "before")' = BeforeOf(loc'[p].puts)
      BY DEF Pointer, LastOf, BeforeOf
    <3> QED BY <1>0, <1>10, <1>11, <1>14, <3>1
  <2>2. Pointer(p, "dp") = r.dp /\ Pointer(p, "ofile") = ofile[p]
    BY PointerIs
  <2>3. \A f \in {"dp", "ofile"} : Pointer(p, f) # 0 =>
           icache'[Pointer(p, f)].inum = icache[Pointer(p, f)].inum
    BY <1>i, <1>15, Pinned DEF Calm, Used, Fields
  <2>4. \A f \in {"dp", "ofile"} : Pointer(p, f)' = Pointer(p, f) /\ Inum(p, f)' = Inum(p, f)
    BY <2>1, <2>2, <2>3 DEF Inum
  <2>5. Inum(p, "ip")' = i
    BY <1>0, <1>7, <1>9, <2>1 DEF Inum
  <2>6. \A f \in {"at", "unref", "last", "before"} : Pointer(p, f)' = 0 /\ Inum(p, f)' = 0
    BY <2>1 DEF Inum
  <2> QED BY <2>1, <2>4, <2>5, <2>6 DEF Fields
<1>17. /\ \A j \in Inums : Creating(p, j)' <=> j = i
       /\ \A j \in Inums : Creating(p, j) => j = i
  BY <1>1, <1>14, <1>16 DEF Creating
<1>18. i \in Alloc /\ PointerOK(p)
  <2>1. dinode[i].type # "none"
    BY <1>4, <1>5 DEF FreeInode, Type
  <2> QED BY <1>i, <1>2, <2>1 DEF Alloc, ProcsOK
<1> HIDE DEF i
<1>19. PointerOK(p)'
  <2>1. \A f \in Fields : f # "unref" /\ Pointer(p, f)' # 0 => Inum(p, f)' \in Alloc
    BY <1>16, <1>18 DEF PointerOK
  <2>2. Alloc' = Alloc /\ \A j : IsDir(j)' <=> IsDir(j)
    BY <1>0 DEF Alloc, IsDir
  <2>3. Inum(p, "dp")' = Inum(p, "dp") /\ IsDir(Inum(p, "dp"))
    <3>1. Pointer(p, "dp")' = loc'[p].dp /\ "dp" \in Fields \ {"ip"}
      BY DEF Pointer, Fields
    <3>2. Pointer(p, "dp")' # 0
      BY <1>1, <1>10, <1>14, <3>1
    <3> QED BY <1>1, <1>16, <1>18, <3>1, <3>2 DEF PointerOK
  <2>4. IsDir(Inum(p, "dp")')
    BY <2>3
  <2>5. IsDir(Inum(p, "dp"))'
    BY <1>0, <2>4 DEF IsDir
  <2> QED BY <1>14, <2>1, <2>2, <2>5 DEF PointerOK
<1>20. ProcsOK' /\ FreshOK'
  <2>1. \A q \in Procs, j \in Inums, f \in Fields : q # p /\ Creating(q, j) => Inum(p, f)' # j
    <3> SUFFICES ASSUME NEW q \in Procs, NEW j \in Inums, NEW f \in Fields, q # p, Creating(q, j)
                 PROVE  Inum(p, f)' # j
      OBVIOUS
    <3>1. j # i /\ j # 0
      BY <1>4 DEF Inums
    <3>2. Inum(p, f) # j
      BY <1>i DEF FreshOK
    <3> QED BY <1>16, <3>1, <3>2
  <2>2. ASSUME NEW j \in Inums, Creating(p, j)'
        PROVE  /\ dinode'[j] = [FreeInode EXCEPT !.type = Type(loc'[p])]
               /\ \A q \in Procs : q # p => ~Creating(q, j) /\ \A f \in Fields : Inum(q, f) # j
               /\ \A f \in Fields : Inum(p, f)' = j => f = "ip"
    <3>1. j = i /\ j # 0
      BY <1>17, <2>2 DEF Inums
    <3>2. dinode'[j] = [FreeInode EXCEPT !.type = Type(loc'[p])]
      BY <1>0, <1>4, <1>10a, <1>14, <3>1
    <3>3. \A f \in Fields : Inum(p, f)' = j => f = "ip"
      BY <1>4, <1>16, <3>1
    <3> QED BY <1>4, <3>1, <3>2, <3>3
  <2> QED BY <1>0, <1>i, <1>14, <1>15, <1>19, <2>1, <2>2, Frame
<1>21. LinksHeld'
  <2> SUFFICES ASSUME NEW j \in Inums
               PROVE  Cardinality(NamesOf(j)') + Cardinality(Subdirs(j)') + Cardinality(Credits(j)')
                         <= dinode'[j].nlink
    BY DEF LinksHeld
  <2>1. NamesOf(j)' = NamesOf(j) /\ Subdirs(j)' = Subdirs(j)
    BY <1>0 DEF NamesOf, Subdirs, Dirs, Alloc, IsDir
  <2>2. Credits(j)' \subseteq Credits(j) \ {p}
    BY <1>14, <1>15, CreditsThen
  <2>3. /\ Within(NamesOf(j)', NamesOf(j), 0) /\ Within(Subdirs(j)', Subdirs(j), 0)
        /\ Within(Credits(j)', Credits(j), 0)
    BY <2>1, <2>2 DEF Within
  <2>4. dinode'[j].nlink = dinode[j].nlink /\ dinode[j].nlink \in Nat
    BY <1>0, <1>i DEF TypeOK, DiskType
  <2>5. dinode[j].nlink + 0 + 0 + 0 <= dinode'[j].nlink
    BY <2>4
  <2> QED BY <1>i, <2>3, <2>4, <2>5, LinksStep
<1>22. BlocksOwned'
  BY <1>0, <1>i, BlocksStay
<1>23. UnlinkOK'
  <2>1. pc'[p] # "unlink_ip"
    BY <1>14
  <2>2. \A s \in Slots : icache[s].ref > 0 => icache'[s].inum = icache[s].inum
    BY <1>15 DEF Calm
  <2> QED BY <1>0, <1>14, <2>1, <2>2, UnlinkThen
<1>24. /\ ROOTINO \in Dirs'
       /\ \A j \in Inums : dinode'[j].type = "none" => dinode'[j] = FreeInode
       /\ \A j \in Inums : dinode'[j].type = "dir" =>
             dinode'[j].addr # 0 \/ \E q \in Procs : Creating(q, j)'
  BY <1>0, <1>14, <1>15, <1>17, DirsStay
<1>25. bitmap' \subseteq Blocks /\ entry' \in [Blocks -> [Names -> 0 .. NINODES]]
  BY <1>0, <1>i DEF TypeOK
<1> QED BY <1>14, <1>15, <1>20, <1>21, <1>22, <1>23, <1>24, <1>25, Whole

-----------------------------------------------------------------------------
(* An inode is freed, with its block.                                      *)
LEMMA BlocksFreed ==
    ASSUME BlocksOwned, NEW i \in Inums, i \in Alloc, dinode'[i].type = "none",
           \A j \in Inums : j # i => dinode'[j] = dinode[j],
           bitmap' = bitmap \ {dinode[i].addr}
    PROVE  BlocksOwned'
<1>1. Alloc' = Alloc \ {i} /\ Alloc \subseteq Inums
  BY DEF Alloc
<1>2. \A j \in Alloc' : j # i /\ j \in Alloc /\ dinode'[j].addr = dinode[j].addr
  BY <1>1
<1>3. \A j \in Alloc' : dinode[j].addr # 0 => dinode[j].addr # dinode[i].addr
  BY <1>2 DEF BlocksOwned
<1>4. ASSUME NEW x \in bitmap' PROVE x \in {dinode'[j].addr : j \in Alloc'} \ {0}
  <2>1. x \in bitmap /\ x # dinode[i].addr
    BY <1>4
  <2>2. PICK j \in Alloc : x = dinode[j].addr /\ x # 0
    BY <2>1 DEF BlocksOwned
  <2>3. j \in Alloc'
    BY <1>1, <2>1, <2>2
  <2> QED BY <1>2, <2>2, <2>3
<1>5. ASSUME NEW j \in Alloc', dinode'[j].addr # 0 PROVE dinode'[j].addr \in bitmap'
  <2>1. dinode[j].addr \in bitmap
    BY <1>2, <1>5 DEF BlocksOwned
  <2> QED BY <1>2, <1>3, <1>5, <2>1
<1>6. \A j, k \in Alloc' : dinode'[j].addr = dinode'[k].addr /\ dinode'[j].addr # 0 => j = k
  BY <1>2 DEF BlocksOwned
<1>7. bitmap' = {dinode'[j].addr : j \in Alloc'} \ {0}
  BY <1>4, <1>5
<1> QED BY <1>6, <1>7 DEF BlocksOwned

(* iput() of the last reference to an inode without links.                 *)
LEMMA IputFreeLast ==
    ASSUME InodeInv, NEW p \in Procs, IputFree(p), Last(icache[Head(loc[p].puts)])
    PROVE  InodeInv'
<1>i. /\ TypeOK /\ RefCounts /\ ProcsOK /\ FreshOK /\ InodesOK /\ CacheCoherent
      /\ LinksHeld /\ BlocksOwned
  BY DEF InodeInv
<1>s. PICK s : s = Head(loc[p].puts)
  OBVIOUS
<1>k. PICK i : i = icache[s].inum
  OBVIOUS
<1>1. /\ icache' = [icache EXCEPT ![s] = Freed(@)] /\ dinode' = [dinode EXCEPT ![i] = FreeInode]
      /\ bitmap' = bitmap \ {icache[s].addr} /\ entry' = entry
      /\ icache[s].valid /\ icache[s].nlink = 0 /\ icache[s].ref = 1
  BY <1>s, <1>k DEF IputFree, Last
<1>2. s \in Slots
  <2>1. loc[p].puts \in Seq(Slots) /\ loc[p].puts # <<>> /\ Len(loc[p].puts) <= 2
    BY <1>i DEF IputFree, TypeOK, LocType, RefCounts
  <2> QED BY <1>s, <2>1, PutsSplit
<1>3. Good(icache, dinode) /\ icache[s].ref > 0 /\ \A v \in Slots : v # 0
  BY <1>i, <1>1, InvGood, SlotSeq
<1>4. \A v \in Slots : icache'[v].ref = icache[v].ref
  BY <1>i, <1>1, <1>2 DEF TypeOK, CacheType, Freed
<1>5. /\ pc[p] \notin {"ialloc", "new"} /\ Moves(p) /\ ofile'[p] = ofile[p] /\ pc'[p] = pc[p]
      /\ \E f \in {"last", "before"} : Pointer(p, f) = s
      /\ loc'[p].at = loc[p].at /\ loc'[p].ip = loc[p].ip /\ loc'[p].dp = loc[p].dp
      /\ loc'[p].path = loc[p].path
      /\ LastOf(loc'[p].puts) \in {0, LastOf(loc[p].puts)} /\ BeforeOf(loc'[p].puts) = 0
      /\ s = LastOf(loc[p].puts) => LastOf(loc'[p].puts) = 0 \/ BeforeOf(loc[p].puts) = s
      /\ RefCounts' /\ CallOK(p)' /\ (Credit(p)' <=> Credit(p))
  BY <1>s, <1>4, IputFreeCall
<1>6. PICK g \in {"last", "before"} : Pointer(p, g) = s
  BY <1>5
<1>7. g \in Fields /\ g # "unref" /\ g # "ip"
  BY DEF Fields
<1>8. s # Cwd /\ \A q \in Procs, f \in Fields : Pointer(q, f) = s => q = p /\ f = g
  BY <1>i, <1>1, <1>2, <1>6, <1>7, LastPointer
<1>9. i \in Inums /\ Public(i)
  <2>1. Pointer(p, g) # 0
    BY <1>2, <1>3, <1>6
  <2>2. icache[s].inum = Inum(p, g) /\ Inum(p, g) \in Inums /\ Public(Inum(p, g))
    BY <1>i, <1>6, <1>7, <2>1, PointedPublic
  <2> QED BY <1>k, <2>2
<1>10. /\ Good(icache', dinode') /\ icache'[s].inum = i
       /\ \A v \in Slots : v # s => icache'[v] = icache[v]
       /\ dinode'[i] = FreeInode /\ \A j \in Inums : j # i => dinode'[j] = dinode[j]
  <2>1. dinode' = [dinode EXCEPT ![icache[s].inum] = FreeInode]
    BY <1>1, <1>k
  <2>2. /\ Good(icache', dinode') /\ icache'[s].inum = icache[s].inum
        /\ \A v \in Slots : v # s => icache'[v] = icache[v]
        /\ dinode'[icache[s].inum] = FreeInode
        /\ \A j \in Inums : j # icache[s].inum => dinode'[j] = dinode[j]
    <3>1. icache[s].valid /\ icache' = [icache EXCEPT ![s] = Freed(@)]
      BY <1>1
    <3>2. Frees(icache, dinode, s, icache', dinode')
      BY <1>2, <1>3, <1>8, <2>1, <3>1 DEF Frees
    <3> QED BY <3>2, FreedIs
  <2> QED BY <2>2, <1>k
<1>11. /\ dinode[i].nlink = 0 /\ dinode[i].addr = icache[s].addr /\ i \in Alloc /\ i # ROOTINO
  <2>1. Content(icache[s]) = dinode[i]
    BY <1>1, <1>2, <1>3, <1>k DEF Good
  <2>2. dinode[i].nlink = icache[s].nlink /\ dinode[i].addr = icache[s].addr
    BY <2>1 DEF Content
  <2>3. i # ROOTINO
    BY <1>2, <1>3, <1>8, <1>k, CwdIn DEF Good
  <2> QED BY <1>1, <1>9, <2>2, <2>3 DEF Public
(* No other pointer leads to i. *)
<1>12. \A q \in Procs, f \in Fields : Inum(q, f) = i => q = p /\ f = g
  <2> SUFFICES ASSUME NEW q \in Procs, NEW f \in Fields, Inum(q, f) = i
               PROVE  q = p /\ f = g
    OBVIOUS
  <2>1. i # 0
    BY <1>9 DEF Inums
  <2>2. Pointer(q, f) # 0 /\ icache[Pointer(q, f)].inum = i
    BY <2>1 DEF Inum
  <2>3. Pointer(q, f) \in Slots /\ Used(Pointer(q, f))
    BY <1>i, <2>2, Pinned
  <2>4. Pointer(q, f) = s
    BY <1>2, <1>3, <1>k, <2>2, <2>3 DEF Good, Used
  <2> QED BY <1>8, <2>4
<1>13. \A f \in Fields \ {"unref"} :
          \/ Pointer(p, f)' = 0
          \/ Pointer(p, f)' = Pointer(p, f) /\ Pointer(p, f) # s
  <2>1. /\ Pointer(p, "ip")' = loc'[p].ip /\ Pointer(p, "dp")' = loc'[p].dp
        /\ Pointer(p, "ofile")' = ofile'[p] /\ Pointer(p, "at")' = loc'[p].at
        /\ Pointer(p, "last")' = LastOf(loc'[p].puts)
        /\ Pointer(p, "before")' = BeforeOf(loc'[p].puts)
    BY DEF Pointer, LastOf, BeforeOf
  <2>2. /\ Pointer(p, "ip") = loc[p].ip /\ Pointer(p, "dp") = loc[p].dp
        /\ Pointer(p, "ofile") = ofile[p] /\ Pointer(p, "at") = loc[p].at
        /\ Pointer(p, "last") = LastOf(loc[p].puts)
        /\ Pointer(p, "before") = BeforeOf(loc[p].puts)
    BY PointerIs
  <2>3. \A f \in {"ip", "dp", "ofile", "at"} :
           Pointer(p, f)' = Pointer(p, f) /\ Pointer(p, f) # s
    BY <1>5, <1>8, <2>1, <2>2 DEF Fields
  <2>4. Pointer(p, "before")' = 0
    BY <1>5, <2>1
  <2>5. \/ Pointer(p, "last")' = 0
        \/ Pointer(p, "last")' = Pointer(p, "last") /\ Pointer(p, "last") # s
    <3>1. CASE s = LastOf(loc[p].puts)
      <4>1. g = "last"
        BY <1>8, <2>2, <3>1 DEF Fields
      <4>2. BeforeOf(loc[p].puts) # s
        BY <1>8, <2>2, <4>1 DEF Fields
      <4> QED BY <1>5, <2>1, <3>1, <4>2
    <3>2. CASE s # LastOf(loc[p].puts)
      BY <1>5, <2>1, <2>2, <3>2
    <3> QED BY <3>1, <3>2
  <2> QED BY <2>3, <2>4, <2>5 DEF Fields
<1>14. \A f \in Fields :
          \/ Inum(p, f)' = 0
          \/ /\ Pointer(p, f)' = Pointer(p, f) /\ Pointer(p, f) # 0 /\ f # "unref"
             /\ Inum(p, f)' = Inum(p, f) /\ Inum(p, f) # i /\ Inum(p, f) \in Alloc
  <2> SUFFICES ASSUME NEW f \in Fields, Inum(p, f)' # 0
               PROVE  /\ Pointer(p, f)' = Pointer(p, f) /\ Pointer(p, f) # 0 /\ f # "unref"
                      /\ Inum(p, f)' = Inum(p, f) /\ Inum(p, f) # i /\ Inum(p, f) \in Alloc
    OBVIOUS
  <2>1. f # "unref" /\ Pointer(p, f)' # 0 /\ Inum(p, f)' = icache'[Pointer(p, f)'].inum
    BY DEF Inum
  <2>2. Pointer(p, f)' = Pointer(p, f) /\ Pointer(p, f) # s /\ Pointer(p, f) # 0
    BY <1>13, <2>1
  <2>3. Pointer(p, f) \in Slots
    BY <1>i, <2>2, Pinned
  <2>4. Inum(p, f) = icache[Pointer(p, f)].inum
    BY <2>1, <2>2 DEF Inum
  <2>5. Inum(p, f)' = Inum(p, f)
    BY <1>10, <2>1, <2>2, <2>3, <2>4
  <2>6. Inum(p, f) # i
    <3>1. f # g
      BY <1>6, <2>2
    <3> QED BY <1>12, <3>1
  <2>7. Inum(p, f) \in Alloc
    BY <1>i, <2>1, <2>2 DEF ProcsOK, PointerOK
  <2> QED BY <2>1, <2>2, <2>5, <2>6, <2>7
<1>15. Spares(p)
  <2> SUFFICES ASSUME NEW q \in Procs, NEW f \in Fields, q # p, Pointer(q, f) # 0
               PROVE  icache'[Pointer(q, f)] = icache[Pointer(q, f)]
    BY DEF Spares
  <2>1. Pointer(q, f) \in Slots /\ Pointer(q, f) # s
    BY <1>i, <1>8, Pinned
  <2> QED BY <1>10, <2>1
<1>16. LockOK(p)'
  <2>1. \A f \in {"ip", "dp", "ofile"} : Pointer(p, f) # 0 =>
           icache'[Pointer(p, f)] = icache[Pointer(p, f)]
    <3> SUFFICES ASSUME NEW f \in {"ip", "dp", "ofile"}, Pointer(p, f) # 0
                 PROVE  icache'[Pointer(p, f)] = icache[Pointer(p, f)]
      OBVIOUS
    <3>1. f \in Fields /\ f # g
      BY DEF Fields
    <3>2. Pointer(p, f) \in Slots /\ Pointer(p, f) # s
      BY <1>i, <1>8, <3>1, Pinned
    <3> QED BY <1>10, <3>2
  <2>2. Pointer(p, "ip") = loc[p].ip /\ Pointer(p, "dp") = loc[p].dp /\ Pointer(p, "ofile") = ofile[p]
    BY PointerIs
  <2>3. LockOK(p) /\ CallOK(p)
    BY <1>i DEF ProcsOK
  <2>4. pc[p] \in DpLocked => loc[p].dp # 0
    BY <2>3 DEF CallOK, DpLocked, HasDp
  <2>5. pc[p] \in IpLocked => loc[p].ip # 0
    BY <2>3 DEF CallOK, IpLocked, HasIp
  <2> QED BY <1>5, <2>1, <2>2, <2>3, <2>4, <2>5 DEF LockOK
<1>17. /\ Alloc' = Alloc \ {i} /\ Alloc \subseteq Inums
       /\ \A j \in Inums : j # i => (IsDir(j)' <=> IsDir(j)) /\ (j \in Dirs' <=> j \in Dirs)
       /\ ~IsDir(i)' /\ i \notin Dirs'
  BY <1>9, <1>10 DEF Alloc, Dirs, IsDir, FreeInode
<1>18. PointerOK(p)'
  <2>1. PointerOK(p) /\ CallOK(p)
    BY <1>i DEF ProcsOK
  <2>2. \A f \in Fields : f # "unref" /\ Pointer(p, f)' # 0 => Inum(p, f)' \in Alloc'
    <3> SUFFICES ASSUME NEW f \in Fields, f # "unref", Pointer(p, f)' # 0
                 PROVE  Inum(p, f)' \in Alloc'
      OBVIOUS
    <3>1. Pointer(p, f)' = Pointer(p, f) /\ Pointer(p, f) # s /\ Pointer(p, f) \in Slots
      BY <1>i, <1>13, Pinned
    <3>2. Inum(p, f)' = icache[Pointer(p, f)].inum /\ Inum(p, f) = icache[Pointer(p, f)].inum
      BY <1>10, <3>1 DEF Inum
    <3>3. Inum(p, f) \in Alloc
      BY <2>1, <3>1 DEF PointerOK
    <3>4. Inum(p, f) # 0
      BY <1>17, <3>3 DEF Inums
    <3> QED BY <1>14, <1>17, <3>2, <3>3, <3>4
  <2>3. Pointer(p, "dp")' = loc'[p].dp /\ Pointer(p, "ip")' = loc'[p].ip /\ {"dp", "ip"} \subseteq Fields
    BY DEF Pointer, Fields
  <2>4. \A f \in {"dp", "ip"} : Pointer(p, f)' # 0 =>
           /\ Inum(p, f)' = Inum(p, f) /\ (IsDir(Inum(p, f))' <=> IsDir(Inum(p, f)))
    <3> SUFFICES ASSUME NEW f \in {"dp", "ip"}, Pointer(p, f)' # 0
                 PROVE  Inum(p, f)' = Inum(p, f) /\ (IsDir(Inum(p, f))' <=> IsDir(Inum(p, f)))
      OBVIOUS
    <3>1. Inum(p, f)' \in Alloc' /\ f \in Fields
      BY <2>2, <2>3
    <3>2. Inum(p, f)' # 0
      BY <1>17, <3>1 DEF Inums
    <3>3. Inum(p, f)' = Inum(p, f) /\ Inum(p, f) \in Inums /\ Inum(p, f) # i
      BY <1>14, <1>17, <3>1, <3>2
    <3>4. dinode'[Inum(p, f)] = dinode[Inum(p, f)]
      BY <1>10, <3>3
    <3> QED BY <3>3, <3>4 DEF IsDir
  <2>5. loc'[p].dp # 0 => IsDir(Inum(p, "dp"))'
    BY <1>5, <2>1, <2>3, <2>4 DEF PointerOK
  <2>6. Credit(p)' /\ pc'[p] # "unlinked" => ~IsDir(Inum(p, "ip"))'
    <3>1. Credit(p)' => loc'[p].ip # 0
      BY <1>5, <2>1 DEF CallOK
    <3> QED BY <1>5, <2>1, <2>3, <2>4, <3>1 DEF PointerOK
  <2> QED BY <2>2, <2>5, <2>6 DEF PointerOK
<1>19. ProcsOK' /\ FreshOK'
  <2>1. \A q \in Procs, f \in Fields : q # p /\ Inum(q, f) \in Inums =>
           dinode'[Inum(q, f)].type = dinode[Inum(q, f)].type
    BY <1>10, <1>12
  <2>2. \A q \in Procs, j \in Inums : q # p /\ Creating(q, j) => dinode'[j] = dinode[j]
    BY <1>9, <1>10 DEF Public
  <2>3. \A q \in Procs, j \in Inums, f \in Fields : q # p /\ Creating(q, j) => Inum(p, f)' # j
    <3> SUFFICES ASSUME NEW q \in Procs, NEW j \in Inums, NEW f \in Fields, q # p, Creating(q, j)
                 PROVE  Inum(p, f)' # j
      OBVIOUS
    <3>1. Inum(p, f) # j
      BY <1>i DEF FreshOK
    <3>2. j # 0
      BY DEF Inums
    <3> QED BY <1>14, <3>1, <3>2
  <2>4. \A j : ~Creating(p, j)'
    BY <1>5 DEF Creating
  <2> QED BY <1>i, <1>5, <1>15, <1>16, <1>18, <2>1, <2>2, <2>3, <2>4, Frame
<1>20. LinksHeld'
  <2> SUFFICES ASSUME NEW j \in Inums
               PROVE  Cardinality(NamesOf(j)') + Cardinality(Subdirs(j)') + Cardinality(Credits(j)')
                         <= dinode'[j].nlink
    BY DEF LinksHeld
  <2>1. Within(NamesOf(j)', NamesOf(j), 0) /\ Within(Subdirs(j)', Subdirs(j), 0)
    <3>1. \A d \in Dirs' : OldDir(d, 0, 0, 0)
      <4> SUFFICES ASSUME NEW d \in Dirs' PROVE OldDir(d, 0, 0, 0)
        OBVIOUS
      <4>1. d \in Inums /\ d # i /\ d \in Dirs /\ d # 0
        BY <1>17 DEF Dirs, Alloc, Inums
      <4>2. dinode'[d] = dinode[d]
        BY <1>10, <4>1
      <4> QED BY <1>1, <4>1, <4>2 DEF OldDir
    <3>2. \A h \in Alloc : IsDir(h)' => IsDir(h)
      BY <1>17
    <3> QED BY <3>1, <3>2, NamesFewer
  <2>2. Within(Credits(j)', Credits(j), 0)
    <3>1. Credit(p)' => Credit(p) /\ Inum(p, "ip")' = Inum(p, "ip")
      <4>1. "ip" \in Fields /\ Pointer(p, "ip")' = loc'[p].ip /\ Pointer(p, "ip") = loc[p].ip
        BY DEF Fields, Pointer
      <4>2. CallOK(p)
        BY <1>i DEF ProcsOK
      <4>3. Credit(p) => loc[p].ip # 0 /\ loc[p].ip # s
        BY <1>8, <4>1, <4>2 DEF CallOK
      <4>4. Credit(p) => loc[p].ip \in Slots
        BY <1>i, <4>1, <4>3, Pinned
      <4> QED BY <1>5, <1>10, <4>1, <4>3, <4>4 DEF Inum
    <3>2. Credits(j)' \subseteq Credits(j)
      BY <1>5, <1>15, <3>1, CreditsThen
    <3> QED BY <3>2 DEF Within
  <2>3. dinode'[j].nlink = dinode[j].nlink /\ dinode[j].nlink \in Nat
    <3>1. dinode[j].nlink \in Nat
      BY <1>i DEF TypeOK, DiskType
    <3>2. dinode'[i].nlink = 0
      BY <1>10 DEF FreeInode
    <3> QED BY <1>10, <1>11, <3>1, <3>2
  <2>4. dinode[j].nlink + 0 + 0 + 0 <= dinode'[j].nlink
    BY <2>3
  <2> QED BY <1>i, <2>1, <2>2, <2>3, <2>4, LinksStep
<1>21. BlocksOwned'
  <2>1. dinode'[i].type = "none" /\ bitmap' = bitmap \ {dinode[i].addr}
    BY <1>1, <1>10, <1>11 DEF FreeInode
  <2> QED BY <1>i, <1>9, <1>10, <1>11, <2>1, BlocksFreed
<1>22. UnlinkOK'
  <2>1. \A v \in Slots : icache[v].ref > 0 => icache'[v].inum = icache[v].inum
    BY <1>k, <1>10
  <2>2. \A q \in Procs : pc'[q] = "unlink_ip" /\ pc[q] = "unlink_ip" =>
           dinode'[Inum(q, "dp")] = dinode[Inum(q, "dp")]
    <3> SUFFICES ASSUME NEW q \in Procs, pc[q] = "unlink_ip"
                 PROVE  dinode'[Inum(q, "dp")] = dinode[Inum(q, "dp")]
      OBVIOUS
    <3>1. loc[q].dp # 0
      BY <1>i DEF ProcsOK, CallOK, HasDp
    <3>2. Inum(q, "dp") \in Inums /\ "dp" \in Fields /\ "dp" # g
      BY <3>1, DpDir DEF Fields
    <3>3. Inum(q, "dp") # i
      BY <1>12, <3>2
    <3> QED BY <1>10, <3>2, <3>3
  <2> QED BY <1>1, <1>5, <2>1, <2>2, UnlinkThen
<1>23. /\ ROOTINO \in Dirs'
       /\ \A j \in Inums : dinode'[j].type = "none" => dinode'[j] = FreeInode
       /\ \A j \in Inums : dinode'[j].type = "dir" =>
             dinode'[j].addr # 0 \/ \E q \in Procs : Creating(q, j)'
  <2>1. ROOTINO \in Dirs'
    BY <1>i, <1>11, <1>17, CwdIn DEF InodesOK
  <2>2. \A j \in Inums : dinode'[j].type = "none" => dinode'[j] = FreeInode
    BY <1>i, <1>10 DEF InodesOK, Alloc
  <2>3. ASSUME NEW j \in Inums, dinode'[j].type = "dir"
        PROVE  dinode'[j].addr # 0 \/ \E q \in Procs : Creating(q, j)'
    <3>1. j # i /\ dinode'[j] = dinode[j]
      BY <1>10, <2>3 DEF FreeInode
    <3>2. j \in Alloc /\ IsDir(j)
      BY <2>3, <3>1 DEF Alloc, IsDir
    <3>3. CASE j \in Dirs
      BY <3>1, <3>3 DEF Dirs
    <3>4. ASSUME NEW q \in Procs, Creating(q, j) PROVE Creating(q, j)'
      <4>1. q # p /\ CallOK(q) /\ LockOK(q)
        BY <1>i, <1>5, <3>4 DEF Creating, ProcsOK
      <4> QED BY <1>i, <1>5, <1>15, <3>4, <4>1, OthersStay
    <3> QED BY <1>i, <3>2, <3>3, <3>4 DEF InodesOK
  <2> QED BY <2>1, <2>2, <2>3
<1>24. bitmap' \subseteq Blocks /\ entry' \in [Blocks -> [Names -> 0 .. NINODES]]
  BY <1>1, <1>i DEF TypeOK
<1> QED BY <1>5, <1>10, <1>19, <1>20, <1>21, <1>22, <1>23, <1>24, Whole

LEMMA IputFreeStep ==
    ASSUME InodeInv, NEW p \in Procs, IputFree(p)
    PROVE  InodeInv'
BY IputFreeLast, IputFreeKept

-----------------------------------------------------------------------------
(* balloc() finds a block that is not in use.                              *)
LEMMA BallocIs ==
    ASSUME TypeOK, CanBalloc
    PROVE  Balloc(bitmap) \in Blocks /\ Balloc(bitmap) \notin bitmap /\ Balloc(bitmap) # 0
<1>1. Blocks \ bitmap \in SUBSET Nat /\ Blocks \ bitmap # {} /\ 0 \notin Blocks
  <2>1. Blocks \subseteq Nat /\ 0 \notin Blocks
    BY InodeAssumption DEF Blocks
  <2>2. bitmap \subseteq Blocks /\ bitmap # Blocks
    BY DEF TypeOK, CanBalloc
  <2>3. Blocks \ bitmap # {}
    BY <2>2
  <2> QED BY <2>1, <2>3
<1>2. Balloc(bitmap) \in Blocks \ bitmap
  BY <1>1, LeastIn DEF Balloc
<1> QED BY <1>1, <1>2

(* filewrite() gives a file its block.                                     *)
LEMMA FilewriteStep ==
    ASSUME InodeInv, NEW p \in Procs, Filewrite(p)
    PROVE  InodeInv'
<1>i. /\ TypeOK /\ RefCounts /\ ProcsOK /\ FreshOK /\ InodesOK /\ CacheCoherent
      /\ LinksHeld /\ BlocksOwned
  BY DEF InodeInv
<1>s. PICK s : s = ofile[p]
  OBVIOUS
<1>k. PICK i : i = icache[s].inum
  OBVIOUS
<1>b. PICK b : b = Balloc(bitmap)
  OBVIOUS
<1>0. /\ At(p, "user") /\ s # 0 /\ icache[s].type = "file" /\ icache[s].addr = 0 /\ CanBalloc
      /\ pc' = pc /\ loc' = loc /\ ofile' = ofile
  BY <1>s DEF Filewrite
<1>1. pc[p] = "user" /\ loc[p].puts = <<>> /\ loc[p].unref = 0
  BY <1>0 DEF At
<1>2. b \in Blocks /\ b \notin bitmap /\ b # 0
  BY <1>i, <1>b, <1>0, BallocIs
<1>3. /\ s \in Slots /\ icache[s].ref > 0 /\ icache[s].inum = i /\ i \in Inums /\ Public(i)
      /\ icache[s].valid
  <2>1. s = Pointer(p, "ofile") /\ "ofile" \in Fields
    BY <1>s, PointerIs DEF Fields
  <2>2. LockOK(p)
    BY <1>i DEF ProcsOK
  <2> QED BY <1>i, <1>s, <1>k, <1>0, <1>1, <2>1, <2>2, PointedPublic DEF LockOK
<1>4. Good(icache, dinode) /\ icache \in CacheType /\ icache[s] \in EntryType
  BY <1>i, <1>3, InvGood DEF Good, CacheType, EntryType
<1>5. PICK r : r = [icache[s] EXCEPT !.addr = b]
  OBVIOUS
<1>6. /\ r \in EntryType /\ r.inum = i /\ r.ref = icache[s].ref /\ r.lock = icache[s].lock
      /\ r.valid = TRUE /\ r.type = "file" /\ r.addr = b /\ r.nlink = icache[s].nlink
  <2>1. b \in 0 .. NBLOCKS
    BY <1>2, InodeAssumption DEF Blocks
  <2> QED BY <1>0, <1>3, <1>4, <1>5, <2>1 DEF EntryType
<1>7. icache' = [icache EXCEPT ![s] = r] /\ dinode' = [dinode EXCEPT ![i] = Content(r)]
  <2>1. icache' = [icache EXCEPT ![s].addr = b] /\ dinode' = Iupdate(dinode, icache', s)
    BY <1>s, <1>b DEF Filewrite
  <2>2. icache' = [icache EXCEPT ![s] = r]
    BY <1>4, <1>5, <2>1 DEF CacheType
  <2>3. icache'[s] = r
    BY <1>3, <1>4, <2>2 DEF CacheType
  <2> QED BY <1>6, <2>1, <2>2, <2>3 DEF Iupdate
<1>8. bitmap' = bitmap \cup {b} /\ entry' = [entry EXCEPT ![b] = NoEntries]
  <2>1. icache'[s] = r
    BY <1>3, <1>4, <1>7 DEF CacheType
  <2>2. /\ bitmap' = bitmap \cup {icache'[s].addr}
        /\ entry' = [entry EXCEPT ![icache'[s].addr] = NoEntries]
    BY <1>s, <1>b DEF Filewrite
  <2> QED BY <1>6, <2>1, <2>2
<1>9. Updates(icache, dinode, s, r, icache', dinode')
  BY <1>3, <1>4, <1>6, <1>7 DEF Updates
<1>10. /\ Good(icache', dinode') /\ icache'[s] = r
       /\ \A t \in Slots : t # s => icache'[t] = icache[t]
       /\ Tame(icache, icache', p) /\ dinode'[i] = Content(r)
       /\ \A j \in Inums : j # i => dinode'[j] = dinode[j]
  <2>1. /\ Good(icache', dinode') /\ icache'[s] = r
        /\ \A t \in Slots : t # s => icache'[t] = icache[t]
        /\ \A q : Tame(icache, icache', q)
        /\ dinode'[icache[s].inum] = Content(r)
        /\ \A j \in Inums : j # icache[s].inum => dinode'[j] = dinode[j]
    BY <1>9, IupdateIs
  <2> QED BY <1>k, <2>1
<1>11. /\ dinode'[i].type = "file" /\ dinode'[i].addr = b /\ dinode'[i].nlink = dinode[i].nlink
       /\ dinode[i].type = "file" /\ dinode[i].addr = 0
  <2>1. Content(icache[s]) = dinode[i]
    BY <1>3, <1>4 DEF Good
  <2> QED BY <1>0, <1>6, <1>10, <2>1 DEF Content
<1>12. \A t \in Slots : /\ icache'[t].ref = icache[t].ref /\ icache'[t].inum = icache[t].inum
                        /\ icache'[t].lock = icache[t].lock
                        /\ icache[t].valid => icache'[t].valid
  BY <1>3, <1>6, <1>10
<1>13. Moves(p) /\ pc'[p] = "user" /\ loc'[p] = loc[p] /\ ofile'[p] = ofile[p]
  BY <1>i, <1>0, <1>1 DEF Moves, TypeOK
<1>14. RefCounts' /\ CallOK(p)' /\ LockOK(p)' /\ ~Credit(p) /\ ~Credit(p)'
  <2>1. \A t \in Slots : icache'[t].ref
           = icache[t].ref + OwnRefs(ofile'[p], loc'[p], t) - OwnRefs(ofile[p], loc[p], t)
    <3> SUFFICES ASSUME NEW t \in Slots
                 PROVE  icache'[t].ref
                          = icache[t].ref + OwnRefs(ofile'[p], loc'[p], t) - OwnRefs(ofile[p], loc[p], t)
      OBVIOUS
    <3>1. OwnRefs(ofile[p], loc[p], t) \in Int /\ icache[t].ref \in Nat
      BY <1>i DEF OwnRefs, One, TypeOK, CacheType
    <3> QED BY <1>12, <1>13, <3>1
  <2>2. RefCounts'
    BY <1>i, <1>13, <2>1, RefsStep DEF Moves, RefCounts
  <2>3. CallOK(p) /\ LockOK(p)
    BY <1>i DEF ProcsOK
  <2>4. ~Credit(p) /\ ~Credit(p)'
    BY <1>1, <1>13 DEF Credit
  <2>5. CallOK(p)'
    BY <1>0, <2>3, <2>4 DEF CallOK
  <2>6. LockOK(p)'
    BY <1>s, <1>3, <1>12, <1>13, <2>3 DEF LockOK, DpLocked, IpLocked
  <2> QED BY <2>2, <2>4, <2>5, <2>6
<1>15. Calm(icache, icache', p) /\ Spares(p) /\ MayPoint(p)
  BY <1>i, <1>10, <1>13, TameCalm, CalmSpares DEF MayPoint, May, HeldBy
<1>16. \A j \in Inums : dinode'[j].type = dinode[j].type
  BY <1>10, <1>11
<1>17. \A q \in Procs, j \in Inums : Creating(q, j) => dinode'[j] = dinode[j]
  BY <1>3, <1>10 DEF Public
<1>18. ProcsOK' /\ FreshOK' /\ \A j : ~Creating(p, j) /\ ~Creating(p, j)'
  BY <1>1, <1>13, <1>14, <1>15, <1>16, <1>17, Steady
<1>19. \A j \in Inums : /\ IsDir(j) => dinode'[j].addr = dinode[j].addr
                        /\ dinode[j].type = "none" => dinode'[j] = dinode[j]
  BY <1>10, <1>11 DEF IsDir
<1>20. /\ Alloc' = Alloc /\ Dirs' = Dirs /\ \A j \in Inums : IsDir(j)' <=> IsDir(j)
       /\ ROOTINO \in Dirs'
       /\ \A j \in Inums : dinode'[j].type = "none" => dinode'[j] = FreeInode
       /\ \A j \in Inums : dinode'[j].type = "dir" =>
             dinode'[j].addr # 0 \/ \E q \in Procs : Creating(q, j)'
  BY <1>13, <1>15, <1>16, <1>18, <1>19, DirsStay
<1>21. \A d \in Dirs : /\ dinode'[d].addr = dinode[d].addr
                       /\ entry'[dinode[d].addr] = entry[dinode[d].addr]
  <2> SUFFICES ASSUME NEW d \in Dirs
               PROVE  /\ dinode'[d].addr = dinode[d].addr
                      /\ entry'[dinode[d].addr] = entry[dinode[d].addr]
    OBVIOUS
  <2>1. dinode[d].addr \in Blocks /\ dinode[d].addr \in bitmap /\ d \in Alloc /\ IsDir(d)
    BY <1>i, DirBlocks
  <2>2. dinode[d].addr # b /\ d \in Inums
    BY <1>2, <2>1 DEF Alloc
  <2> QED BY <1>8, <1>i, <1>19, <2>1, <2>2 DEF TypeOK
<1>22. LinksHeld'
  <2> SUFFICES ASSUME NEW j \in Inums
               PROVE  Cardinality(NamesOf(j)') + Cardinality(Subdirs(j)') + Cardinality(Credits(j)')
                         <= dinode'[j].nlink
    BY DEF LinksHeld
  <2>1. Within(NamesOf(j)', NamesOf(j), 0) /\ Within(Subdirs(j)', Subdirs(j), 0)
    <3>1. \A d \in Dirs' : OldDir(d, 0, 0, 0)
      <4>1. \A d \in Dirs : d # 0
        BY DEF Dirs, Alloc, Inums
      <4> QED BY <1>20, <1>21, <4>1 DEF OldDir
    <3>2. \A h \in Alloc : IsDir(h)' => IsDir(h)
      BY <1>20 DEF Alloc
    <3> QED BY <3>1, <3>2, NamesFewer
  <2>2. Within(Credits(j)', Credits(j), 0)
    <3>1. Credits(j)' \subseteq Credits(j)
      BY <1>13, <1>14, <1>15, CreditsThen
    <3> QED BY <3>1 DEF Within
  <2>3. dinode'[j].nlink = dinode[j].nlink /\ dinode[j].nlink \in Nat
    BY <1>i, <1>10, <1>11 DEF TypeOK, DiskType
  <2>4. dinode[j].nlink + 0 + 0 + 0 <= dinode'[j].nlink
    BY <2>3
  <2> QED BY <1>i, <2>1, <2>2, <2>3, <2>4, LinksStep
<1>23. BlocksOwned'
  <2>1. bitmap' = bitmap \cup ({b} \ {0}) /\ dinode'[i].type # "none"
    BY <1>2, <1>8, <1>11
  <2>2. \A j \in Inums : j # i => dinode'[j].type = dinode[j].type /\ dinode'[j].addr = dinode[j].addr
    BY <1>10
  <2> QED BY <1>i, <1>2, <1>3, <1>11, <2>1, <2>2, BlocksThen
<1>24. UnlinkOK'
  <2>1. \A v \in Slots : icache[v].ref > 0 => icache'[v].inum = icache[v].inum
    BY <1>12
  <2>2. \A q \in Procs : pc[q] = "unlink_ip" => Inum(q, "dp") \in Dirs
    <3>1. \A q \in Procs : pc[q] = "unlink_ip" => loc[q].dp # 0
      BY <1>i DEF ProcsOK, CallOK, HasDp
    <3> QED BY <3>1, DpDir
  <2>3. pc'[p] # "unlink_ip"
    BY <1>13
  <2>4. \A q \in Procs : pc'[q] = "unlink_ip" /\ pc[q] = "unlink_ip" =>
           LET D == Inum(q, "dp") IN
           /\ dinode'[D].addr = dinode[D].addr
           /\ entry'[dinode[D].addr][Head(loc[q].path)] = entry[dinode[D].addr][Head(loc[q].path)]
    BY <1>21, <2>2
  <2> QED BY <1>13, <1>14, <2>1, <2>3, <2>4, UnlinkThen
<1>25. bitmap' \subseteq Blocks /\ entry' \in [Blocks -> [Names -> 0 .. NINODES]]
  <2>1. NoEntries \in [Names -> 0 .. NINODES]
    BY InodeAssumption DEF NoEntries
  <2> QED BY <1>i, <1>2, <1>8, <2>1 DEF TypeOK
<1> QED BY <1>10, <1>13, <1>14, <1>18, <1>20, <1>22, <1>23, <1>24, <1>25, Whole

-----------------------------------------------------------------------------
(* create() finds no entry, and allocates an inode.                        *)
LEMMA CreateLookupNew ==
    ASSUME InodeInv, NEW p \in Procs, CreateLookup(p),
           Dirlookup(Ilock(icache, loc[p].dp, p), loc[p].dp, Head(loc[p].path)) = 0
    PROVE  InodeInv'
<1> DEFINE free == {n \in Inums : dinode[n].type = "none"}
<1>i. /\ TypeOK /\ RefCounts /\ ProcsOK /\ FreshOK /\ InodesOK /\ CacheCoherent
      /\ LinksHeld /\ BlocksOwned
  BY DEF InodeInv
<1>r. PICK r : r = loc[p]
  OBVIOUS
<1>c. PICK c : c = Ilock(icache, r.dp, p)
  OBVIOUS
<1>k. PICK k : k = Least(free)
  OBVIOUS
<1>u. PICK u : u = [r EXCEPT !.inum = k]
  OBVIOUS
<1>1. /\ At(p, "create") /\ Unlocked(r.dp) /\ free # {} /\ icache' = c
      /\ dinode' = [dinode EXCEPT ![k].type = Type(r)] /\ Step(p, "ialloc", u)
      /\ ofile' = ofile /\ bitmap' = bitmap /\ entry' = entry
  BY <1>r, <1>c, <1>k, <1>u DEF CreateLookup
<1>2. k \in Inums /\ dinode[k] = FreeInode /\ k \notin Alloc /\ k # 0
  <2>1. free \in SUBSET Nat
    BY DEF Inums
  <2>2. k \in free
    BY <1>k, <1>1, <2>1, LeastIn
  <2> QED BY <1>i, <2>2 DEF InodesOK, Alloc, Inums
<1> HIDE DEF free
<1>3. /\ pc[p] = "create" /\ r \in LocType /\ r.puts = <<>> /\ r.unref = 0 /\ r.at = 0
      /\ r.ip = 0 /\ r.inum = 0 /\ r.dp # 0
  BY <1>r, <1>1, AtIs DEF HasIp, HasDp
<1>4. /\ r.path # <<>> /\ r.op \in {"create", "mkdir", "mknod"}
      /\ (r.op \in {"open", "create"} => ofile[p] = 0)
  <2>1. CallOK(p)
    BY <1>i DEF ProcsOK
  <2> QED BY <1>r, <1>3, <2>1 DEF CallOK, Named, Making
<1>5. /\ Good(c, dinode) /\ Tame(icache, c, p) /\ \A t \in Slots : c[t].ref = icache[t].ref
      /\ c[r.dp].lock = p /\ c[r.dp].valid /\ r.dp \in Slots
  <2>1. r.dp = Pointer(p, "dp") /\ "dp" \in Lockable
    BY <1>r, PointerIs DEF Lockable
  <2> QED BY <1>c, <1>1, <1>3, <2>1, Enter
<1>6. /\ u \in LocType /\ u.op = r.op /\ u.path = r.path /\ u.new = r.new /\ u.at = 0 /\ u.ip = 0
      /\ u.dp = r.dp /\ u.inum = k /\ u.puts = <<>> /\ u.unref = 0
  <2>1. k \in 0 .. NINODES
    BY <1>2, InodeAssumption DEF Inums
  <2> QED BY <1>u, <1>3, <2>1 DEF LocType
<1>7. LastOf(u.puts) = 0 /\ BeforeOf(u.puts) = 0 /\ Len(u.puts) = 0
  BY <1>6, PutsAre
<1>8. CallAt("ialloc", u, ofile[p]) /\ LocksAt("ialloc", u, c, p) /\ ~CreditAt("ialloc", u)
  <2>1. "ialloc" \in Places /\ ~CreditAt("ialloc", u)
    BY DEF Places, CreditAt
  <2>2. u.dp # 0 /\ u.path # <<>> /\ u.op \in {"create", "mkdir", "mknod"}
        /\ (u.op \in {"open", "create"} => ofile[p] = 0) /\ u.inum # 0
    BY <1>2, <1>3, <1>4, <1>6
  <2>3. LocksAt("ialloc", u, c, p)
    BY <1>5, <1>6 DEF LocksAt, IpLocked
  <2> QED BY <1>6, <1>7, <2>1, <2>2, <2>3 DEF CallAt, HasIp, HasDp, Named, Making
<1>9. CountsAt(u, c, p)
  <2>1. ASSUME NEW v \in Slots
        PROVE  c[v].ref = icache[v].ref + OwnRefs(ofile[p], u, v) - OwnRefs(ofile[p], r, v)
    <3>1. icache[v].ref \in Nat /\ c[v].ref = icache[v].ref
      BY <1>i, <1>5 DEF TypeOK, CacheType
    <3>2. OwnRefs(ofile[p], u, v) = OwnRefs(ofile[p], r, v)
      BY <1>3, <1>6 DEF OwnRefs
    <3>3. OwnRefs(ofile[p], r, v) \in Int
      BY DEF OwnRefs, One
    <3> QED BY <3>1, <3>2, <3>3
  <2> QED BY <1>r, <2>1 DEF CountsAt
<1>10. /\ Moves(p) /\ pc'[p] = "ialloc" /\ loc'[p] = u
       /\ RefCounts' /\ CallOK(p)' /\ LockOK(p)' /\ ~Credit(p)'
  BY <1>1, <1>5, <1>8, <1>9, MiddleIs
<1>11. Calm(icache, icache', p) /\ Spares(p)
  BY <1>i, <1>1, <1>5, TameCalm, CalmSpares
<1>12. /\ Good(icache', dinode')
       /\ dinode'[k] = [FreeInode EXCEPT !.type = Type(r)]
       /\ \A j \in Inums : j # k => dinode'[j] = dinode[j]
  <2>1. dinode[k].type = "none" /\ Type(r) \in Types
    BY <1>2, <1>4 DEF FreeInode, Type, Types
  <2>2. Allocates(c, dinode, k, Type(r), dinode')
    BY <1>1, <1>2, <1>5, <2>1 DEF Allocates
  <2>3. /\ Good(c, dinode') /\ dinode'[k] = [dinode[k] EXCEPT !.type = Type(r)]
        /\ \A j \in Inums : j # k => dinode'[j] = dinode[j]
    BY <2>2, AllocatedIs
  <2> QED BY <1>1, <1>2, <2>3
<1>13. dinode'[k].type \in Types /\ dinode'[k].nlink = 0 /\ dinode'[k].addr = 0
  BY <1>4, <1>12 DEF FreeInode, Type, Types
<1>14. /\ Alloc' = Alloc \cup {k} /\ Alloc \subseteq Inums /\ Dirs' = Dirs
       /\ \A j \in Inums : j # k => (IsDir(j)' <=> IsDir(j))
  <2>1. dinode'[k].type # "none"
    BY <1>13 DEF Types
  <2>2. Alloc' = Alloc \cup {k} /\ Alloc \subseteq Inums
    BY <1>2, <1>12, <2>1 DEF Alloc
  <2>3. \A j \in Inums : j # k => (IsDir(j)' <=> IsDir(j)) /\ (j \in Dirs' <=> j \in Dirs)
    BY <1>2, <1>12, <2>2 DEF Dirs, IsDir
  <2>4. k \notin Dirs /\ k \notin Dirs' /\ Dirs \subseteq Inums /\ Dirs' \subseteq Inums
    BY <1>2, <1>13, <2>2 DEF Dirs
  <2>5. Dirs' = Dirs
    BY <2>3, <2>4
  <2> QED BY <2>2, <2>3, <2>5
(* Nobody has the number k. *)
<1>15. /\ \A q \in Procs, f \in Fields : Inum(q, f) # k
       /\ \A q \in Procs : ~Creating(q, k)
  <2>1. \A q \in Procs, f \in Fields : Inum(q, f) # k
    BY <1>i, <1>2, InumIn DEF ProcsOK
  <2>2. ASSUME NEW q \in Procs, Creating(q, k) PROVE FALSE
    <3>1. dinode[k] = [FreeInode EXCEPT !.type = Type(loc[q])]
      BY <1>i, <1>2, <2>2 DEF FreshOK
    <3>2. dinode[k].type = Type(loc[q])
      BY <3>1 DEF FreeInode
    <3> QED BY <1>2, <3>2 DEF FreeInode, Type
  <2> QED BY <2>1, <2>2
<1>16. \A f \in Fields : Pointer(p, f)' = Pointer(p, f) /\ Inum(p, f)' = Inum(p, f)
  <2>1. \A f \in Fields : Pointer(p, f)' = Pointer(p, f)
    <3>1. /\ Pointer(p, "ip")' = loc'[p].ip /\ Pointer(p, "dp")' = loc'[p].dp
          /\ Pointer(p, "ofile")' = ofile'[p] /\ Pointer(p, "at")' = loc'[p].at
          /\ Pointer(p, "unref")' = loc'[p].unref /\ Pointer(p, "last")' = LastOf(loc'[p].puts)
          /\ Pointer(p, "before")' = BeforeOf(loc'[p].puts)
      BY DEF Pointer, LastOf, BeforeOf
    <3> QED BY <1>r, <1>1, <1>3, <1>6, <1>10, <3>1, PointerIs DEF Fields
  <2>2. \A f \in Fields : Pointer(p, f) # 0 => icache'[Pointer(p, f)].inum = icache[Pointer(p, f)].inum
    BY <1>i, <1>11, Pinned DEF Calm, Used
  <2> QED BY <2>1, <2>2 DEF Inum
<1>17. PointerOK(p)'
  <2>1. PointerOK(p)
    BY <1>i DEF ProcsOK
  <2>2. \A f \in Fields : f # "unref" /\ Pointer(p, f)' # 0 => Inum(p, f)' \in Alloc'
    BY <1>14, <1>16, <2>1 DEF PointerOK
  <2>3. IsDir(Inum(p, "dp"))'
    <3>1. IsDir(Inum(p, "dp")) /\ Inum(p, "dp") \in Inums
      BY <1>r, <1>3, DpDir
    <3>2. "dp" \in Fields
      BY DEF Fields
    <3>3. dinode'[Inum(p, "dp")] = dinode[Inum(p, "dp")]
      BY <1>12, <1>15, <3>1, <3>2
    <3> QED BY <1>16, <3>1, <3>2, <3>3 DEF IsDir
  <2> QED BY <1>10, <2>2, <2>3 DEF PointerOK
<1>18. ProcsOK' /\ FreshOK'
  <2>1. \A q \in Procs, f \in Fields : q # p /\ Inum(q, f) \in Inums =>
           dinode'[Inum(q, f)].type = dinode[Inum(q, f)].type
    BY <1>12, <1>15
  <2>2. \A q \in Procs, j \in Inums : q # p /\ Creating(q, j) => dinode'[j] = dinode[j]
    BY <1>12, <1>15
  <2>3. \A q \in Procs, j \in Inums, f \in Fields : q # p /\ Creating(q, j) => Inum(p, f)' # j
    <3> SUFFICES ASSUME NEW q \in Procs, NEW j \in Inums, NEW f \in Fields, q # p, Creating(q, j)
                 PROVE  Inum(p, f)' # j
      OBVIOUS
    <3>1. Inum(p, f) # j
      BY <1>i DEF FreshOK
    <3> QED BY <1>16, <3>1
  <2>4. \A j : Creating(p, j)' => j = k
    BY <1>6, <1>10 DEF Creating
  <2>5. Type(loc'[p]) = Type(r)
    BY <1>6, <1>10 DEF Type
  <2>6. ASSUME NEW j \in Inums, Creating(p, j)'
        PROVE  /\ dinode'[j] = [FreeInode EXCEPT !.type = Type(loc'[p])]
               /\ \A q \in Procs : q # p => ~Creating(q, j) /\ \A f \in Fields : Inum(q, f) # j
               /\ \A f \in Fields : Inum(p, f)' = j => f = "ip"
    <3>1. j = k
      BY <2>4, <2>6
    <3> QED BY <1>12, <1>15, <1>16, <2>5, <3>1
  <2> QED BY <1>i, <1>10, <1>11, <1>17, <2>1, <2>2, <2>3, <2>6, Frame
<1>19. LinksHeld'
  <2> SUFFICES ASSUME NEW j \in Inums
               PROVE  Cardinality(NamesOf(j)') + Cardinality(Subdirs(j)') + Cardinality(Credits(j)')
                         <= dinode'[j].nlink
    BY DEF LinksHeld
  <2>1. Within(NamesOf(j)', NamesOf(j), 0) /\ Within(Subdirs(j)', Subdirs(j), 0)
    <3>1. \A d \in Dirs' : OldDir(d, 0, 0, 0)
      <4>1. \A d \in Dirs : d # 0 /\ d # k /\ d \in Inums
        <5>1. \A d \in Dirs : d \in Alloc /\ d \in Inums
          BY DEF Dirs, Alloc
        <5>2. \A d \in Inums : d # 0
          BY DEF Inums
        <5> QED BY <1>2, <5>1, <5>2
      <4> QED BY <1>1, <1>12, <1>14, <4>1 DEF OldDir
    <3>2. \A h \in Alloc : IsDir(h)' => IsDir(h)
      BY <1>2, <1>14
    <3> QED BY <3>1, <3>2, NamesFewer
  <2>2. Within(Credits(j)', Credits(j), 0)
    <3>1. Credits(j)' \subseteq Credits(j) \ {p}
      BY <1>10, <1>11, CreditsThen
    <3> QED BY <3>1 DEF Within
  <2>3. dinode'[j].nlink = dinode[j].nlink /\ dinode[j].nlink \in Nat
    BY <1>i, <1>2, <1>12, <1>13 DEF TypeOK, DiskType, FreeInode
  <2>4. dinode[j].nlink + 0 + 0 + 0 <= dinode'[j].nlink
    BY <2>3
  <2> QED BY <1>i, <2>1, <2>2, <2>3, <2>4, LinksStep
<1>20. BlocksOwned'
  <2>1. /\ dinode[k].addr = 0 /\ 0 = dinode'[k].addr /\ dinode'[k].type # "none"
        /\ bitmap' = bitmap \cup ({0} \ {0})
    BY <1>1, <1>2, <1>13 DEF FreeInode, Types
  <2>2. \A j \in Inums : j # k => dinode'[j].type = dinode[j].type /\ dinode'[j].addr = dinode[j].addr
    BY <1>12
  <2> QED BY <1>i, <1>2, <2>1, <2>2, BlocksThen
<1>21. UnlinkOK'
  <2>1. \A v \in Slots : icache[v].ref > 0 => icache'[v].inum = icache[v].inum
    BY <1>11 DEF Calm
  <2>2. \A q \in Procs : pc[q] = "unlink_ip" => dinode'[Inum(q, "dp")] = dinode[Inum(q, "dp")]
    <3> SUFFICES ASSUME NEW q \in Procs, pc[q] = "unlink_ip"
                 PROVE  dinode'[Inum(q, "dp")] = dinode[Inum(q, "dp")]
      OBVIOUS
    <3>1. loc[q].dp # 0 /\ "dp" \in Fields
      BY <1>i DEF ProcsOK, CallOK, HasDp, Fields
    <3>2. Inum(q, "dp") \in Inums
      BY <3>1, DpDir
    <3> QED BY <1>12, <1>15, <3>1, <3>2
  <2>3. pc'[p] # "unlink_ip"
    BY <1>10
  <2> QED BY <1>1, <1>10, <2>1, <2>2, <2>3, UnlinkThen
<1>22. /\ ROOTINO \in Dirs'
       /\ \A j \in Inums : dinode'[j].type = "none" => dinode'[j] = FreeInode
       /\ \A j \in Inums : dinode'[j].type = "dir" =>
             dinode'[j].addr # 0 \/ \E q \in Procs : Creating(q, j)'
  <2>1. ROOTINO \in Dirs'
    BY <1>i, <1>14 DEF InodesOK
  <2>2. \A j \in Inums : dinode'[j].type = "none" => dinode'[j] = FreeInode
    BY <1>i, <1>12, <1>13 DEF InodesOK, Alloc, Types
  <2>3. ASSUME NEW j \in Inums, dinode'[j].type = "dir"
        PROVE  dinode'[j].addr # 0 \/ \E q \in Procs : Creating(q, j)'
    <3>1. CASE j = k
      <4>1. Creating(p, k)'
        BY <1>6, <1>10 DEF Creating
      <4> QED BY <3>1, <4>1
    <3>2. CASE j # k
      <4>1. dinode'[j] = dinode[j] /\ j \in Alloc /\ IsDir(j)
        BY <1>12, <2>3, <3>2 DEF Alloc, IsDir
      <4>2. CASE j \in Dirs
        BY <4>1, <4>2 DEF Dirs
      <4>3. ASSUME NEW q \in Procs, Creating(q, j) PROVE Creating(q, j)'
        <5>1. q # p /\ CallOK(q) /\ LockOK(q)
          BY <1>i, <1>3, <4>3 DEF Creating, ProcsOK
        <5> QED BY <1>i, <1>10, <1>11, <4>3, <5>1, OthersStay
      <4> QED BY <1>i, <4>1, <4>2, <4>3 DEF InodesOK
    <3> QED BY <3>1, <3>2
  <2> QED BY <2>1, <2>2, <2>3
<1>23. bitmap' \subseteq Blocks /\ entry' \in [Blocks -> [Names -> 0 .. NINODES]]
  BY <1>1, <1>i DEF TypeOK
<1> QED BY <1>10, <1>12, <1>18, <1>19, <1>20, <1>21, <1>22, <1>23, Whole

LEMMA CreateLookupStep ==
    ASSUME InodeInv, NEW p \in Procs, CreateLookup(p)
    PROVE  InodeInv'
BY CreateLookupNew, CreateLookupFound

-----------------------------------------------------------------------------
(* An entry of directory D is set.                                         *)
LEMMA SetEntry ==
    ASSUME InodeInv, NEW D \in Dirs, NEW n \in Names, NEW v,
           entry' = [entry EXCEPT ![dinode[D].addr][n] = v],
           NEW d \in Dirs, dinode'[d].addr = dinode[d].addr
    PROVE  OldDir(d, D, n, v)
<1>1. TypeOK /\ BlocksOwned
  BY DEF InodeInv
<1>2. /\ dinode[d].addr \in Blocks /\ dinode[D].addr \in Blocks
      /\ dinode[d].addr = dinode[D].addr => d = D
  BY <1>1, DirBlocks
<1>3. entry \in [Blocks -> [Names -> 0 .. NINODES]]
  BY <1>1 DEF TypeOK
<1>4. \A m \in Names : entry'[dinode[d].addr][m]
         = IF d = D /\ m = n THEN v ELSE entry[dinode[d].addr][m]
  BY <1>2, <1>3
<1> QED BY <1>4 DEF OldDir

(* Nobody else is clearing an entry of the directory whose lock p has.     *)
LEMMA NotAt ==
    ASSUME InodeInv, NEW p \in Procs, NEW s \in Slots, icache[s].ref > 0,
           icache[s].lock \in {p, None}, NEW q \in Procs, q # p, pc[q] = "unlink_ip"
    PROVE  /\ Inum(q, "dp") \in Dirs /\ Inum(q, "dp") # icache[s].inum
           /\ Head(loc[q].path) \in Names
<1>1. loc[q].dp # 0 /\ loc[q].path # <<>> /\ loc[q].path \in Seq(Names) /\ pc[q] \in DpLocked
  BY DEF InodeInv, ProcsOK, CallOK, HasDp, Named, DpLocked, TypeOK, LocType
<1>2. Inum(q, "dp") \in Dirs
  BY <1>1, DpDir
<1>3. icache[s].lock # q
  BY InodeAssumption
<1>4. Inum(q, "dp") # icache[s].inum
  BY <1>1, <1>3, LockedOut
<1>5. Head(loc[q].path) \in Names
  BY <1>1
<1> QED BY <1>2, <1>4, <1>5

(* dirlink() writes the entry that link() has counted.                     *)
LEMMA LinkEntryNew ==
    ASSUME InodeInv, NEW p \in Procs, LinkEntry(p),
           Dirlookup(Ilock(icache, loc[p].dp, p), loc[p].dp, Head(loc[p].path)) = 0
    PROVE  InodeInv'
<1>i. /\ TypeOK /\ RefCounts /\ ProcsOK /\ FreshOK /\ InodesOK /\ CacheCoherent
      /\ LinksHeld /\ BlocksOwned
  BY DEF InodeInv
<1>r. PICK r : r = loc[p]
  OBVIOUS
<1>s. PICK s : s = r.dp
  OBVIOUS
<1>c. PICK c : c = Ilock(icache, s, p)
  OBVIOUS
<1>e. PICK e : e = Iunlock(c, s)
  OBVIOUS
<1>I. PICK I : I = Inum(p, "ip")
  OBVIOUS
<1>D. PICK D : D = Inum(p, "dp")
  OBVIOUS
<1>n. PICK n : n = Head(r.path)
  OBVIOUS
<1>u. PICK u : u = [NoLocals EXCEPT !.puts = <<s, r.ip>>]
  OBVIOUS
<1>1. /\ At(p, "link_new") /\ Unlocked(s) /\ icache' = e /\ Step(p, "user", u)
      /\ entry' = [entry EXCEPT ![c[s].addr][n] = c[r.ip].inum]
      /\ ofile' = ofile /\ bitmap' = bitmap /\ dinode' = dinode
  BY <1>r, <1>s, <1>c, <1>e, <1>n, <1>u DEF LinkEntry
<1>2. /\ pc[p] = "link_new" /\ r \in LocType /\ r.puts = <<>> /\ r.unref = 0 /\ r.at = 0
      /\ r.ip # 0 /\ r.inum = 0 /\ s # 0
      /\ \A v \in Slots : OwnRefs(ofile[p], r, v) = One(ofile[p] = v) + One(r.ip = v) + One(s = v)
  BY <1>r, <1>s, <1>1, AtIs DEF HasIp, HasDp
<1>3. /\ s \in Slots /\ s = Pointer(p, "dp") /\ "dp" \in Lockable
      /\ n \in Names /\ c[s].addr = dinode[D].addr
  BY <1>r, <1>s, <1>c, <1>n, <1>D, <1>1, DpLookup
<1>4. /\ s \in Slots /\ icache[s].inum = D /\ icache[s].ref > 0
      /\ D \in Inums /\ D \in Dirs /\ Public(D) /\ IsDir(D)
  BY <1>r, <1>s, <1>D, <1>2, DpDir
<1>5. /\ r.ip \in Slots /\ icache[r.ip].ref > 0 /\ icache[r.ip].inum = I
      /\ I \in Inums /\ Public(I) /\ ~IsDir(I)
  <2>1. r.ip = Pointer(p, "ip") /\ "ip" \in Fields
    BY <1>r, PointerIs DEF Fields
  <2>2. PointerOK(p) /\ Credit(p)
    BY <1>i, <1>2 DEF ProcsOK, Credit
  <2> QED BY <1>i, <1>I, <1>2, <2>1, <2>2, PointedPublic DEF PointerOK
<1>6. c[r.ip].inum = I
  <2>1. c[s].inum = icache[s].inum /\ \A t \in Slots : t # s => c[t] = icache[t]
    BY <1>c, <1>1, <1>2, <1>3, Enter
  <2> QED BY <1>5, <2>1
<1>7. entry' = [entry EXCEPT ![dinode[D].addr][n] = I]
  BY <1>1, <1>3, <1>6
<1>8. /\ Good(e, dinode) /\ Tame(icache, e, p) /\ \A t \in Slots : e[t].ref = icache[t].ref
  BY <1>c, <1>e, <1>1, <1>2, <1>3, Glance
<1>9. /\ u \in LocType /\ u.op = "" /\ u.at = 0 /\ u.ip = 0 /\ u.dp = 0
      /\ u.inum = 0 /\ u.puts = <<s, r.ip>> /\ u.unref = 0
  <2>1. <<s, r.ip>> \in Seq(Slots)
    BY <1>4, <1>5
  <2> QED BY <1>u, <2>1, NoLocalsAre DEF LocType
<1>10. LastOf(u.puts) = r.ip /\ BeforeOf(u.puts) = s /\ Len(u.puts) = 2
  <2>1. u.puts = <<s, r.ip>>
    BY <1>9
  <2> QED BY <2>1, PutsAre
<1>11. CallAt("user", u, ofile[p]) /\ LocksAt("user", u, e, p) /\ ~CreditAt("user", u)
  <2>1. "user" \in Places /\ ~CreditAt("user", u) /\ LocksAt("user", u, e, p)
    BY DEF Places, CreditAt, LocksAt, DpLocked, IpLocked
  <2>2. u \in LocType /\ u.op = "" /\ u.at = 0 /\ u.ip = 0 /\ u.dp = 0 /\ u.inum = 0
    BY <1>9
  <2>3. Len(u.puts) <= 2
    BY <1>10
  <2> QED BY <2>1, <2>2, <2>3 DEF CallAt, HasIp, HasDp, Named, Making
<1>12. CountsAt(u, e, p)
  <2>1. ASSUME NEW t \in Slots
        PROVE  e[t].ref = icache[t].ref + OwnRefs(ofile[p], u, t) - OwnRefs(ofile[p], r, t)
    <3>1. t # 0 /\ icache[t].ref \in Nat /\ e[t].ref = icache[t].ref
      BY <1>i, <1>8, SlotSeq DEF TypeOK, CacheType
    <3>2. OwnRefs(ofile[p], u, t) = One(ofile[p] = t) + One(r.ip = t) + One(s = t)
      <4>1. u.at = 0 /\ u.ip = 0 /\ u.dp = 0 /\ u.unref = 0
        BY <1>9
      <4> QED BY <1>10, <3>1, <4>1 DEF OwnRefs, One
    <3>3. OwnRefs(ofile[p], r, t) = One(ofile[p] = t) + One(r.ip = t) + One(s = t)
      BY <1>2
    <3> QED BY <3>1, <3>2, <3>3 DEF One
  <2> QED BY <1>r, <2>1 DEF CountsAt
<1>13. /\ Moves(p) /\ pc'[p] = "user" /\ loc'[p] = u
       /\ RefCounts' /\ CallOK(p)' /\ LockOK(p)' /\ ~Credit(p)'
  BY <1>1, <1>8, <1>11, <1>12, MiddleIs
<1>14. Calm(icache, icache', p) /\ Spares(p) /\ Good(icache', dinode')
  BY <1>i, <1>1, <1>8, TameCalm, CalmSpares
<1>15. MayPoint(p)
  BY <1>r, <1>s, <1>1, <1>9, <1>10, <1>13 DEF MayPoint, May, HeldBy
<1>16. ProcsOK' /\ FreshOK' /\ \A j : ~Creating(p, j) /\ ~Creating(p, j)'
  <2>1. loc'[p].dp = 0 /\ pc[p] \notin {"ialloc", "new"} /\ pc'[p] \notin {"ialloc", "new"}
    BY <1>2, <1>9, <1>13
  <2> QED BY <1>1, <1>13, <1>14, <1>15, <2>1, Steady
<1>17. /\ Alloc' = Alloc /\ Dirs' = Dirs /\ \A j \in Inums : IsDir(j)' <=> IsDir(j)
       /\ ROOTINO \in Dirs'
       /\ \A j \in Inums : dinode'[j].type = "none" => dinode'[j] = FreeInode
       /\ \A j \in Inums : dinode'[j].type = "dir" =>
             dinode'[j].addr # 0 \/ \E q \in Procs : Creating(q, j)'
  BY <1>1, <1>13, <1>14, <1>16, DirsStay
<1>18. \A d \in Dirs : OldDir(d, D, n, I)
  BY <1>1, <1>3, <1>4, <1>7, SetEntry
<1>19. LinksHeld'
  <2> SUFFICES ASSUME NEW j \in Inums
               PROVE  Cardinality(NamesOf(j)') + Cardinality(Subdirs(j)') + Cardinality(Credits(j)')
                         <= dinode'[j].nlink
    BY DEF LinksHeld
  <2>1. LET x == <<dinode[D].addr, n>> IN
        /\ NamesOf(j)' \subseteq NamesOf(j) \cup {x}
        /\ j # I => NamesOf(j)' \subseteq NamesOf(j) \ {x}
        /\ I = 0 \/ ~IsDir(I) => Subdirs(j)' \subseteq Subdirs(j)
    <3>1. \A d \in Dirs' : OldDir(d, D, n, I)
      BY <1>17, <1>18
    <3>2. \A h \in Alloc : IsDir(h)' => IsDir(h)
      BY <1>17 DEF Alloc
    <3>3. I \in Alloc
      BY <1>5 DEF Public
    <3> QED BY <1>3, <1>4, <3>1, <3>2, <3>3, EntrySet
  <2>2. Within(Subdirs(j)', Subdirs(j), 0)
    BY <1>5, <2>1 DEF Within
  <2>3. Credits(j)' \subseteq Credits(j) \ {p}
    BY <1>13, <1>14, CreditsThen
  <2>4. dinode'[j].nlink = dinode[j].nlink /\ dinode[j].nlink \in Nat
    BY <1>i, <1>1 DEF TypeOK, DiskType
  <2>5. CASE j = I
    <3>1. p \in Credits(j)
      BY <1>I, <1>2, <2>5 DEF Credits, Credit
    <3>2. Within(Credits(j)', Credits(j), -1) /\ Within(NamesOf(j)', NamesOf(j), 1)
      BY <2>1, <2>3, <3>1 DEF Within
    <3>3. dinode[j].nlink + 1 + 0 + (-1) <= dinode'[j].nlink
      BY <2>4
    <3> QED BY <1>i, <2>2, <2>4, <3>2, <3>3, LinksStep
  <2>6. CASE j # I
    <3>1. Within(Credits(j)', Credits(j), 0) /\ Within(NamesOf(j)', NamesOf(j), 0)
      BY <2>1, <2>3, <2>6 DEF Within
    <3>2. dinode[j].nlink + 0 + 0 + 0 <= dinode'[j].nlink
      BY <2>4
    <3> QED BY <1>i, <2>2, <2>4, <3>1, <3>2, LinksStep
  <2> QED BY <2>5, <2>6
<1>20. BlocksOwned'
  BY <1>1, <1>i, BlocksStay
<1>21. UnlinkOK'
  <2>1. \A v \in Slots : icache[v].ref > 0 => icache'[v].inum = icache[v].inum
    BY <1>14 DEF Calm
  <2>2. pc'[p] # "unlink_ip" /\ icache[s].lock = None
    BY <1>1, <1>13 DEF Unlocked
  <2>3. \A q \in Procs : pc'[q] = "unlink_ip" /\ pc[q] = "unlink_ip" =>
           entry'[dinode[Inum(q, "dp")].addr][Head(loc[q].path)]
             = entry[dinode[Inum(q, "dp")].addr][Head(loc[q].path)]
    <3> SUFFICES ASSUME NEW q \in Procs, pc'[q] = "unlink_ip", pc[q] = "unlink_ip"
                 PROVE  entry'[dinode[Inum(q, "dp")].addr][Head(loc[q].path)]
                          = entry[dinode[Inum(q, "dp")].addr][Head(loc[q].path)]
      OBVIOUS
    <3>1. /\ Inum(q, "dp") \in Dirs /\ Inum(q, "dp") # D /\ Head(loc[q].path) \in Names
      BY <1>4, <2>2, NotAt
    <3> QED BY <1>18, <3>1 DEF OldDir
  <2> QED BY <1>1, <1>13, <2>1, <2>2, <2>3, UnlinkThen
<1>22. bitmap' \subseteq Blocks /\ entry' \in [Blocks -> [Names -> 0 .. NINODES]]
  <2>1. I \in 0 .. NINODES
    BY <1>5, InodeAssumption DEF Inums
  <2>2. dinode[D].addr \in Blocks
    BY <1>4, <1>i, DirBlocks
  <2>3. entry \in [Blocks -> [Names -> 0 .. NINODES]] /\ bitmap \subseteq Blocks
    BY <1>i DEF TypeOK
  <2>4. [entry[dinode[D].addr] EXCEPT ![n] = I] \in [Names -> 0 .. NINODES]
    BY <2>1, <2>2, <2>3
  <2> QED BY <1>1, <1>7, <2>3, <2>4
<1> QED BY <1>13, <1>14, <1>16, <1>17, <1>19, <1>20, <1>21, <1>22, Whole

LEMMA LinkEntryStep ==
    ASSUME InodeInv, NEW p \in Procs, LinkEntry(p)
    PROVE  InodeInv'
BY LinkEntryNew, LinkEntryExists

-----------------------------------------------------------------------------
(* unlink() clears the entry, and takes the link of ".." back when it is   *)
(* the entry of a directory.                                               *)
UnlinkCleared(p) ==
    LET r == loc[p]
        c == Ilock(icache, r.ip, p)
        d == IF c[r.ip].type = "dir" THEN [c EXCEPT ![r.dp].nlink = @ - 1] ELSE c IN
    /\ At(p, "unlink_ip") /\ Unlocked(r.ip)
    /\ icache' = Iunlock(d, r.dp)
    /\ dinode' = Iupdate(dinode, d, r.dp)
    /\ entry' = [entry EXCEPT ![d[r.dp].addr][Head(r.path)] = 0]
    /\ Step(p, "unlinked", [r EXCEPT !.dp = 0, !.puts = <<r.dp>>])
    /\ ofile' = ofile /\ bitmap' = bitmap

LEMMA UnlinkClearedStep ==
    ASSUME InodeInv, NEW p \in Procs, UnlinkCleared(p)
    PROVE  InodeInv'
<1>i. /\ TypeOK /\ RefCounts /\ ProcsOK /\ FreshOK /\ InodesOK /\ CacheCoherent
      /\ LinksHeld /\ BlocksOwned
  BY DEF InodeInv
<1>r. PICK r : r = loc[p]
  OBVIOUS
<1>s. PICK s : s = r.ip
  OBVIOUS
<1>t. PICK t : t = r.dp
  OBVIOUS
<1>c. PICK c : c = Ilock(icache, s, p)
  OBVIOUS
<1>I. PICK I : I = Inum(p, "ip")
  OBVIOUS
<1>D. PICK D : D = Inum(p, "dp")
  OBVIOUS
<1>n. PICK n : n = Head(r.path)
  OBVIOUS
<1>d. PICK d : d = IF c[s].type = "dir" THEN [c EXCEPT ![t].nlink = @ - 1] ELSE c
  OBVIOUS
<1>e. PICK e : e = Iunlock(d, t)
  OBVIOUS
<1>u. PICK u : u = [r EXCEPT !.dp = 0, !.puts = <<t>>]
  OBVIOUS
<1>1. /\ At(p, "unlink_ip") /\ Unlocked(s) /\ icache' = e /\ dinode' = Iupdate(dinode, d, t)
      /\ entry' = [entry EXCEPT ![d[t].addr][n] = 0] /\ Step(p, "unlinked", u)
      /\ ofile' = ofile /\ bitmap' = bitmap
  BY <1>r, <1>s, <1>t, <1>c, <1>d, <1>e, <1>n, <1>u DEF UnlinkCleared
<1>2. /\ pc[p] = "unlink_ip" /\ r \in LocType /\ r.puts = <<>> /\ r.unref = 0 /\ r.at = 0
      /\ s # 0 /\ r.inum = 0 /\ t # 0
      /\ \A v \in Slots : OwnRefs(ofile[p], r, v) = One(ofile[p] = v) + One(s = v) + One(t = v)
  BY <1>r, <1>s, <1>t, <1>1, AtIs DEF HasIp, HasDp
<1>3. /\ t \in Slots /\ icache[t].inum = D /\ icache[t].ref > 0
      /\ D \in Inums /\ D \in Dirs /\ Public(D) /\ IsDir(D)
  BY <1>r, <1>t, <1>D, <1>2, DpDir
<1>4. s \in Slots /\ icache[s].ref > 0 /\ icache[s].inum = I /\ I \in Inums /\ Public(I)
  <2>1. s = Pointer(p, "ip") /\ "ip" \in Fields
    BY <1>r, <1>s, PointerIs DEF Fields
  <2> QED BY <1>i, <1>I, <1>2, <2>1, PointedPublic
<1>5. /\ icache[t].lock = p /\ icache[t].valid /\ n \in Names
      /\ (r.op \in {"open", "create"} => ofile[p] = 0)
  <2>1. LockOK(p) /\ CallOK(p)
    BY <1>i DEF ProcsOK
  <2>2. r.path \in Seq(Names) /\ r.path # <<>>
    BY <1>r, <1>2, <2>1 DEF CallOK, LocType, Named
  <2>3. n \in Names
    BY <1>n, <2>2
  <2>4. pc[p] \in DpLocked /\ pc[p] # "user"
    BY <1>2 DEF DpLocked
  <2> QED BY <1>r, <1>t, <2>1, <2>3, <2>4 DEF LockOK, CallOK
<1>6. entry[dinode[D].addr][n] = I
  BY <1>r, <1>D, <1>I, <1>n, <1>2 DEF InodeInv, UnlinkOK
<1>7. s # t /\ I # D /\ I # 0
  <2>1. s # t
    BY <1>1, <1>5, InodeAssumption DEF Unlocked
  <2>2. icache[s].inum # icache[t].inum
    BY <1>i, <1>3, <1>4, <2>1 DEF CacheCoherent, Used
  <2> QED BY <1>3, <1>4, <2>1, <2>2 DEF Inums
<1>8. /\ Good(c, dinode) /\ Tame(icache, c, p) /\ \A v \in Slots : c[v].ref = icache[v].ref
      /\ \A v \in Slots : v # s => c[v] = icache[v]
      /\ c[s].lock = p /\ c[s].valid /\ c[s].type = dinode[I].type /\ c[s].inum = I
  <2>1. s = Pointer(p, "ip") /\ "ip" \in Lockable
    BY <1>r, <1>s, PointerIs DEF Lockable
  <2> QED BY <1>c, <1>I, <1>1, <1>2, <2>1, Enter
<1>9. /\ c \in CacheType /\ c[t] \in EntryType /\ c[t].inum = D /\ c[t].ref > 0 /\ c[t].valid
      /\ c[t].lock = p /\ c[t].nlink = dinode[D].nlink /\ c[t].addr = dinode[D].addr
      /\ dinode[D].nlink \in Nat
  <2>1. c \in CacheType /\ c[t] \in EntryType
    BY <1>3, <1>8 DEF Good, CacheType, EntryType
  <2>2. c[t] = icache[t]
    BY <1>3, <1>7, <1>8
  <2>3. Content(c[t]) = dinode[D]
    BY <1>3, <1>5, <1>8, <2>2 DEF Good
  <2>4. c[t].nlink = dinode[D].nlink /\ c[t].addr = dinode[D].addr
    BY <2>3 DEF Content
  <2> QED BY <1>3, <1>5, <1>i, <2>1, <2>2, <2>4 DEF TypeOK, DiskType
<1>10. IsDir(I) => n \in Subdirs(D) /\ dinode[D].nlink >= 1
  <2> SUFFICES ASSUME IsDir(I) PROVE n \in Subdirs(D) /\ dinode[D].nlink >= 1
    OBVIOUS
  <2>1. n \in Subdirs(D)
    BY <1>3, <1>5, <1>6, <1>7 DEF Subdirs
  <2>2. /\ IsFiniteSet(Subdirs(D)) /\ Cardinality(Subdirs(D)) \in Nat
        /\ Cardinality(NamesOf(D)) \in Nat /\ Cardinality(Credits(D)) \in Nat
    BY LinksFinite
  <2>3. Cardinality(Subdirs(D)) # 0
    BY <2>1, <2>2, FS_EmptySet
  <2>4. Cardinality(NamesOf(D)) + Cardinality(Subdirs(D)) + Cardinality(Credits(D)) <= dinode[D].nlink
    BY <1>i, <1>3 DEF LinksHeld
  <2> QED BY <1>9, <2>1, <2>2, <2>3, <2>4
<1>11. PICK m : m = IF IsDir(I) THEN dinode[D].nlink - 1 ELSE dinode[D].nlink
  OBVIOUS
<1>12. m \in Nat
  BY <1>9, <1>10, <1>11
<1>13. d = [c EXCEPT ![t].nlink = m]
  <2>1. CASE IsDir(I)
    <3>1. c[s].type = "dir"
      BY <1>8, <2>1 DEF IsDir
    <3> QED BY <1>d, <1>9, <1>11, <1>3, <2>1, <3>1 DEF CacheType
  <2>2. CASE ~IsDir(I)
    <3>1. d = c /\ m = c[t].nlink
      BY <1>d, <1>8, <1>9, <1>11, <2>2 DEF IsDir
    <3>2. c[t] = [c[t] EXCEPT !.nlink = m]
      BY <1>9, <3>1 DEF EntryType
    <3>3. c = [c EXCEPT ![t] = [c[t] EXCEPT !.nlink = m]]
      BY <1>3, <1>9, <3>2 DEF CacheType
    <3> QED BY <1>9, <3>1, <3>3 DEF CacheType
  <2> QED BY <2>1, <2>2
<1>14. Relinked(c, dinode, t, m, d, dinode')
  <2>1. Relinks(c, dinode, t, m, d, dinode')
    BY <1>1, <1>3, <1>8, <1>9, <1>12, <1>13 DEF Relinks
  <2> QED BY <2>1, NlinkIs
<1>15. /\ Good(d, dinode') /\ Tame(c, d, p) /\ \A v \in Slots : v # t => d[v] = c[v]
       /\ d[t].ref = c[t].ref /\ d[t].lock = p /\ d[t].addr = dinode[D].addr
       /\ dinode'[D].nlink = m /\ dinode'[D].type = dinode[D].type
       /\ dinode'[D].addr = dinode[D].addr
       /\ \A j \in Inums : j # D => dinode'[j] = dinode[j]
  BY <1>9, <1>14 DEF Relinked
<1>16. entry' = [entry EXCEPT ![dinode[D].addr][n] = 0]
  BY <1>1, <1>15
<1>17. /\ Good(e, dinode') /\ Tame(icache, e, p) /\ \A v \in Slots : e[v].ref = icache[v].ref
       /\ e[s].lock = p /\ e[s].valid /\ e[s].inum = I
  <2>1. Tame(icache, d, p)
    BY <1>8, <1>15, TameTrans
  <2>2. \A v \in Slots : d[v].ref = icache[v].ref
    BY <1>8, <1>15
  <2>3. /\ Good(e, dinode') /\ Tame(icache, e, p) /\ \A v \in Slots : e[v].ref = d[v].ref
    BY <1>e, <1>3, <1>15, <2>1, Release
  <2>4. e[s] = d[s]
    BY <1>e, <1>3, <1>4, <1>7, <1>15 DEF Iunlock, Good, CacheType
  <2>5. d[s] = c[s]
    BY <1>4, <1>7, <1>15
  <2> QED BY <1>8, <2>2, <2>3, <2>4, <2>5
<1>18. /\ u \in LocType /\ u.op = r.op /\ u.at = 0 /\ u.ip = s /\ u.dp = 0
       /\ u.inum = 0 /\ u.puts = <<t>> /\ u.unref = 0
  <2>1. <<t>> \in Seq(Slots) /\ 0 \in 0 .. NINODE
    BY <1>3, InodeAssumption
  <2> QED BY <1>u, <1>s, <1>2, <2>1 DEF LocType
<1>19. LastOf(u.puts) = t /\ BeforeOf(u.puts) = 0 /\ Len(u.puts) = 1
  BY <1>18, PutsAre
<1>20. CallAt("unlinked", u, ofile[p]) /\ LocksAt("unlinked", u, e, p) /\ CreditAt("unlinked", u)
  <2>1. "unlinked" \in Places /\ CreditAt("unlinked", u)
    BY DEF Places, CreditAt
  <2>2. LocksAt("unlinked", u, e, p)
    BY <1>17, <1>18 DEF LocksAt, DpLocked
  <2>3. u.ip # 0 /\ Len(u.puts) <= 1 /\ (u.op \in {"open", "create"} => ofile[p] = 0)
    BY <1>2, <1>5, <1>18, <1>19
  <2>4. u \in LocType /\ u.at = 0 /\ u.dp = 0 /\ u.inum = 0 /\ Len(u.puts) <= 2
    BY <1>18, <1>19
  <2> QED BY <2>1, <2>2, <2>3, <2>4 DEF CallAt, HasIp, HasDp, Named, Making
<1>21. CountsAt(u, e, p)
  <2>1. ASSUME NEW v \in Slots
        PROVE  e[v].ref = icache[v].ref + OwnRefs(ofile[p], u, v) - OwnRefs(ofile[p], r, v)
    <3>1. v # 0 /\ icache[v].ref \in Nat /\ e[v].ref = icache[v].ref
      BY <1>i, <1>17, SlotSeq DEF TypeOK, CacheType
    <3>2. OwnRefs(ofile[p], u, v) = One(ofile[p] = v) + One(s = v) + One(t = v)
      <4>1. u.at = 0 /\ u.ip = s /\ u.dp = 0 /\ u.unref = 0
        BY <1>18
      <4> QED BY <1>19, <3>1, <4>1 DEF OwnRefs, One
    <3>3. OwnRefs(ofile[p], r, v) = One(ofile[p] = v) + One(s = v) + One(t = v)
      BY <1>2
    <3> QED BY <3>1, <3>2, <3>3 DEF One
  <2> QED BY <1>r, <2>1 DEF CountsAt
<1>22. /\ Moves(p) /\ pc'[p] = "unlinked" /\ loc'[p] = u
       /\ RefCounts' /\ CallOK(p)' /\ LockOK(p)' /\ Credit(p)'
  BY <1>1, <1>17, <1>20, <1>21, MiddleIs
<1>23. Calm(icache, icache', p) /\ Spares(p) /\ Good(icache', dinode')
  BY <1>i, <1>1, <1>17, TameCalm, CalmSpares
<1>24. MayPoint(p)
  BY <1>r, <1>s, <1>t, <1>1, <1>18, <1>19, <1>22 DEF MayPoint, May, HeldBy
<1>25. /\ \A j \in Inums : dinode'[j].type = dinode[j].type /\ dinode'[j].addr = dinode[j].addr
       /\ \A q \in Procs, j \in Inums : Creating(q, j) => dinode'[j] = dinode[j]
       /\ \A j \in Inums : dinode[j].type = "none" => dinode'[j] = dinode[j]
  <2>1. dinode[D].type # "none" /\ \A q \in Procs : ~Creating(q, D)
    BY <1>3 DEF Public, Alloc
  <2> QED BY <1>15, <2>1
<1>26. ProcsOK' /\ FreshOK' /\ \A j : ~Creating(p, j) /\ ~Creating(p, j)'
  <2>1. loc'[p].dp = 0 /\ pc[p] \notin {"ialloc", "new"} /\ pc'[p] \notin {"ialloc", "new"}
    BY <1>2, <1>18, <1>22
  <2> QED BY <1>22, <1>23, <1>24, <1>25, <2>1, Steady
<1>27. /\ Alloc' = Alloc /\ Dirs' = Dirs /\ \A j \in Inums : IsDir(j)' <=> IsDir(j)
       /\ ROOTINO \in Dirs'
       /\ \A j \in Inums : dinode'[j].type = "none" => dinode'[j] = FreeInode
       /\ \A j \in Inums : dinode'[j].type = "dir" =>
             dinode'[j].addr # 0 \/ \E q \in Procs : Creating(q, j)'
  BY <1>22, <1>23, <1>25, <1>26, DirsStay
<1>28. \A h \in Dirs : OldDir(h, D, n, 0)
  <2>1. Dirs \subseteq Inums
    BY DEF Dirs, Alloc
  <2> QED BY <1>3, <1>5, <1>16, <1>25, <2>1, SetEntry
<1>29. LinksHeld'
  <2> SUFFICES ASSUME NEW j \in Inums
               PROVE  Cardinality(NamesOf(j)') + Cardinality(Subdirs(j)') + Cardinality(Credits(j)')
                         <= dinode'[j].nlink
    BY DEF LinksHeld
  <2>0. j # 0
    BY DEF Inums
  <2> DEFINE x == <<dinode[D].addr, n>>
  <2>1. /\ j # 0 => NamesOf(j)' \subseteq NamesOf(j) \ {x}
        /\ Subdirs(j)' \subseteq Subdirs(j)
        /\ j = D => Subdirs(j)' \subseteq Subdirs(j) \ {n}
    <3>1. \A h \in Dirs' : OldDir(h, D, n, 0)
      BY <1>27, <1>28
    <3>2. \A h \in Alloc : IsDir(h)' => IsDir(h)
      BY <1>27 DEF Alloc
    <3>3. LET y == <<dinode[D].addr, n>> IN
          /\ j # 0 => NamesOf(j)' \subseteq NamesOf(j) \ {y}
          /\ 0 = 0 \/ ~IsDir(0) => Subdirs(j)' \subseteq Subdirs(j)
          /\ j = D /\ 0 = 0 => Subdirs(j)' \subseteq Subdirs(j) \ {n}
      BY <1>3, <1>5, <3>1, <3>2, EntrySet
    <3> QED BY <3>3
  <2>2. x \in NamesOf(I)
    BY <1>3, <1>5, <1>6 DEF NamesOf
  <2> HIDE DEF x
  <2>3. NamesOf(j)' \subseteq NamesOf(j) \ {x}
    BY <2>0, <2>1
  <2>4. /\ Credits(j)' \subseteq Credits(j) \cup {p}
        /\ j # I => Credits(j)' \subseteq Credits(j) \ {p}
    <3>1. Pointer(p, "ip")' = s
      BY <1>18, <1>22 DEF Pointer
    <3>2. Inum(p, "ip")' = I
      BY <1>1, <1>2, <1>17, <3>1 DEF Inum
    <3> QED BY <1>22, <1>23, <3>2, CreditsThen
  <2>5. CASE j = I
    <3>1. dinode'[j].nlink = dinode[j].nlink /\ dinode[j].nlink \in Nat
      BY <1>7, <1>15, <1>i, <2>5 DEF TypeOK, DiskType
    <3>2. /\ Within(NamesOf(j)', NamesOf(j), -1) /\ Within(Subdirs(j)', Subdirs(j), 0)
          /\ Within(Credits(j)', Credits(j), 1)
      BY <2>1, <2>2, <2>3, <2>4, <2>5 DEF Within
    <3>3. dinode[j].nlink + (-1) + 0 + 1 <= dinode'[j].nlink
      BY <3>1
    <3> QED BY <1>i, <3>1, <3>2, <3>3, LinksStep
  <2>6. CASE j = D
    <3>1. Within(NamesOf(j)', NamesOf(j), 0) /\ Within(Credits(j)', Credits(j), 0)
      BY <1>7, <2>3, <2>4, <2>6 DEF Within
    <3>2. dinode'[j].nlink = m /\ dinode[j].nlink = dinode[D].nlink
      BY <1>15, <2>6
    <3>3. CASE IsDir(I)
      <4>1. Within(Subdirs(j)', Subdirs(j), -1)
        BY <1>10, <2>1, <2>6, <3>3 DEF Within
      <4>2. dinode[j].nlink + 0 + (-1) + 0 <= dinode'[j].nlink
        BY <1>9, <1>11, <3>2, <3>3
      <4> QED BY <1>12, <1>i, <3>1, <3>2, <4>1, <4>2, LinksStep
    <3>4. CASE ~IsDir(I)
      <4>1. Within(Subdirs(j)', Subdirs(j), 0)
        BY <2>1 DEF Within
      <4>2. dinode[j].nlink + 0 + 0 + 0 <= dinode'[j].nlink
        BY <1>9, <1>11, <3>2, <3>4
      <4> QED BY <1>12, <1>i, <3>1, <3>2, <4>1, <4>2, LinksStep
    <3> QED BY <3>3, <3>4
  <2>7. CASE j # I /\ j # D
    <3>1. dinode'[j].nlink = dinode[j].nlink /\ dinode[j].nlink \in Nat
      BY <1>15, <1>i, <2>7 DEF TypeOK, DiskType
    <3>2. /\ Within(NamesOf(j)', NamesOf(j), 0) /\ Within(Subdirs(j)', Subdirs(j), 0)
          /\ Within(Credits(j)', Credits(j), 0)
      BY <2>1, <2>3, <2>4, <2>7 DEF Within
    <3>3. dinode[j].nlink + 0 + 0 + 0 <= dinode'[j].nlink
      BY <3>1
    <3> QED BY <1>i, <3>1, <3>2, <3>3, LinksStep
  <2> QED BY <2>5, <2>6, <2>7
<1>30. BlocksOwned'
  BY <1>1, <1>i, <1>25, BlocksStay
<1>31. UnlinkOK'
  <2>1. \A v \in Slots : icache[v].ref > 0 => icache'[v].inum = icache[v].inum
    BY <1>23 DEF Calm
  <2>2. pc'[p] # "unlink_ip" /\ \A h \in Dirs : h \in Inums
    BY <1>22 DEF Dirs, Alloc
  <2>3. \A q \in Procs : pc'[q] = "unlink_ip" /\ pc[q] = "unlink_ip" =>
           /\ dinode'[Inum(q, "dp")].addr = dinode[Inum(q, "dp")].addr
           /\ entry'[dinode[Inum(q, "dp")].addr][Head(loc[q].path)]
                = entry[dinode[Inum(q, "dp")].addr][Head(loc[q].path)]
    <3> SUFFICES ASSUME NEW q \in Procs, pc'[q] = "unlink_ip", pc[q] = "unlink_ip"
                 PROVE  /\ dinode'[Inum(q, "dp")].addr = dinode[Inum(q, "dp")].addr
                        /\ entry'[dinode[Inum(q, "dp")].addr][Head(loc[q].path)]
                             = entry[dinode[Inum(q, "dp")].addr][Head(loc[q].path)]
      OBVIOUS
    <3>1. /\ Inum(q, "dp") \in Dirs /\ Inum(q, "dp") # D /\ Head(loc[q].path) \in Names
      BY <1>3, <1>5, <2>2, NotAt
    <3> QED BY <1>25, <1>28, <2>2, <3>1 DEF OldDir
  <2> QED BY <1>22, <2>1, <2>2, <2>3, UnlinkThen
<1>32. bitmap' \subseteq Blocks /\ entry' \in [Blocks -> [Names -> 0 .. NINODES]]
  <2>1. 0 \in 0 .. NINODES
    BY InodeAssumption
  <2>2. dinode[D].addr \in Blocks
    BY <1>3, <1>i, DirBlocks
  <2>3. entry \in [Blocks -> [Names -> 0 .. NINODES]] /\ bitmap \subseteq Blocks
    BY <1>i DEF TypeOK
  <2>4. [entry[dinode[D].addr] EXCEPT ![n] = 0] \in [Names -> 0 .. NINODES]
    BY <2>1, <2>2, <2>3
  <2> QED BY <1>1, <1>16, <2>3, <2>4
<1> QED BY <1>22, <1>23, <1>26, <1>27, <1>29, <1>30, <1>31, <1>32, Whole

LEMMA UnlinkEntryStep ==
    ASSUME InodeInv, NEW p \in Procs, UnlinkEntry(p)
    PROVE  InodeInv'
<1>1. UnlinkRefused(p) \/ UnlinkCleared(p)
  BY DEF UnlinkEntry, UnlinkRefused, UnlinkCleared, disk
<1> QED BY <1>1, UnlinkRefusedStep, UnlinkClearedStep

-----------------------------------------------------------------------------
(* The cache after create() has filled in the new inode and the link of    *)
(* "..": one entry at a time.                                              *)
Fills(k, r, s, t, b, m, x, g, c) ==
    /\ k \in CacheType /\ s \in Slots /\ s = r.ip /\ t \in Slots /\ t = r.dp /\ s # t
    /\ m = IF r.op = "mkdir" THEN k[t].nlink + 1 ELSE k[t].nlink
    /\ x = [k[s] EXCEPT !.nlink = 1, !.addr = b] /\ g = [k EXCEPT ![s] = x]
    /\ c = [NewLinks(k, r) EXCEPT ![s].addr = b]

LEMMA NewEntries ==
    ASSUME NEW k, NEW r, NEW s, NEW t, NEW b, NEW m, NEW x, NEW g, NEW c,
           Fills(k, r, s, t, b, m, x, g, c)
    PROVE  c = [g EXCEPT ![t].nlink = m]
<1> USE DEF Fills
<1>1. PICK h : h = NewLinks(k, r)
  OBVIOUS
<1>2. h = [k EXCEPT ![s] = [k[s] EXCEPT !.nlink = 1], ![t] = [k[t] EXCEPT !.nlink = m]]
  BY <1>1 DEF NewLinks, CacheType
<1>3. /\ h = [v \in Slots |-> IF v = s THEN [k[s] EXCEPT !.nlink = 1]
                              ELSE IF v = t THEN [k[t] EXCEPT !.nlink = m] ELSE k[v]]
  BY <1>2 DEF CacheType
<1>4. [h EXCEPT ![s].addr = b]
         = [v \in Slots |-> IF v = s THEN x ELSE IF v = t THEN [k[t] EXCEPT !.nlink = m] ELSE k[v]]
  <2>1. [h[s] EXCEPT !.addr = b] = x
    <3>1. h[s] = [k[s] EXCEPT !.nlink = 1] /\ k[s] \in EntryType
      BY <1>3 DEF CacheType, EntryType
    <3> QED BY <3>1 DEF EntryType
  <2> QED BY <1>3, <2>1
<1>5. [g EXCEPT ![t].nlink = m]
         = [v \in Slots |-> IF v = s THEN x ELSE IF v = t THEN [k[t] EXCEPT !.nlink = m] ELSE k[v]]
  BY DEF CacheType
<1> QED BY <1>1, <1>4, <1>5

(* create() gives the new inode its link, its entry and, when it is a      *)
(* directory, its block and the link of its "..".                          *)
Made(r, b, n, s, t, c) ==
    /\ icache' = Iunlock(c, t)
    /\ dinode' = Iupdate(Iupdate(dinode, c, s), c, t)
    /\ bitmap' = bitmap \cup ({b} \ {0})
    /\ entry' = [z \in Blocks |->
                   IF z = b THEN NoEntries
                   ELSE IF z = c[t].addr THEN [entry[z] EXCEPT ![n] = c[s].inum]
                   ELSE entry[z]]
Makes(p, r, b) ==
    /\ At(p, "new") /\ Unlocked(r.ip) /\ (r.op = "mkdir" => CanBalloc)
    /\ Made(r, b, Head(r.path), r.ip, r.dp,
            [NewLinks(Ilock(icache, r.ip, p), r) EXCEPT ![r.ip].addr = b])
    /\ Step(p, "created", [r EXCEPT !.dp = 0, !.puts = <<r.dp>>]) /\ ofile' = ofile

LEMMA CreateNewStep ==
    ASSUME InodeInv, NEW p \in Procs, CreateNew(p)
    PROVE  InodeInv'
<1>i. /\ TypeOK /\ RefCounts /\ ProcsOK /\ FreshOK /\ InodesOK /\ CacheCoherent
      /\ LinksHeld /\ BlocksOwned
  BY DEF InodeInv
<1>r. PICK r : r = loc[p]
  OBVIOUS
<1>s. PICK s : s = r.ip
  OBVIOUS
<1>t. PICK t : t = r.dp
  OBVIOUS
<1>k. PICK k : k = Ilock(icache, s, p)
  OBVIOUS
<1>b. PICK b : b = IF r.op = "mkdir" THEN Balloc(bitmap) ELSE 0
  OBVIOUS
<1>c. PICK c : c = [NewLinks(k, r) EXCEPT ![s].addr = b]
  OBVIOUS
<1>e. PICK e : e = Iunlock(c, t)
  OBVIOUS
<1>I. PICK I : I = Inum(p, "ip")
  OBVIOUS
<1>D. PICK D : D = Inum(p, "dp")
  OBVIOUS
<1>n. PICK n : n = Head(r.path)
  OBVIOUS
<1>u. PICK u : u = [r EXCEPT !.dp = 0, !.puts = <<t>>]
  OBVIOUS
<1>1. /\ At(p, "new") /\ Unlocked(s) /\ (r.op = "mkdir" => CanBalloc)
      /\ icache' = e /\ dinode' = Iupdate(Iupdate(dinode, c, s), c, t)
      /\ bitmap' = bitmap \cup ({b} \ {0})
      /\ entry' = [z \in Blocks |->
                     IF z = b THEN NoEntries
                     ELSE IF z = c[t].addr THEN [entry[z] EXCEPT ![n] = c[s].inum]
                     ELSE entry[z]]
      /\ Step(p, "created", u) /\ ofile' = ofile
  <2>1. Makes(p, loc[p], IF loc[p].op = "mkdir" THEN Balloc(bitmap) ELSE 0)
    BY DEF CreateNew, Makes, Made
  <2>2. Makes(p, r, b)
    BY <1>r, <1>b, <2>1
  <2>3. /\ At(p, "new") /\ Unlocked(s) /\ (r.op = "mkdir" => CanBalloc)
        /\ Made(r, b, n, s, t, c) /\ Step(p, "created", u) /\ ofile' = ofile
    BY <1>s, <1>t, <1>k, <1>c, <1>n, <1>u, <2>2 DEF Makes
  <2> QED BY <1>e, <2>3 DEF Made
<1>2. /\ pc[p] = "new" /\ r \in LocType /\ r.puts = <<>> /\ r.unref = 0 /\ r.at = 0
      /\ s # 0 /\ r.inum = 0 /\ t # 0
      /\ \A v \in Slots : OwnRefs(ofile[p], r, v) = One(ofile[p] = v) + One(s = v) + One(t = v)
  BY <1>r, <1>s, <1>t, <1>1, AtIs DEF HasIp, HasDp
<1>3. /\ t \in Slots /\ icache[t].inum = D /\ icache[t].ref > 0
      /\ D \in Inums /\ D \in Dirs /\ Public(D) /\ IsDir(D)
  BY <1>r, <1>t, <1>D, <1>2, DpDir
<1>4. /\ s = Pointer(p, "ip") /\ "ip" \in Fields /\ "ip" \in Lockable
      /\ s \in Slots /\ icache[s].ref > 0 /\ icache[s].inum = I
      /\ I \in Inums /\ I \in Alloc /\ I # 0
  <2>1. s = Pointer(p, "ip") /\ "ip" \in Fields /\ "ip" \in Lockable
    BY <1>r, <1>s, PointerIs DEF Fields, Lockable
  <2>2. s \in Slots /\ icache[s].ref > 0
    BY <1>i, <1>2, <2>1, Pinned DEF Used
  <2>3. icache[s].inum = I
    BY <1>I, <1>2, <2>1 DEF Inum
  <2>4. PointerOK(p)
    BY <1>i DEF ProcsOK
  <2>5. I \in Alloc
    BY <1>I, <1>2, <2>1, <2>4 DEF PointerOK
  <2> QED BY <2>1, <2>2, <2>3, <2>5 DEF Alloc, Inums
<1>5. /\ icache[t].lock = p /\ icache[t].valid /\ n \in Names
      /\ r.op \in {"create", "mkdir", "mknod"}
      /\ (r.op \in {"open", "create"} => ofile[p] = 0)
  <2>1. LockOK(p) /\ CallOK(p)
    BY <1>i DEF ProcsOK
  <2>2. r.path \in Seq(Names) /\ r.path # <<>>
    BY <1>r, <1>2, <2>1 DEF CallOK, LocType, Named
  <2>3. n \in Names
    BY <1>n, <2>2
  <2>4. pc[p] \in DpLocked /\ pc[p] # "user" /\ pc[p] \in Making
    BY <1>2 DEF DpLocked, Making
  <2> QED BY <1>r, <1>t, <2>1, <2>3, <2>4 DEF LockOK, CallOK
(* Nobody else has the new inode. *)
<1>6. /\ dinode[I] = [FreeInode EXCEPT !.type = Type(r)]
      /\ \A q \in Procs : Creating(q, I) => q = p
      /\ \A j \in Inums : Creating(p, j) => j = I
      /\ Creating(p, I)
  <2>1. Creating(p, I) /\ \A j \in Inums : Creating(p, j) => j = I
    BY <1>I, <1>2 DEF Creating
  <2> QED BY <1>i, <1>r, <1>4, <2>1 DEF FreshOK
<1>7. /\ dinode[I].type = Type(r) /\ dinode[I].nlink = 0 /\ dinode[I].addr = 0
      /\ Type(r) \in Types /\ (IsDir(I) <=> r.op = "mkdir")
  <2>1. dinode[I].type = Type(r) /\ dinode[I].nlink = 0 /\ dinode[I].addr = 0
    BY <1>6 DEF FreeInode
  <2>2. Type(r) \in Types /\ (Type(r) = "dir" <=> r.op = "mkdir")
    BY <1>5 DEF Type, Types
  <2> QED BY <2>1, <2>2 DEF IsDir
<1>8. s # t /\ I # D
  <2>1. s # t
    BY <1>1, <1>5, InodeAssumption DEF Unlocked
  <2>2. icache[s].inum # icache[t].inum
    BY <1>i, <1>3, <1>4, <2>1 DEF CacheCoherent, Used
  <2> QED BY <1>3, <1>4, <2>1, <2>2
<1>9. /\ b = 0 \/ b \in Blocks \ bitmap
      /\ b \in 0 .. NBLOCKS /\ (IsDir(I) => b \in Blocks /\ b # 0) /\ (b = 0 \/ IsDir(I))
      /\ b \notin bitmap
  <2>1. CASE r.op = "mkdir"
    <3>1. b \in Blocks /\ b \notin bitmap /\ b # 0
      BY <1>i, <1>b, <1>1, <2>1, BallocIs
    <3> QED BY <1>7, <2>1, <3>1, InodeAssumption DEF Blocks
  <2>2. CASE r.op # "mkdir"
    <3>1. b = 0 /\ 0 \notin bitmap
      BY <1>b, <1>i, <2>2 DEF TypeOK, Blocks
    <3> QED BY <1>7, <2>2, <3>1, InodeAssumption
  <2> QED BY <2>1, <2>2
<1>10. /\ Good(k, dinode) /\ Tame(icache, k, p) /\ \A v \in Slots : k[v].ref = icache[v].ref
       /\ \A v \in Slots : v # s => k[v] = icache[v]
       /\ k[s].lock = p /\ k[s].valid /\ k[s].inum = I /\ k[s].type = Type(r)
  BY <1>k, <1>I, <1>1, <1>2, <1>4, <1>7, Enter
<1>11. /\ k \in CacheType /\ k[s] \in EntryType /\ k[s].ref > 0
  BY <1>4, <1>10 DEF Good, CacheType, EntryType
<1>12. /\ k[t] = icache[t] /\ k[t].nlink = dinode[D].nlink /\ k[t].addr = dinode[D].addr
       /\ dinode[D].nlink \in Nat
  <2>1. k[t] = icache[t]
    BY <1>3, <1>8, <1>10
  <2>2. Content(k[t]) = dinode[D]
    BY <1>3, <1>5, <1>10, <2>1 DEF Good
  <2>3. k[t].nlink = dinode[D].nlink /\ k[t].addr = dinode[D].addr
    BY <2>2 DEF Content
  <2> QED BY <1>3, <1>i, <2>1, <2>3 DEF TypeOK, DiskType
(* First the new inode, *)
<1>13. PICK x : x = [k[s] EXCEPT !.nlink = 1, !.addr = b]
  OBVIOUS
<1>14. PICK g : g = [k EXCEPT ![s] = x]
  OBVIOUS
<1>15. PICK G : G = [dinode EXCEPT ![I] = Content(x)]
  OBVIOUS
<1>16. /\ x \in EntryType /\ x.inum = I /\ x.ref = k[s].ref /\ x.lock = p /\ x.valid = TRUE
       /\ x.type = Type(r) /\ x.nlink = 1 /\ x.addr = b
  BY <1>9, <1>10, <1>11, <1>13 DEF EntryType
<1>17. /\ Good(g, G) /\ g[s] = x /\ \A v \in Slots : v # s => g[v] = k[v]
       /\ Tame(k, g, p) /\ G[I] = Content(x) /\ \A j \in Inums : j # I => G[j] = dinode[j]
  <2>1. x.type # "none"
    BY <1>7, <1>16 DEF Types
  <2>2. Updates(k, dinode, s, x, g, G)
    BY <1>4, <1>10, <1>11, <1>14, <1>15, <1>16, <2>1 DEF Updates
  <2>3. /\ Good(g, G) /\ g[s] = x /\ \A v \in Slots : v # s => g[v] = k[v]
        /\ \A q : Tame(k, g, q) /\ G[k[s].inum] = Content(x)
        /\ \A j \in Inums : j # k[s].inum => G[j] = dinode[j]
    BY <2>2, IupdateIs
  <2> QED BY <1>10, <2>3
(* then the directory. *)
<1>18. PICK m : m = IF IsDir(I) THEN dinode[D].nlink + 1 ELSE dinode[D].nlink
  OBVIOUS
<1>19. m \in Nat
  BY <1>12, <1>18
<1>20. c = [g EXCEPT ![t].nlink = m]
  <2>1. m = IF r.op = "mkdir" THEN k[t].nlink + 1 ELSE k[t].nlink
    BY <1>7, <1>12, <1>18
  <2>2. Fills(k, r, s, t, b, m, x, g, c)
    BY <1>c, <1>s, <1>t, <1>3, <1>4, <1>8, <1>11, <1>13, <1>14, <2>1 DEF Fills
  <2> QED BY <2>2, NewEntries
<1>21. c[s] = x
  BY <1>3, <1>4, <1>8, <1>17, <1>20 DEF Good, CacheType
<1>22. Iupdate(dinode, c, s) = G
  BY <1>15, <1>16, <1>21 DEF Iupdate
<1>23. Relinked(g, G, t, m, c, dinode')
  <2>1. g[t] = icache[t]
    BY <1>3, <1>8, <1>12, <1>17
  <2>2. dinode' = Iupdate(G, c, t)
    BY <1>1, <1>22
  <2>3. Relinks(g, G, t, m, c, dinode')
    BY <1>3, <1>5, <1>17, <1>19, <1>20, <2>1, <2>2 DEF Relinks
  <2> QED BY <2>3, NlinkIs
<1>24. /\ Good(c, dinode') /\ Tame(g, c, p) /\ \A v \in Slots : v # t => c[v] = g[v]
       /\ c[t].ref = icache[t].ref /\ c[t].lock = p /\ c[t].addr = dinode[D].addr
       /\ dinode'[D].nlink = m /\ dinode'[D].type = dinode[D].type
       /\ dinode'[D].addr = dinode[D].addr
       /\ \A j \in Inums : j # D => dinode'[j] = G[j]
  <2>1. g[t] = icache[t] /\ g[t].addr = dinode[D].addr /\ g[t].inum = D /\ g[t].lock = p
    BY <1>3, <1>5, <1>8, <1>12, <1>17
  <2>2. G[D] = dinode[D]
    BY <1>3, <1>8, <1>17
  <2> QED BY <1>23, <2>1, <2>2 DEF Relinked
<1>25. /\ \A j \in Inums : j # I /\ j # D => dinode'[j] = dinode[j]
       /\ dinode'[I].type = Type(r) /\ dinode'[I].nlink = 1 /\ dinode'[I].addr = b
  <2>1. dinode'[I] = Content(x)
    BY <1>4, <1>8, <1>17, <1>24
  <2> QED BY <1>16, <1>17, <1>24, <2>1 DEF Content
<1>26. entry' = [z \in Blocks |->
                   IF z = b THEN NoEntries
                   ELSE IF z = dinode[D].addr THEN [entry[z] EXCEPT ![n] = I]
                   ELSE entry[z]]
  <2>1. c[t].addr = dinode[D].addr /\ c[s].inum = I
    BY <1>16, <1>21, <1>24
  <2> QED BY <1>1, <2>1
<1>27. /\ Good(e, dinode') /\ Tame(icache, e, p) /\ \A v \in Slots : e[v].ref = icache[v].ref
       /\ e[s].lock = p /\ e[s].valid /\ e[s].inum = I
  <2>1. Tame(icache, c, p)
    <3>1. Tame(icache, g, p)
      BY <1>10, <1>17, TameTrans
    <3> QED BY <1>24, <3>1, TameTrans
  <2>2. \A v \in Slots : c[v].ref = icache[v].ref
    <3>1. \A v \in Slots : g[v].ref = icache[v].ref
      BY <1>10, <1>16, <1>17
    <3> QED BY <1>24, <3>1
  <2>3. /\ Good(e, dinode') /\ Tame(icache, e, p) /\ \A v \in Slots : e[v].ref = c[v].ref
    BY <1>e, <1>3, <1>24, <2>1, Release
  <2>4. e[s] = c[s]
    BY <1>e, <1>3, <1>4, <1>8, <1>24 DEF Iunlock, Good, CacheType
  <2> QED BY <1>16, <1>21, <2>2, <2>3, <2>4
<1>28. /\ u \in LocType /\ u.op = r.op /\ u.at = 0 /\ u.ip = s /\ u.dp = 0
       /\ u.inum = 0 /\ u.puts = <<t>> /\ u.unref = 0
  <2>1. <<t>> \in Seq(Slots) /\ 0 \in 0 .. NINODE
    BY <1>3, InodeAssumption
  <2> QED BY <1>u, <1>s, <1>2, <2>1 DEF LocType
<1>29. LastOf(u.puts) = t /\ BeforeOf(u.puts) = 0 /\ Len(u.puts) = 1
  BY <1>28, PutsAre
<1>30. CallAt("created", u, ofile[p]) /\ LocksAt("created", u, e, p) /\ ~CreditAt("created", u)
  <2>1. "created" \in Places /\ ~CreditAt("created", u)
    BY DEF Places, CreditAt
  <2>2. LocksAt("created", u, e, p)
    BY <1>27, <1>28 DEF LocksAt, DpLocked
  <2>3. /\ u.ip # 0 /\ Len(u.puts) <= 1 /\ (u.op \in {"open", "create"} => ofile[p] = 0)
        /\ u.op \in {"create", "mkdir", "mknod"}
    BY <1>2, <1>5, <1>28, <1>29
  <2>4. u \in LocType /\ u.at = 0 /\ u.dp = 0 /\ u.inum = 0 /\ Len(u.puts) <= 2
    BY <1>28, <1>29
  <2> QED BY <2>1, <2>2, <2>3, <2>4 DEF CallAt, HasIp, HasDp, Named, Making
<1>31. CountsAt(u, e, p)
  <2>1. ASSUME NEW v \in Slots
        PROVE  e[v].ref = icache[v].ref + OwnRefs(ofile[p], u, v) - OwnRefs(ofile[p], r, v)
    <3>1. v # 0 /\ icache[v].ref \in Nat /\ e[v].ref = icache[v].ref
      BY <1>i, <1>27, SlotSeq DEF TypeOK, CacheType
    <3>2. OwnRefs(ofile[p], u, v) = One(ofile[p] = v) + One(s = v) + One(t = v)
      <4>1. u.at = 0 /\ u.ip = s /\ u.dp = 0 /\ u.unref = 0
        BY <1>28
      <4> QED BY <1>29, <3>1, <4>1 DEF OwnRefs, One
    <3>3. OwnRefs(ofile[p], r, v) = One(ofile[p] = v) + One(s = v) + One(t = v)
      BY <1>2
    <3> QED BY <3>1, <3>2, <3>3 DEF One
  <2> QED BY <1>r, <2>1 DEF CountsAt
<1>32. /\ Moves(p) /\ pc'[p] = "created" /\ loc'[p] = u
       /\ RefCounts' /\ CallOK(p)' /\ LockOK(p)' /\ ~Credit(p)'
  BY <1>1, <1>27, <1>30, <1>31, MiddleIs
<1>33. Calm(icache, icache', p) /\ Spares(p) /\ Good(icache', dinode')
  BY <1>i, <1>1, <1>27, TameCalm, CalmSpares
<1>34. /\ \A j \in Inums : dinode'[j].type = dinode[j].type
       /\ \A j \in Inums : j # I => dinode'[j].addr = dinode[j].addr
       /\ Alloc' = Alloc /\ \A j \in Inums : IsDir(j)' <=> IsDir(j)
  <2>1. \A j \in Inums : dinode'[j].type = dinode[j].type
    BY <1>7, <1>24, <1>25
  <2> QED BY <1>24, <1>25, <2>1 DEF Alloc, IsDir
(* What p points to is what it pointed to. *)
<1>35. \A f \in Fields :
          \/ Pointer(p, f)' = 0 /\ Inum(p, f)' = 0
          \/ \E h \in Fields : h # "unref" /\ Pointer(p, h) # 0 /\ Inum(p, f)' = Inum(p, h)
  <2>1. /\ Pointer(p, "ip")' = s /\ Pointer(p, "dp")' = 0 /\ Pointer(p, "ofile")' = ofile[p]
        /\ Pointer(p, "at")' = 0 /\ Pointer(p, "unref")' = 0
        /\ Pointer(p, "last")' = t /\ Pointer(p, "before")' = 0
    <3>1. /\ Pointer(p, "ip")' = loc'[p].ip /\ Pointer(p, "dp")' = loc'[p].dp
          /\ Pointer(p, "ofile")' = ofile'[p] /\ Pointer(p, "at")' = loc'[p].at
          /\ Pointer(p, "unref")' = loc'[p].unref /\ Pointer(p, "last")' = LastOf(loc'[p].puts)
          /\ Pointer(p, "before")' = BeforeOf(loc'[p].puts)
      BY DEF Pointer, LastOf, BeforeOf
    <3> QED BY <1>1, <1>28, <1>29, <1>32, <3>1
  <2>2. Inum(p, "ip")' = I
    BY <1>1, <1>2, <1>27, <2>1 DEF Inum
  <2>3. icache'[t].inum = D
    BY <1>3, <1>33 DEF Calm
  <2>4. Inum(p, "last")' = D
    BY <1>2, <2>1, <2>3 DEF Inum
  <2>5. Inum(p, "ofile")' = Inum(p, "ofile")
    <3>1. Pointer(p, "ofile") = ofile[p] /\ "ofile" \in Fields
      BY PointerIs DEF Fields
    <3>2. ofile[p] # 0 => icache'[ofile[p]].inum = icache[ofile[p]].inum
      BY <1>i, <1>33, <3>1, Pinned DEF Calm, Used
    <3> QED BY <2>1, <3>1, <3>2 DEF Inum
  <2>6. \A f \in {"at", "unref", "dp", "before"} : Pointer(p, f)' = 0 /\ Inum(p, f)' = 0
    BY <2>1 DEF Inum
  <2>7. ofile[p] = 0 => Inum(p, "ofile")' = 0
    BY <2>1 DEF Inum
  <2>8. Pointer(p, "ip") # 0 /\ Pointer(p, "dp") # 0 /\ Pointer(p, "ofile") = ofile[p]
    BY <1>r, <1>s, <1>t, <1>2, PointerIs
  <2>9. "ip" \in Fields /\ "dp" \in Fields /\ "ofile" \in Fields
    BY DEF Fields
  <2> QED BY <1>I, <1>D, <2>1, <2>2, <2>4, <2>5, <2>6, <2>7, <2>8, <2>9 DEF Fields
<1>36. PointerOK(p)'
  <2>1. PointerOK(p)
    BY <1>i DEF ProcsOK
  <2>2. \A f \in Fields : f # "unref" /\ Pointer(p, f)' # 0 => Inum(p, f)' \in Alloc'
    BY <1>34, <1>35, <2>1 DEF PointerOK
  <2>3. loc'[p].dp = 0
    BY <1>28, <1>32
  <2> QED BY <1>32, <2>2, <2>3 DEF PointerOK
<1>37. \A q \in Procs, j \in Inums : q # p /\ Creating(q, j) => j # I /\ j # D /\ dinode'[j] = dinode[j]
  BY <1>3, <1>6, <1>25 DEF Public
<1>38. ProcsOK' /\ FreshOK' /\ \A j : ~Creating(p, j)'
  <2>1. \A q \in Procs, f \in Fields : q # p /\ Inum(q, f) \in Inums =>
           dinode'[Inum(q, f)].type = dinode[Inum(q, f)].type
    BY <1>34
  <2>2. \A q \in Procs, j \in Inums, f \in Fields : q # p /\ Creating(q, j) => Inum(p, f)' # j
    <3> SUFFICES ASSUME NEW q \in Procs, NEW j \in Inums, NEW f \in Fields, q # p, Creating(q, j)
                 PROVE  Inum(p, f)' # j
      OBVIOUS
    <3>1. \A h \in Fields : Inum(p, h) # j
      BY <1>i DEF FreshOK
    <3>2. j # 0
      BY DEF Inums
    <3> QED BY <1>35, <3>1, <3>2
  <2>3. \A j : ~Creating(p, j)'
    BY <1>32 DEF Creating
  <2> QED BY <1>i, <1>32, <1>33, <1>36, <1>37, <2>1, <2>2, <2>3, Frame
(* The directories are those that there were, and the new one. *)
<1>39. /\ \A d \in Dirs' : d # I => d \in Dirs
       /\ \A d \in Dirs : /\ d \in Inums /\ d # I /\ dinode'[d].addr = dinode[d].addr
                          /\ dinode[d].addr \in Blocks /\ dinode[d].addr # b
                          /\ d # D => dinode[d].addr # dinode[D].addr
  <2>1. \A d \in Dirs' : d # I => d \in Dirs
    BY <1>34 DEF Dirs, Alloc
  <2>2. ASSUME NEW d \in Dirs
        PROVE  /\ d \in Inums /\ d # I /\ dinode'[d].addr = dinode[d].addr
               /\ dinode[d].addr \in Blocks /\ dinode[d].addr # b
               /\ d # D => dinode[d].addr # dinode[D].addr
    <3>1. d \in Inums /\ d # I
      BY <1>7 DEF Dirs, Alloc
    <3>2. /\ dinode[d].addr \in Blocks /\ dinode[d].addr \in bitmap
          /\ dinode[D].addr = dinode[d].addr => D = d
      BY <1>i, <1>3, DirBlocks
    <3> QED BY <1>9, <1>34, <3>1, <3>2
  <2> QED BY <2>1, <2>2
<1>40. \A d \in Dirs : OldDir(d, D, n, I)
  <2> SUFFICES ASSUME NEW d \in Dirs PROVE OldDir(d, D, n, I)
    OBVIOUS
  <2>1. entry \in [Blocks -> [Names -> 0 .. NINODES]]
    BY <1>i DEF TypeOK
  <2>2. \A h \in Names : entry'[dinode[d].addr][h]
           = IF d = D /\ h = n THEN I ELSE entry[dinode[d].addr][h]
    <3>1. CASE d = D
      <4>1. entry'[dinode[d].addr] = [entry[dinode[d].addr] EXCEPT ![n] = I]
        BY <1>26, <1>39, <3>1
      <4> QED BY <1>39, <2>1, <3>1, <4>1
    <3>2. CASE d # D
      <4>1. entry'[dinode[d].addr] = entry[dinode[d].addr]
        BY <1>26, <1>39, <3>2
      <4> QED BY <3>2, <4>1
    <3> QED BY <3>1, <3>2
  <2> QED BY <1>39, <2>2 DEF OldDir
<1>41. I \in Dirs' => NewDir(I)
  <2>1. I \in Dirs' => IsDir(I)
    BY <1>4, <1>34 DEF Dirs, IsDir
  <2>2. IsDir(I) => entry'[b] = NoEntries
    BY <1>9, <1>26
  <2> QED BY <1>25, <2>1, <2>2 DEF NewDir
<1>42. LinksHeld'
  <2> SUFFICES ASSUME NEW j \in Inums
               PROVE  Cardinality(NamesOf(j)') + Cardinality(Subdirs(j)') + Cardinality(Credits(j)')
                         <= dinode'[j].nlink
    BY DEF LinksHeld
  <2>1. LET y == <<dinode[D].addr, n>> IN
        /\ NamesOf(j)' \subseteq NamesOf(j) \cup {y}
        /\ j # I => NamesOf(j)' \subseteq NamesOf(j) \ {y}
        /\ Subdirs(j)' \subseteq Subdirs(j) \cup {n}
        /\ j # D => Subdirs(j)' \subseteq Subdirs(j)
        /\ I = 0 \/ ~IsDir(I) => Subdirs(j)' \subseteq Subdirs(j)
    <3>1. \A d \in Dirs' : NewDir(d) \/ OldDir(d, D, n, I)
      BY <1>39, <1>40, <1>41
    <3>2. \A h \in Alloc : IsDir(h)' => IsDir(h)
      BY <1>34 DEF Alloc
    <3> QED BY <1>3, <1>4, <1>5, <3>1, <3>2, EntrySet
  <2>2. Within(Credits(j)', Credits(j), 0)
    <3>1. Credits(j)' \subseteq Credits(j) \ {p}
      BY <1>32, <1>33, CreditsThen
    <3> QED BY <3>1 DEF Within
  <2>3. CASE j = I
    <3>1. Within(NamesOf(j)', NamesOf(j), 1) /\ Within(Subdirs(j)', Subdirs(j), 0)
      BY <1>8, <2>1, <2>3 DEF Within
    <3>2. dinode'[j].nlink \in Nat /\ dinode[j].nlink + 1 + 0 + 0 <= dinode'[j].nlink
      BY <1>7, <1>25, <2>3
    <3> QED BY <1>i, <2>2, <3>1, <3>2, LinksStep
  <2>4. CASE j = D
    <3>1. Within(NamesOf(j)', NamesOf(j), 0)
      BY <1>8, <2>1, <2>4 DEF Within
    <3>2. dinode'[j].nlink = m /\ dinode[j].nlink = dinode[D].nlink
      BY <1>24, <2>4
    <3>3. CASE IsDir(I)
      <4>1. Within(Subdirs(j)', Subdirs(j), 1)
        BY <2>1 DEF Within
      <4>2. dinode[j].nlink + 0 + 1 + 0 <= dinode'[j].nlink
        BY <1>12, <1>18, <3>2, <3>3
      <4> QED BY <1>19, <1>i, <2>2, <3>1, <3>2, <4>1, <4>2, LinksStep
    <3>4. CASE ~IsDir(I)
      <4>1. Within(Subdirs(j)', Subdirs(j), 0)
        BY <2>1, <3>4 DEF Within
      <4>2. dinode[j].nlink + 0 + 0 + 0 <= dinode'[j].nlink
        BY <1>12, <1>18, <3>2, <3>4
      <4> QED BY <1>19, <1>i, <2>2, <3>1, <3>2, <4>1, <4>2, LinksStep
    <3> QED BY <3>3, <3>4
  <2>5. CASE j # I /\ j # D
    <3>1. dinode'[j].nlink = dinode[j].nlink /\ dinode[j].nlink \in Nat
      BY <1>25, <1>i, <2>5 DEF TypeOK, DiskType
    <3>2. Within(NamesOf(j)', NamesOf(j), 0) /\ Within(Subdirs(j)', Subdirs(j), 0)
      BY <2>1, <2>5 DEF Within
    <3>3. dinode[j].nlink + 0 + 0 + 0 <= dinode'[j].nlink
      BY <3>1
    <3> QED BY <1>i, <2>2, <3>1, <3>2, <3>3, LinksStep
  <2> QED BY <2>3, <2>4, <2>5
<1>43. BlocksOwned'
  <2>1. dinode'[I].type # "none"
    BY <1>7, <1>25 DEF Types
  <2>2. \A j \in Inums : j # I => dinode'[j].type = dinode[j].type /\ dinode'[j].addr = dinode[j].addr
    BY <1>34
  <2> QED BY <1>1, <1>i, <1>4, <1>7, <1>9, <1>25, <2>1, <2>2, BlocksThen
<1>44. UnlinkOK'
  <2>1. \A v \in Slots : icache[v].ref > 0 => icache'[v].inum = icache[v].inum
    BY <1>33 DEF Calm
  <2>2. pc'[p] # "unlink_ip"
    BY <1>32
  <2>3. \A q \in Procs : pc'[q] = "unlink_ip" /\ pc[q] = "unlink_ip" =>
           /\ dinode'[Inum(q, "dp")].addr = dinode[Inum(q, "dp")].addr
           /\ entry'[dinode[Inum(q, "dp")].addr][Head(loc[q].path)]
                = entry[dinode[Inum(q, "dp")].addr][Head(loc[q].path)]
    <3> SUFFICES ASSUME NEW q \in Procs, pc'[q] = "unlink_ip", pc[q] = "unlink_ip"
                 PROVE  /\ dinode'[Inum(q, "dp")].addr = dinode[Inum(q, "dp")].addr
                        /\ entry'[dinode[Inum(q, "dp")].addr][Head(loc[q].path)]
                             = entry[dinode[Inum(q, "dp")].addr][Head(loc[q].path)]
      OBVIOUS
    <3>1. /\ Inum(q, "dp") \in Dirs /\ Inum(q, "dp") # D /\ Head(loc[q].path) \in Names
      BY <1>3, <1>5, <2>2, NotAt
    <3> QED BY <1>39, <1>40, <3>1 DEF OldDir
  <2> QED BY <1>32, <2>1, <2>2, <2>3, UnlinkThen
<1>45. /\ ROOTINO \in Dirs'
       /\ \A j \in Inums : dinode'[j].type = "none" => dinode'[j] = FreeInode
       /\ \A j \in Inums : dinode'[j].type = "dir" =>
             dinode'[j].addr # 0 \/ \E q \in Procs : Creating(q, j)'
  <2>1. ROOTINO \in Dirs'
    <3>1. ROOTINO \in Dirs
      BY <1>i DEF InodesOK
    <3>2. dinode'[ROOTINO].addr = dinode[ROOTINO].addr /\ ROOTINO \in Inums
      BY <1>39, <3>1
    <3> QED BY <1>34, <3>1, <3>2 DEF Dirs
  <2>2. ASSUME NEW j \in Inums, dinode'[j].type = "none" PROVE dinode'[j] = FreeInode
    <3>1. j \notin Alloc /\ dinode[j] = FreeInode
      BY <1>i, <1>34, <2>2 DEF Alloc, InodesOK
    <3>2. j # I /\ j # D
      BY <1>3, <1>4, <3>1 DEF Public
    <3> QED BY <1>25, <3>1, <3>2
  <2>3. ASSUME NEW j \in Inums, dinode'[j].type = "dir"
        PROVE  dinode'[j].addr # 0 \/ \E q \in Procs : Creating(q, j)'
    <3>0. j \in Alloc /\ IsDir(j)
      BY <1>34, <2>3 DEF Alloc, IsDir
    <3>1. CASE j = I
      BY <1>9, <1>25, <3>0, <3>1
    <3>2. CASE j # I /\ j \in Dirs
      BY <1>39, <3>2 DEF Dirs
    <3>3. ASSUME NEW q \in Procs, Creating(q, j), j # I PROVE Creating(q, j)'
      <4>1. q # p /\ CallOK(q) /\ LockOK(q)
        BY <1>i, <1>6, <3>3 DEF ProcsOK
      <4> QED BY <1>i, <1>32, <1>33, <3>3, <4>1, OthersStay
    <3>4. j \in Dirs \/ \E q \in Procs : Creating(q, j)
      BY <1>i, <3>0 DEF InodesOK
    <3> QED BY <3>1, <3>2, <3>3, <3>4
  <2> QED BY <2>1, <2>2, <2>3
<1>46. bitmap' \subseteq Blocks /\ entry' \in [Blocks -> [Names -> 0 .. NINODES]]
  <2>1. I \in 0 .. NINODES /\ 0 \in 0 .. NINODES
    BY <1>4, InodeAssumption DEF Inums
  <2>2. entry \in [Blocks -> [Names -> 0 .. NINODES]] /\ bitmap \subseteq Blocks
    BY <1>i DEF TypeOK
  <2>3. \A z \in Blocks : [entry[z] EXCEPT ![n] = I] \in [Names -> 0 .. NINODES]
    BY <2>1, <2>2
  <2>4. NoEntries \in [Names -> 0 .. NINODES]
    BY <2>1 DEF NoEntries
  <2>5. entry' \in [Blocks -> [Names -> 0 .. NINODES]]
    BY <1>26, <2>2, <2>3, <2>4
  <2> QED BY <1>1, <1>9, <2>2, <2>5
<1> QED BY <1>32, <1>33, <1>38, <1>42, <1>43, <1>44, <1>45, <1>46, Whole

-----------------------------------------------------------------------------
(* At the start nobody has anything, and only the root exists.             *)
LEMMA InodeInvInit ==
    ASSUME Init
    PROVE  InodeInv
<1>1. /\ \A p \in Procs : pc[p] = "user" /\ loc[p] = NoLocals /\ ofile[p] = 0
      /\ \A s \in Slots : /\ icache[s].inum = (IF s = Cwd THEN ROOTINO ELSE 0)
                          /\ icache[s].ref = (IF s = Cwd THEN 1 ELSE 0)
                          /\ icache[s].valid = FALSE
      /\ dinode = [i \in Inums |-> IF i = ROOTINO THEN [type |-> "dir", nlink |-> 1, addr |-> 1]
                                   ELSE FreeInode]
      /\ bitmap = {1} /\ entry = [b \in Blocks |-> NoEntries]
  BY DEF Init
<1>2. /\ 1 \in Inums /\ 1 \in Slots /\ 1 \in Blocks /\ Cwd \in Slots /\ ROOTINO \in Inums
      /\ 0 \in 0 .. NINODES /\ 0 \in 0 .. NINODE /\ 0 \in 0 .. NBLOCKS
      /\ 1 \in 0 .. NINODES /\ 1 \in 0 .. NBLOCKS
  BY InodeAssumption DEF Inums, Slots, Blocks, Cwd, ROOTINO
<1>3. NoLocals \in LocType /\ NoEntries \in [Names -> 0 .. NINODES]
  BY <1>2, NoLocalsAre DEF NoEntries
<1>4. TypeOK
  <2>1. pc \in [Procs -> Places] /\ loc \in [Procs -> LocType] /\ ofile \in [Procs -> 0 .. NINODE]
    BY <1>2, <1>3 DEF Init, Places
  <2>2. icache \in CacheType
    BY <1>2 DEF Init, CacheType, Types, Cwd, ROOTINO
  <2>3. dinode \in DiskType
    BY <1>1, <1>2 DEF DiskType, FreeInode, Types
  <2>4. bitmap \subseteq Blocks /\ entry \in [Blocks -> [Names -> 0 .. NINODES]]
    BY <1>1, <1>2, <1>3
  <2> QED BY <2>1, <2>2, <2>3, <2>4 DEF TypeOK
<1>5. \A p \in Procs, f \in Fields : Pointer(p, f) = 0 /\ Inum(p, f) = 0
  <2> SUFFICES ASSUME NEW p \in Procs, NEW f \in Fields PROVE Pointer(p, f) = 0
    BY DEF Inum
  <2>1. loc[p] = NoLocals /\ ofile[p] = 0
    BY <1>1
  <2>2. LastOf(<<>>) = 0 /\ BeforeOf(<<>>) = 0
    BY PutsAre
  <2>3. /\ Pointer(p, "ofile") = 0 /\ Pointer(p, "at") = 0 /\ Pointer(p, "ip") = 0
        /\ Pointer(p, "dp") = 0 /\ Pointer(p, "unref") = 0
        /\ Pointer(p, "last") = 0 /\ Pointer(p, "before") = 0
    BY <2>1, <2>2, PointerIs, NoLocalsAre
  <2> QED BY <2>3 DEF Fields
<1>6. RefCounts
  <2>1. \A s \in Slots : Pointers(s) = {}
    <3> SUFFICES ASSUME NEW s \in Slots, NEW x \in Pointers(s) PROVE FALSE
      OBVIOUS
    <3>1. x[1] \in Procs /\ x[2] \in Fields /\ Pointer(x[1], x[2]) = s
      BY DEF Pointers
    <3> QED BY <1>5, <3>1, SlotSeq
  <2>2. \A s \in Slots : Cardinality(Pointers(s)) = 0
    BY <2>1, FS_EmptySet
  <2>3. \A s \in Slots : icache[s].ref = Cardinality(Pointers(s)) + IF s = Cwd THEN 1 ELSE 0
    BY <1>1, <2>2
  <2>4. \A p \in Procs : Len(loc[p].puts) <= 2
    <3>1. Len(NoLocals.puts) = 0
      BY NoLocalsAre, PutsAre
    <3> QED BY <1>1, <3>1
  <2> QED BY <2>3, <2>4 DEF RefCounts
<1>7. /\ \A p \in Procs : ~Credit(p)
      /\ \A p \in Procs : \A i : ~Creating(p, i)
  BY <1>1 DEF Credit, Creating
<1>8. ProcsOK
  <2> SUFFICES ASSUME NEW p \in Procs PROVE CallOK(p) /\ LockOK(p) /\ PointerOK(p)
    BY DEF ProcsOK
  <2>1. pc[p] = "user" /\ loc[p] = NoLocals /\ ofile[p] = 0
    BY <1>1
  <2>2. CallOK(p)
    BY <1>7, <2>1, NoLocalsAre DEF CallOK, HasIp, HasDp, Named, Making
  <2>3. LockOK(p)
    BY <2>1 DEF LockOK, DpLocked, IpLocked
  <2>4. PointerOK(p)
    BY <1>5, <1>7, <2>1, NoLocalsAre DEF PointerOK
  <2> QED BY <2>2, <2>3, <2>4
<1>9. FreshOK
  BY <1>7 DEF FreshOK
<1>10. /\ Alloc = {ROOTINO} /\ Dirs = {ROOTINO} /\ dinode[ROOTINO].addr = 1
       /\ dinode[ROOTINO].nlink = 1
       /\ \A i \in Inums : i # ROOTINO => dinode[i] = FreeInode
  <2>1. dinode[ROOTINO] = [type |-> "dir", nlink |-> 1, addr |-> 1]
    BY <1>1, <1>2
  <2>2. \A i \in Inums : i # ROOTINO => dinode[i] = FreeInode /\ dinode[i].type = "none"
    BY <1>1 DEF FreeInode
  <2> QED BY <1>2, <2>1, <2>2 DEF Alloc, Dirs
<1>11. InodesOK
  BY <1>1, <1>2, <1>10 DEF InodesOK, Used
<1>12. CacheCoherent
  BY <1>1 DEF CacheCoherent, Used
<1>13. LinksHeld
  <2> SUFFICES ASSUME NEW i \in Inums
               PROVE  Cardinality(NamesOf(i)) + Cardinality(Subdirs(i)) + Cardinality(Credits(i))
                         <= dinode[i].nlink
    BY DEF LinksHeld
  <2>1. \A n \in Names : entry[1][n] = 0
    BY <1>1, <1>2 DEF NoEntries
  <2>2. i # 0
    BY DEF Inums
  <2>3. NamesOf(i) = {}
    BY <1>10, <2>1, <2>2 DEF NamesOf
  <2>4. Subdirs(i) = {} /\ Credits(i) = {}
    BY <1>7, <1>10, <2>1 DEF Subdirs, Credits
  <2>5. dinode[i].nlink \in Nat
    BY <1>4 DEF TypeOK, DiskType
  <2> QED BY <2>3, <2>4, <2>5, FS_EmptySet
<1>14. BlocksOwned
  BY <1>1, <1>10 DEF BlocksOwned
<1>15. UnlinkOK
  BY <1>1 DEF UnlinkOK
<1> QED BY <1>4, <1>6, <1>8, <1>9, <1>11, <1>12, <1>13, <1>14, <1>15 DEF InodeInv

LEMMA InodeInvStutter ==
    ASSUME InodeInv, UNCHANGED vars
    PROVE  InodeInv'
<1>1. /\ pc' = pc /\ loc' = loc /\ ofile' = ofile /\ icache' = icache /\ dinode' = dinode
      /\ bitmap' = bitmap /\ entry' = entry
  BY DEF vars, disk
<1>2. \A p, f : Pointer(p, f)' = Pointer(p, f) /\ Inum(p, f)' = Inum(p, f)
  BY <1>1 DEF Pointer, Inum
<1>3. /\ \A p : Credit(p)' <=> Credit(p)
      /\ \A p, i : Creating(p, i)' <=> Creating(p, i)
      /\ \A i : IsDir(i)' <=> IsDir(i)
      /\ Alloc' = Alloc /\ Dirs' = Dirs
  BY <1>1, <1>2 DEF Credit, Creating, IsDir, Alloc, Dirs
<1>4. TypeOK' /\ RefCounts' /\ CacheCoherent' /\ BlocksOwned' /\ UnlinkOK'
  BY <1>1, <1>2, <1>3 DEF InodeInv, TypeOK, RefCounts, Pointers, CacheCoherent, Used, BlocksOwned,
     UnlinkOK
<1>5. ProcsOK'
  <2> SUFFICES ASSUME NEW p \in Procs PROVE CallOK(p)' /\ LockOK(p)' /\ PointerOK(p)'
    BY DEF ProcsOK
  <2>1. CallOK(p) /\ LockOK(p) /\ PointerOK(p)
    BY DEF InodeInv, ProcsOK
  <2>2. CallOK(p)'
    <3>1. pc'[p] = pc[p] /\ loc'[p] = loc[p] /\ ofile'[p] = ofile[p] /\ (Credit(p)' <=> Credit(p))
      BY <1>1, <1>3
    <3>2. /\ loc'[p].at # 0 <=> pc'[p] = "namex"
          /\ loc'[p].ip # 0 <=> pc'[p] \in HasIp \/ Credit(p)'
          /\ loc'[p].dp # 0 <=> pc'[p] \in HasDp
          /\ loc'[p].inum # 0 <=> pc'[p] = "ialloc"
          /\ pc'[p] # "user" => Len(loc'[p].puts) <= 1
          /\ pc'[p] \in {"ialloc", "new"} => loc'[p].puts = <<>> /\ loc'[p].unref = 0
      BY <2>1, <3>1 DEF CallOK
    <3>3. /\ pc'[p] \in Named => loc'[p].path # <<>>
          /\ pc'[p] = "namex" => loc'[p].op # "" /\ (loc'[p].op = "link" => loc'[p].new # <<>>)
          /\ pc'[p] \in {"link", "link_root"} => loc'[p].new # <<>>
          /\ pc'[p] \in Making => loc'[p].op \in {"create", "mkdir", "mknod"}
          /\ pc'[p] = "open" => loc'[p].op = "open"
          /\ pc'[p] # "user" /\ loc'[p].op \in {"open", "create"} => ofile'[p] = 0
      BY <2>1, <3>1 DEF CallOK
    <3> QED BY <3>2, <3>3 DEF CallOK
  <2>3. LockOK(p)'
    BY <1>1, <2>1 DEF LockOK
  <2>4. PointerOK(p)'
    BY <1>1, <1>2, <1>3, <2>1 DEF PointerOK
  <2> QED BY <2>2, <2>3, <2>4
<1>6. FreshOK'
  BY <1>1, <1>2, <1>3 DEF InodeInv, FreshOK
<1>7. InodesOK'
  BY <1>1, <1>2, <1>3 DEF InodeInv, InodesOK, Used
<1>8. LinksHeld'
  BY <1>1, <1>2, <1>3 DEF InodeInv, LinksHeld, NamesOf, Subdirs, Credits
<1> QED BY <1>4, <1>5, <1>6, <1>7, <1>8 DEF InodeInv

LEMMA InodeInvNext ==
    ASSUME InodeInv, Next
    PROVE  InodeInv'
<1>1. PICK p \in Procs : \/ PutStep(p) \/ PathStep(p) \/ FileStep(p)
                         \/ CreateStep(p) \/ UnlinkStep(p) \/ LinkStep(p)
  BY DEF Next
<1>2. CASE PutStep(p)
  BY <1>2, IputFreeStep, IputRefStep DEF PutStep
<1>3. CASE PathStep(p)
  BY <1>3, CallStartStep, NamexStep DEF PathStep
<1>4. CASE FileStep(p)
  BY <1>4, OpenStep, CloseStep, FilewriteStep DEF FileStep
<1>5. CASE CreateStep(p)
  BY <1>5, CreateLookupStep, CreateFoundStep, IallocIgetStep, CreateNewStep, CreatedStep
     DEF CreateStep
<1>6. CASE UnlinkStep(p)
  BY <1>6, UnlinkLookupStep, UnlinkEntryStep, UnlinkBadStep, UnlinkedStep DEF UnlinkStep
<1>7. CASE LinkStep(p)
  BY <1>7, LinkCountStep, LinkRootStep, LinkEntryStep, LinkExistsStep, LinkBadStep DEF LinkStep
<1> QED BY <1>1, <1>2, <1>3, <1>4, <1>5, <1>6, <1>7

(* The inductive invariant: wherever the calls of all processes are, what  *)
(* they point to, the locks they hold, the cache, the inodes on disk, the  *)
(* names and the blocks fit together (fs.c and sysfile.c).                 *)
THEOREM Invariance == Spec => []InodeInv
<1>1. Init => InodeInv
  BY InodeInvInit
<1>2. InodeInv /\ [Next]_vars => InodeInv'
  BY InodeInvStutter, InodeInvNext
<1> QED BY <1>1, <1>2, PTL DEF Spec

(* The type invariant; that a count of links on disk stays a natural       *)
(* number is part of it (unlink() and link() in sysfile.c take links back).*)
THEOREM TypeCorrect == Spec => []TypeOK
<1>1. InodeInv => TypeOK
  BY DEF InodeInv
<1> QED BY <1>1, Invariance, PTL

(* ip->ref is the number of pointers to the entry, whatever the calls do   *)
(* (iget(), idup() and iput() in fs.c).                                    *)
THEOREM RefsCounted == Spec => []RefCounts
<1>1. InodeInv => RefCounts
  BY DEF InodeInv
<1> QED BY <1>1, Invariance, PTL

(* An open file or a call never refers to an inode that was freed: iput()  *)
(* frees one only with the last reference, and names lead to no free one.  *)
THEOREM NoFreeInodeUsed == Spec => []RefAllocated
<1>1. ASSUME InodeInv PROVE RefAllocated
  <2> SUFFICES ASSUME NEW p \in Procs
               PROVE  /\ \A s \in {ofile[p], loc[p].at, loc[p].ip} \ {0} : icache[s].inum \in Alloc
                      /\ loc[p].dp # 0 => dinode[icache[loc[p].dp].inum].type = "dir"
    BY DEF RefAllocated
  <2>1. PointerOK(p)
    BY <1>1 DEF InodeInv, ProcsOK
  <2>2. /\ Pointer(p, "ofile") = ofile[p] /\ Pointer(p, "at") = loc[p].at
        /\ Pointer(p, "ip") = loc[p].ip /\ Pointer(p, "dp") = loc[p].dp
    BY PointerIs
  <2>3. \A f \in {"ofile", "at", "ip", "dp"} : Pointer(p, f) # 0 =>
           Inum(p, f) = icache[Pointer(p, f)].inum /\ Inum(p, f) \in Alloc
    BY <2>1 DEF PointerOK, Inum, Fields
  <2>4. loc[p].dp # 0 => IsDir(Inum(p, "dp"))
    BY <2>1 DEF PointerOK
  <2> QED BY <2>2, <2>3, <2>4 DEF IsDir
<1> QED BY <1>1, Invariance, PTL

(* An inode has one entry in the cache, and a valid entry is what is on    *)
(* disk: every change goes through iupdate() under the inode's lock.       *)
THEOREM Coherence == Spec => []CacheCoherent
<1>1. InodeInv => CacheCoherent
  BY DEF InodeInv
<1> QED BY <1>1, Invariance, PTL

(* A name never leads to a free inode, nor are there more names than       *)
(* links: link() counts before it writes, unlink() clears before it counts.*)
THEOREM NamesCounted == Spec => []LinksCovered
<1>1. ASSUME InodeInv PROVE LinksCovered
  <2> SUFFICES ASSUME NEW i \in Inums
               PROVE  /\ NamesOf(i) # {} => i \in Alloc
                      /\ Cardinality(NamesOf(i)) <= dinode[i].nlink
    BY DEF LinksCovered
  <2>1. TypeOK /\ LinksHeld /\ FreshOK /\ InodesOK
    BY <1>1 DEF InodeInv
  <2>2. ASSUME NEW x \in NamesOf(i) PROVE i \in Alloc
    <3>1. PICK d \in Dirs, n \in Names : entry[dinode[d].addr][n] = i
      BY DEF NamesOf
    <3>2. i # 0
      BY DEF Inums
    <3> QED BY <2>1, <3>1, <3>2, NamedPublic DEF Public
  <2>3. /\ Cardinality(NamesOf(i)) \in Nat /\ Cardinality(Subdirs(i)) \in Nat
        /\ Cardinality(Credits(i)) \in Nat
    BY LinksFinite
  <2>4. Cardinality(NamesOf(i)) + Cardinality(Subdirs(i)) + Cardinality(Credits(i))
           <= dinode[i].nlink
    BY <2>1 DEF LinksHeld
  <2>5. dinode[i].nlink \in Nat
    BY <2>1 DEF TypeOK, DiskType
  <2> QED BY <2>2, <2>3, <2>4, <2>5
<1> QED BY <1>1, Invariance, PTL

(* A block in use belongs to exactly one inode, and one that is not in use *)
(* to none (balloc(), bfree() and itrunc() in fs.c).                       *)
THEOREM OneOwner == Spec => []BlocksOwned
<1>1. InodeInv => BlocksOwned
  BY DEF InodeInv
<1> QED BY <1>1, Invariance, PTL
=============================================================================
