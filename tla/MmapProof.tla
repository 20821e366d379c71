----------------------------- MODULE MmapProof -----------------------------
(***************************************************************************)
(* Proofs about Mmap, for every number of processes, areas and pages: what *)
(* holds in every state, and what holds up to the first fork by a process  *)
(* with pages mapped.                                                      *)
(*                                                                         *)
(* A step of a process does one of six things to the pages (Effect); what  *)
(* is proved about pages follows from these six, whatever the entries of   *)
(* the mmap_area table hold.                                               *)
(***************************************************************************)
EXTENDS Mmap, FiniteSetTheorems, TLAPS

USE SizeAssumption

(* A step of process p, in any of the services. *)
Step(p) == MmapStep(p) \/ FaultStep(p) \/ MunmapStep(p) \/ ForkStep(p) \/ Exit(p) \/ Reap(p)

-----------------------------------------------------------------------------
(* Types of the tables and of the local variables.                         *)

(* Storing a field of an entry in another leaves a legal entry, however    *)
(* the two were mixed.                                                     *)
LEMMA StoredType ==
    ASSUME NEW a \in AreaType, NEW b \in AreaType, NEW k \in 1 .. NFIELD
    PROVE  Stored(a, b, k) \in AreaType
<1>1. k \in {1, 2, 3, 4, 5}
  BY DEF NFIELD
<1>2. CASE k = 1
  BY <1>2 DEF Stored, AreaType
<1>3. CASE k = 2
  BY <1>3 DEF Stored, AreaType
<1>4. CASE k = 3
  BY <1>4 DEF Stored, AreaType
<1>5. CASE k = 4
  BY <1>5 DEF Stored, AreaType
<1>6. CASE k = 5
  BY <1>6 DEF Stored, AreaType
<1> QED BY <1>1, <1>2, <1>3, <1>4, <1>5, <1>6

LEMMA StoreType ==
    ASSUME TypeOK, NEW p \in Procs, NEW i \in Areas, NEW b \in AreaType,
           loc[p].field <= NFIELD, Store(p, i, b)
    PROVE  area' \in [Areas -> AreaType]
<1>1. area \in [Areas -> AreaType] /\ loc[p].field \in 1 .. NFIELD
  BY DEF TypeOK, LocType, NFIELD
<1>2. Stored(area[i], b, loc[p].field) \in AreaType
  BY <1>1, StoredType
<1> QED BY <1>1, <1>2 DEF Store

(* A request for pages that exist is a legal entry, and so is no entry.    *)
LEMMA NewArea ==
    /\ \A p \in Procs, va \in VAs, len \in 0 .. NVA, w \in BOOLEAN :
          Request(p, va, len, w) \in AreaType
    /\ NoArea \in AreaType
    /\ \A a \in AreaType, p \in Procs \cup {None} : [a EXCEPT !.p = p] \in AreaType
BY DEF Request, NoArea, AreaType

(* The bounds of a loop over an entry are in range, whatever it holds.     *)
LEMMA Bounds ==
    ASSUME NEW a \in AreaType
    PROVE  /\ From(a) \in 0 .. NVA /\ To(a) \in 0 .. NVA /\ From(a) <= To(a)
           /\ a.addr \in VAs => From(a) = a.addr
BY DEF From, To, AreaType, VAs, Low

LEMMA NoLocalsType == NoLocals \in LocType /\ NoLocals.va = 0 /\ NoLocals.end = 0
BY DEF NoLocals, LocType, None, NFIELD

(* Setting a local variable to a value in its range, or several.           *)
LEMMA LocSet ==
    ASSUME NEW l \in LocType
    PROVE  /\ \A n \in 0 .. NAREA + 1 : [l EXCEPT !.slot = n] \in LocType
           /\ \A n \in 0 .. NAREA : [l EXCEPT !.to = n] \in LocType
           /\ \A n \in 1 .. NFIELD + 1 : [l EXCEPT !.field = n] \in LocType
           /\ \A n \in 0 .. NVA : [l EXCEPT !.va = n] \in LocType
           /\ \A n \in 0 .. NVA : [l EXCEPT !.end = n] \in LocType
           /\ \A w \in BOOLEAN : [l EXCEPT !.write = w] \in LocType
           /\ \A q \in Procs \cup {None} : [l EXCEPT !.child = q] \in LocType
BY DEF LocType

LEMMA LocSlotVaEnd ==
    ASSUME NEW l \in LocType, NEW i \in 0 .. NAREA + 1, NEW va \in 0 .. NVA, NEW end \in 0 .. NVA
    PROVE  [l EXCEPT !.slot = i, !.va = va, !.end = end] \in LocType
<1> DEFINE m == [l EXCEPT !.slot = i]
           n == [m EXCEPT !.va = va]
           o == [n EXCEPT !.end = end]
<1>1. m \in LocType
  BY LocSet
<1>2. n \in LocType
  <2> HIDE DEF m
  <2> QED BY <1>1, LocSet
<1>3. o \in LocType
  <2> HIDE DEF n
  <2> QED BY <1>2, LocSet
<1>4. [l EXCEPT !.slot = i, !.va = va, !.end = end] = o
  OBVIOUS
<1> QED BY <1>3, <1>4

LEMMA LocSlotVaEndWrite ==
    ASSUME NEW l \in LocType, NEW i \in 0 .. NAREA + 1, NEW va \in 0 .. NVA, NEW end \in 0 .. NVA,
           NEW w \in BOOLEAN
    PROVE  [l EXCEPT !.slot = i, !.va = va, !.end = end, !.write = w] \in LocType
<1> DEFINE m == [l EXCEPT !.slot = i, !.va = va, !.end = end]
           n == [m EXCEPT !.write = w]
<1>1. m \in LocType
  BY LocSlotVaEnd
<1>2. n \in LocType
  <2> HIDE DEF m
  <2> QED BY <1>1, LocSet
<1>3. [l EXCEPT !.slot = i, !.va = va, !.end = end, !.write = w] = n
  OBVIOUS
<1> QED BY <1>2, <1>3

LEMMA LocSlotChild ==
    ASSUME NEW l \in LocType, NEW i \in 0 .. NAREA + 1, NEW q \in Procs \cup {None}
    PROVE  [l EXCEPT !.slot = i, !.child = q] \in LocType
<1> DEFINE m == [l EXCEPT !.slot = i]
           n == [m EXCEPT !.child = q]
<1>1. m \in LocType
  BY LocSet
<1>2. n \in LocType
  <2> HIDE DEF m
  <2> QED BY <1>1, LocSet
<1>3. [l EXCEPT !.slot = i, !.child = q] = n
  OBVIOUS
<1> QED BY <1>2, <1>3

LEMMA LocSlotField ==
    ASSUME NEW l \in LocType, NEW i \in 0 .. NAREA + 1, NEW k \in 1 .. NFIELD + 1
    PROVE  [l EXCEPT !.slot = i, !.field = k] \in LocType
<1> DEFINE m == [l EXCEPT !.slot = i]
           n == [m EXCEPT !.field = k]
<1>1. m \in LocType
  BY LocSet
<1>2. n \in LocType
  <2> HIDE DEF m
  <2> QED BY <1>1, LocSet
<1>3. [l EXCEPT !.slot = i, !.field = k] = n
  OBVIOUS
<1> QED BY <1>2, <1>3

LEMMA LocToFieldVaEnd ==
    ASSUME NEW l \in LocType, NEW t \in 0 .. NAREA, NEW k \in 1 .. NFIELD + 1,
           NEW va \in 0 .. NVA, NEW end \in 0 .. NVA
    PROVE  [l EXCEPT !.to = t, !.field = k, !.va = va, !.end = end] \in LocType
<1> DEFINE m == [l EXCEPT !.to = t]
           n == [m EXCEPT !.field = k]
           o == [n EXCEPT !.va = va]
           r == [o EXCEPT !.end = end]
<1>1. m \in LocType
  BY LocSet
<1>2. n \in LocType
  <2> HIDE DEF m
  <2> QED BY <1>1, LocSet
<1>3. o \in LocType
  <2> HIDE DEF n
  <2> QED BY <1>2, LocSet
<1>4. r \in LocType
  <2> HIDE DEF o
  <2> QED BY <1>3, LocSet
<1>5. [l EXCEPT !.to = t, !.field = k, !.va = va, !.end = end] = r
  OBVIOUS
<1> QED BY <1>4, <1>5

(* The local variables of a process, set, leave those of the others alone. *)
LEMMA SetLocEffect ==
    ASSUME TypeOK, NEW p \in Procs, NEW l \in LocType, SetLoc(p, l)
    PROVE  /\ loc' \in [Procs -> LocType] /\ loc'[p] = l
           /\ \A q \in Procs : q # p => loc'[q] = loc[q]
BY DEF SetLoc, TypeOK

LEMMA GotoEffect ==
    ASSUME TypeOK, NEW p \in Procs, NEW a \in AtType, Goto(p, a)
    PROVE  /\ at' \in [Procs -> AtType] /\ at'[p] = a
           /\ \A q \in Procs : q # p => at'[q] = at[q]
BY DEF Goto, TypeOK

LEMMA ReturnEffect ==
    ASSUME TypeOK, NEW p \in Procs, Return(p)
    PROVE  /\ at' \in [Procs -> AtType] /\ at'[p] = "user"
           /\ loc' \in [Procs -> LocType] /\ loc'[p] = NoLocals
           /\ \A q \in Procs : q # p => at'[q] = at[q] /\ loc'[q] = loc[q]
BY SetLocEffect, GotoEffect, NoLocalsType DEF Return, AtType

(* The next round of a page loop moves on by one page, and no further than *)
(* the end.                                                                *)
LEMMA NextPageEffect ==
    ASSUME TypeOK, NEW p \in Procs, loc[p].va < loc[p].end, NextPage(p)
    PROVE  /\ loc' \in [Procs -> LocType] /\ loc[p].va \in VAs
           /\ \A q \in Procs : q # p => loc'[q] = loc[q]
           /\ loc'[p] = [loc[p] EXCEPT !.va = @ + 1] /\ loc'[p].va <= loc'[p].end
<1>1. loc[p] \in LocType
  BY DEF TypeOK
<1>2. loc[p].va \in VAs
  BY <1>1 DEF LocType, VAs
<1>3. /\ [loc[p] EXCEPT !.va = @ + 1] \in LocType
      /\ [loc[p] EXCEPT !.va = @ + 1].va <= [loc[p] EXCEPT !.va = @ + 1].end
  BY <1>1 DEF LocType
<1> QED BY <1>2, <1>3, SetLocEffect DEF NextPage

LEMMA NextFieldEffect ==
    ASSUME TypeOK, NEW p \in Procs, loc[p].field <= NFIELD, NextField(p)
    PROVE  /\ loc' \in [Procs -> LocType]
           /\ \A q \in Procs : q # p => loc'[q] = loc[q]
           /\ loc'[p] = [loc[p] EXCEPT !.field = @ + 1]
<1>1. [loc[p] EXCEPT !.field = @ + 1] \in LocType
  BY DEF TypeOK, LocType, NFIELD
<1> QED BY <1>1, SetLocEffect DEF NextField

LEMMA FirstIs == ASSUME NEW S, NEW i \in First(S) PROVE i \in S
BY DEF First

-----------------------------------------------------------------------------
(* Where processes are.                                                    *)

(* Only p moves, sets its local variables, or takes a page in its hand.    *)
Moves(p) ==
    /\ at' \in [Procs -> AtType] /\ loc' \in [Procs -> LocType]
    /\ mem' \in [Procs -> Pages \cup {None}]
    /\ \A q \in Procs : q # p => at'[q] = at[q] /\ loc'[q] = loc[q] /\ mem'[q] = mem[q]

(* The page tables of the others that run stay.                            *)
Spares(p) ==
    /\ pt' \in PtType /\ wr' \in [Procs -> SUBSET VAs]
    /\ \A q \in Procs : \A va \in wr'[q] : pt'[q][va] # None
    /\ \A q \in Procs : q # p /\ life[q] = "alive" =>
          life'[q] = "alive" /\ pt'[q] = pt[q] /\ wr'[q] = wr[q]

(* The others stay where they were, and what they need with them.          *)
LEMMA OthersKept ==
    ASSUME LocalInv, NEW p \in Procs, Moves(p), Spares(p), NEW q \in Procs, q # p
    PROVE  PlaceOK(q)'
<1>1. PlaceOK(q) /\ TypeOK
  BY DEF LocalInv
<1>2. at'[q] = at[q] /\ loc'[q] = loc[q] /\ mem'[q] = mem[q]
  BY DEF Moves
<1>3. CASE life[q] = "alive"
  <2>1. life'[q] = "alive" /\ pt'[q] = pt[q] /\ wr'[q] = wr[q]
    BY <1>3 DEF Spares
  <2> QED BY <1>1, <1>2, <2>1 DEF PlaceOK, Faults, Present
<1>4. CASE life[q] # "alive"
  <2>1. at[q] = "user" /\ mem[q] = None
    BY <1>1, <1>4 DEF PlaceOK
  <2> QED BY <1>1, <1>2, <2>1 DEF PlaceOK
<1> QED BY <1>3, <1>4

LEMMA PlacesKept ==
    ASSUME LocalInv, NEW p \in Procs, Moves(p), Spares(p), PlaceOK(p)'
    PROVE  \A q \in Procs : PlaceOK(q)'
BY OthersKept

(* Who forks keeps its child. *)
LEMMA ForksKept ==
    ASSUME LocalInv, NEW p \in Procs, Moves(p), life' = life,
           at'[p] \in Forking => at[p] \in Forking /\ loc'[p].child = loc[p].child
    PROVE  ForksOK'
<1>1. \A q \in Procs : at'[q] \in Forking => at[q] \in Forking /\ loc'[q].child = loc[q].child
  BY DEF Moves
<1>2. ForksOK
  BY DEF LocalInv
<1> QED BY <1>1, <1>2 DEF ForksOK, Forking

(* Together: a step of p that changes nobody's state.                      *)
LEMMA StepKept ==
    ASSUME LocalInv, shared' \in BOOLEAN, NEW p \in Procs, Moves(p), Spares(p), life' = life,
           area' \in [Areas -> AreaType], free' \in [Pages -> Nat], PlaceOK(p)',
           at'[p] \in Forking => at[p] \in Forking /\ loc'[p].child = loc[p].child
    PROVE  LocalInv'
<1>1. TypeOK'
  BY DEF LocalInv, TypeOK, Moves, Spares
<1>2. WritablePresent'
  BY DEF Spares, WritablePresent, Present
<1> QED BY <1>1, <1>2, PlacesKept, ForksKept DEF LocalInv

(* The page tables stay as they are. *)
LEMMA SparesAll ==
    ASSUME LocalInv, NEW p \in Procs, pt' = pt, wr' = wr,
           \A q \in Procs : q # p /\ life[q] = "alive" => life'[q] = "alive"
    PROVE  Spares(p)
BY DEF Spares, LocalInv, TypeOK, WritablePresent, Present

(* One entry of one page table, of p itself or of one that does not run.   *)
LEMMA SetPteSpares ==
    ASSUME LocalInv, NEW p \in Procs, NEW q \in Procs, NEW va \in VAs,
           NEW f \in Pages \cup {None}, NEW w \in BOOLEAN, w => f # None,
           life' = life, q = p \/ life[q] # "alive", SetPte(q, va, f, w)
    PROVE  /\ Spares(p)
           /\ pt'[q][va] = f /\ (va \in wr'[q] <=> w)
<1>t. /\ pt \in [Procs -> [VAs -> Pages \cup {None}]] /\ wr \in [Procs -> SUBSET VAs]
      /\ \A r \in Procs : \A vb \in wr[r] : pt[r][vb] # None
  BY DEF LocalInv, TypeOK, PtType, WritablePresent, Present
<1> DEFINE W == IF w THEN wr[q] \cup {va} ELSE wr[q] \ {va}
<1>1. /\ pt' = [pt EXCEPT ![q][va] = f] /\ wr' = [wr EXCEPT ![q] = W]
  BY DEF SetPte
<1>2. W \in SUBSET VAs /\ (va \in W <=> w) /\ \A vb \in W : vb = va \/ vb \in wr[q]
  BY <1>t
<1> HIDE DEF W
<1>3. /\ pt' \in PtType /\ wr' \in [Procs -> SUBSET VAs]
      /\ pt'[q][va] = f /\ (va \in wr'[q] <=> w)
  BY <1>t, <1>1, <1>2 DEF PtType
<1>4. \A r \in Procs : r # q => pt'[r] = pt[r] /\ wr'[r] = wr[r]
  BY <1>t, <1>1
<1>5. \A vb \in wr'[q] : pt'[q][vb] # None
  <2> TAKE vb \in wr'[q]
  <2>1. vb \in VAs /\ vb \in W
    BY <1>t, <1>1, <1>2
  <2>2. CASE vb = va
    BY <1>2, <1>3, <2>1, <2>2
  <2>3. CASE vb # va
    BY <1>t, <1>1, <1>2, <2>1, <2>3
  <2> QED BY <2>2, <2>3
<1>6. \A r \in Procs : \A vb \in wr'[r] : pt'[r][vb] # None
  BY <1>t, <1>4, <1>5
<1> QED BY <1>3, <1>4, <1>6 DEF Spares

-----------------------------------------------------------------------------
(* Each step keeps the types and who is where.                             *)

(* What kalloc() and kfree() do to the count of a page. *)
LEMMA KallocEffect ==
    ASSUME free \in [Pages -> Nat], NEW f \in Pages, Kalloc(f)
    PROVE  /\ free' \in [Pages -> Nat] /\ free[f] > 0 /\ free'[f] = free[f] - 1
           /\ \A g \in Pages : g # f => free'[g] = free[g]
BY DEF Kalloc

LEMMA KfreeEffect ==
    ASSUME free \in [Pages -> Nat], NEW f \in Pages, Kfree(f)
    PROVE  /\ free' \in [Pages -> Nat] /\ free'[f] = free[f] + 1
           /\ \A g \in Pages : g # f => free'[g] = free[g]
BY DEF Kfree

(* mmap() starts with an entry that was unused, or without one. *)
LEMMA MmapLocal ==
    ASSUME LocalInv, shared' \in BOOLEAN, NEW p \in Procs, Mmap(p)
    PROVE  LocalInv'
<1>t. /\ TypeOK /\ PlaceOK(p) /\ None = 0
      /\ loc[p] \in LocType /\ area \in [Areas -> AreaType] /\ free \in [Pages -> Nat]
      /\ mem \in [Procs -> Pages \cup {None}] /\ at \in [Procs -> AtType]
      /\ loc \in [Procs -> LocType]
  BY DEF LocalInv, TypeOK, None
<1>1. PICK r \in Requests, i \in Areas \cup {None} :
         /\ SetLoc(p, Asked(r, i))
         /\ (i # None /\ Goto(p, "mmap")) \/ (i = None /\ Goto(p, "populate"))
  <2>1. PICK r \in Requests :
            \/ (\E i \in First(Unused) : SetLoc(p, Asked(r, i))) /\ Goto(p, "mmap")
            \/ SetLoc(p, Asked(r, None)) /\ Goto(p, "populate")
    BY DEF Mmap
  <2>2. \A i \in First(Unused) : i \in Areas /\ i # None
    BY DEF First, Unused, Areas, None
  <2>3. CASE SetLoc(p, Asked(r, None)) /\ Goto(p, "populate")
    BY <2>3
  <2>4. CASE (\E i \in First(Unused) : SetLoc(p, Asked(r, i))) /\ Goto(p, "mmap")
    <3>1. PICK i \in First(Unused) : SetLoc(p, Asked(r, i))
      BY <2>4
    <3>2. i \in Areas \cup {None} /\ i # None
      BY <2>2
    <3> QED BY <2>4, <3>1, <3>2
  <2> QED BY <2>1, <2>3, <2>4
<1>2. /\ Asked(r, i) \in LocType /\ Asked(r, i).slot = i /\ Asked(r, i).field = 1
      /\ Asked(r, i).va < Asked(r, i).end
  <2>1. /\ i \in 0 .. NAREA + 1 /\ r.va \in 0 .. NVA /\ r.end \in 0 .. NVA /\ r.write \in BOOLEAN
        /\ r.va < r.end
    BY <1>t DEF VAs, Areas
  <2> QED BY <2>1, NoLocalsType, LocSlotVaEndWrite DEF Asked, NoLocals
<1>3. loc' \in [Procs -> LocType] /\ loc'[p] = Asked(r, i)
      /\ \A q \in Procs : q # p => loc'[q] = loc[q]
  BY <1>t, <1>1, <1>2, SetLocEffect
<1>4. /\ at' \in [Procs -> AtType] /\ at'[p] \in {"mmap", "populate"}
      /\ at'[p] = "mmap" => i # None
      /\ \A q \in Procs : q # p => at'[q] = at[q]
  BY <1>t, <1>1, GotoEffect DEF AtType
<1>5. life' = life /\ area' = area /\ pt' = pt /\ wr' = wr /\ free' = free /\ mem' = mem
      /\ life[p] = "alive" /\ at[p] = "user"
  BY DEF Mmap, At
<1>6. Moves(p) /\ Spares(p)
  BY <1>t, <1>3, <1>4, <1>5, SparesAll DEF Moves
<1>7. PlaceOK(p)'
  <2>1. loc'[p].va <= loc'[p].end
    BY <1>2, <1>3 DEF LocType
  <2> QED BY <1>t, <1>2, <1>3, <1>4, <1>5, <2>1 DEF PlaceOK, NFIELD
<1> QED BY <1>t, <1>4, <1>5, <1>6, <1>7, StepKept DEF Forking

(* It stores a field of its request in the entry it found. *)
LEMMA MmapStoreLocal ==
    ASSUME LocalInv, shared' \in BOOLEAN, NEW p \in Procs, MmapStore(p)
    PROVE  LocalInv'
<1>t. /\ TypeOK /\ PlaceOK(p) /\ None = 0
      /\ loc[p] \in LocType /\ area \in [Areas -> AreaType] /\ free \in [Pages -> Nat]
      /\ mem \in [Procs -> Pages \cup {None}] /\ at \in [Procs -> AtType]
      /\ loc \in [Procs -> LocType]
  BY DEF LocalInv, TypeOK, None
<1>1. life' = life /\ pt' = pt /\ wr' = wr /\ free' = free /\ mem' = mem
      /\ life[p] = "alive" /\ at[p] = "mmap"
  BY DEF MmapStore, At
<1>2. /\ loc[p].slot \in Areas /\ loc[p].field \in 1 .. NFIELD /\ loc[p].va \in VAs
      /\ loc[p].end - loc[p].va \in 0 .. NVA /\ loc[p].write \in BOOLEAN
      /\ loc[p].va <= loc[p].end /\ loc[p].va < loc[p].end
  BY <1>t, <1>1 DEF PlaceOK, LocType, VAs, NFIELD
<1>3. area' \in [Areas -> AreaType]
  <2>1. Request(p, loc[p].va, loc[p].end - loc[p].va, loc[p].write) \in AreaType
    BY <1>2, NewArea
  <2> QED BY <1>t, <1>2, <2>1, StoreType DEF MmapStore
<1>4. /\ Moves(p) /\ at'[p] \in {"mmap", "user", "populate"} /\ PlaceOK(p)'
  <2>1. CASE loc[p].field # NFIELD
    <3>1. NextField(p) /\ at' = at
      BY <2>1 DEF MmapStore, LastField
    <3>2. /\ loc' \in [Procs -> LocType]
          /\ \A q \in Procs : q # p => loc'[q] = loc[q]
          /\ loc'[p] = [loc[p] EXCEPT !.field = @ + 1]
      BY <1>t, <1>2, <3>1, NextFieldEffect
    <3>3. /\ loc'[p].slot = loc[p].slot /\ loc'[p].va = loc[p].va /\ loc'[p].end = loc[p].end
          /\ loc'[p].field <= NFIELD
      BY <1>t, <1>2, <2>1, <3>2 DEF LocType, NFIELD
    <3>4. Moves(p)
      BY <1>t, <1>1, <3>1, <3>2 DEF Moves
    <3> QED BY <1>t, <1>1, <1>2, <3>1, <3>3, <3>4 DEF PlaceOK
  <2>2. CASE Return(p)
    <3>1. Moves(p) /\ at'[p] = "user" /\ loc'[p] = NoLocals
      BY <1>t, <1>1, <2>2, ReturnEffect DEF Moves
    <3> QED BY <1>t, <1>1, <3>1, NoLocalsType DEF PlaceOK
  <2>3. CASE Goto(p, "populate") /\ SetLoc(p, [loc[p] EXCEPT !.slot = None, !.field = 1])
    <3> DEFINE l == [loc[p] EXCEPT !.slot = None, !.field = 1]
    <3>1. l \in LocType /\ l.va = loc[p].va /\ l.end = loc[p].end
      <4>1. 0 \in 0 .. NAREA + 1 /\ 1 \in 1 .. NFIELD + 1
        BY DEF NFIELD
      <4> QED BY <1>t, <4>1, LocSlotField DEF LocType
    <3> HIDE DEF l
    <3>2. SetLoc(p, l)
      BY <2>3 DEF l
    <3>3. loc' \in [Procs -> LocType] /\ loc'[p] = l
          /\ \A q \in Procs : q # p => loc'[q] = loc[q]
      BY <1>t, <3>1, <3>2, SetLocEffect
    <3>4. at' \in [Procs -> AtType] /\ at'[p] = "populate"
          /\ \A q \in Procs : q # p => at'[q] = at[q]
      BY <1>t, <2>3, GotoEffect DEF AtType
    <3>5. Moves(p)
      BY <1>t, <1>1, <3>3, <3>4 DEF Moves
    <3> QED BY <1>t, <1>1, <1>2, <3>1, <3>3, <3>4, <3>5 DEF PlaceOK
  <2> QED BY <2>1, <2>2, <2>3 DEF MmapStore, LastField
<1>5. Spares(p)
  BY <1>1, SparesAll
<1> QED BY <1>t, <1>1, <1>3, <1>4, <1>5, StepKept DEF Forking

(* A page loop of p moves on, or panics.                                   *)
LEMMA RoundMoves ==
    ASSUME LocalInv, NEW p \in Procs, life[p] = "alive", life' = life, mem' = mem,
           at[p] \in {"populate", "munmap", "fork_pages"}, loc[p].va < loc[p].end,
           \/ NextPage(p) /\ at' = at
           \/ Goto(p, "panic") /\ loc' = loc
    PROVE  /\ Moves(p) /\ PlaceOK(p)' /\ loc[p].va \in VAs
           /\ at'[p] \in Forking => at[p] \in Forking /\ loc'[p].child = loc[p].child
<1>t. /\ TypeOK /\ PlaceOK(p) /\ loc[p] \in LocType /\ mem[p] = None
      /\ mem \in [Procs -> Pages \cup {None}] /\ at \in [Procs -> AtType]
      /\ loc \in [Procs -> LocType]
  BY DEF LocalInv, TypeOK, PlaceOK
<1>1. loc[p].va \in VAs
  BY <1>t DEF LocType, VAs
<1>2. CASE NextPage(p) /\ at' = at
  <2>1. /\ loc' \in [Procs -> LocType] /\ loc'[p].va <= loc'[p].end
        /\ \A q \in Procs : q # p => loc'[q] = loc[q]
        /\ loc'[p] = [loc[p] EXCEPT !.va = @ + 1]
    BY <1>t, <1>2, NextPageEffect
  <2>2. /\ loc'[p].slot = loc[p].slot /\ loc'[p].to = loc[p].to
        /\ loc'[p].field = loc[p].field /\ loc'[p].child = loc[p].child
    BY <1>t, <2>1 DEF LocType
  <2>3. Moves(p)
    BY <1>t, <1>2, <2>1 DEF Moves
  <2> QED BY <1>t, <1>1, <1>2, <2>1, <2>2, <2>3 DEF PlaceOK
<1>3. CASE Goto(p, "panic") /\ loc' = loc
  <2>1. Moves(p) /\ at'[p] = "panic"
    BY <1>t, <1>3, GotoEffect DEF Moves, AtType
  <2> QED BY <1>t, <1>1, <1>3, <2>1 DEF PlaceOK, Forking
<1> QED BY <1>2, <1>3

(* A service of p ends. *)
LEMMA ReturnMoves ==
    ASSUME LocalInv, NEW p \in Procs, Return(p), mem' \in [Procs -> Pages \cup {None}],
           mem'[p] = None, \A q \in Procs : q # p => mem'[q] = mem[q]
    PROVE  Moves(p) /\ PlaceOK(p)' /\ at'[p] = "user"
<1>t. TypeOK
  BY DEF LocalInv
<1>1. Moves(p) /\ at'[p] = "user" /\ loc'[p] = NoLocals
  BY <1>t, ReturnEffect DEF Moves
<1> QED BY <1>1, NoLocalsType DEF PlaceOK

(* One page is mapped, or the loop panics. *)
LEMMA PopulateLocal ==
    ASSUME LocalInv, shared' \in BOOLEAN, NEW p \in Procs, Populate(p)
    PROVE  LocalInv'
<1>t. /\ TypeOK /\ PlaceOK(p) /\ None = 0
      /\ loc[p] \in LocType /\ area \in [Areas -> AreaType] /\ free \in [Pages -> Nat]
      /\ mem \in [Procs -> Pages \cup {None}] /\ at \in [Procs -> AtType]
      /\ loc \in [Procs -> LocType]
  BY DEF LocalInv, TypeOK, None
<1>1. life' = life /\ area' = area /\ mem' = mem /\ life[p] = "alive" /\ at[p] = "populate"
      /\ loc[p].va < loc[p].end
  BY DEF Populate, At
<1>2. PICK f \in Pages : Kalloc(f) /\ Mappages(p, p, loc[p].va, f, loc[p].write)
  BY DEF Populate
<1>3. (NextPage(p) /\ at' = at) \/ (Goto(p, "panic") /\ loc' = loc)
  BY <1>2 DEF Mappages, Panic
<1>4. /\ Moves(p) /\ PlaceOK(p)' /\ loc[p].va \in VAs
      /\ at'[p] \in Forking => at[p] \in Forking /\ loc'[p].child = loc[p].child
  BY <1>1, <1>3, RoundMoves
<1>5. Spares(p)
  <2>1. CASE SetPte(p, loc[p].va, f, loc[p].write)
    BY <1>t, <1>1, <1>4, <2>1, SetPteSpares DEF LocType
  <2>2. CASE pt' = pt /\ wr' = wr
    BY <1>1, <2>2, SparesAll
  <2> QED BY <1>2, <2>1, <2>2 DEF Mappages, Panic
<1>6. free' \in [Pages -> Nat]
  BY <1>t, <1>2, KallocEffect
<1> QED BY <1>t, <1>1, <1>4, <1>5, <1>6, StepKept

(* The loop is over. *)
LEMMA PopulateEndsLocal ==
    ASSUME LocalInv, shared' \in BOOLEAN, NEW p \in Procs, PopulateEnds(p)
    PROVE  LocalInv'
<1>t. /\ TypeOK /\ PlaceOK(p) /\ None = 0
      /\ loc[p] \in LocType /\ area \in [Areas -> AreaType] /\ free \in [Pages -> Nat]
      /\ mem \in [Procs -> Pages \cup {None}] /\ at \in [Procs -> AtType]
      /\ loc \in [Procs -> LocType]
  BY DEF LocalInv, TypeOK, None
<1>1. life' = life /\ area' = area /\ mem' = mem /\ free' = free /\ pt' = pt /\ wr' = wr
      /\ at[p] = "populate"
  BY DEF PopulateEnds, At
<1>2. Moves(p) /\ PlaceOK(p)' /\ at'[p] = "user"
  BY <1>t, <1>1, ReturnMoves DEF PopulateEnds, PlaceOK
<1> QED BY <1>t, <1>1, <1>2, SparesAll, StepKept DEF Forking

(* A page is lost. *)
LEMMA PopulateNoTableLocal ==
    ASSUME LocalInv, shared' \in BOOLEAN, NEW p \in Procs, PopulateNoTable(p)
    PROVE  LocalInv'
<1>t. /\ TypeOK /\ PlaceOK(p) /\ None = 0
      /\ loc[p] \in LocType /\ area \in [Areas -> AreaType] /\ free \in [Pages -> Nat]
      /\ mem \in [Procs -> Pages \cup {None}] /\ at \in [Procs -> AtType]
      /\ loc \in [Procs -> LocType]
  BY DEF LocalInv, TypeOK, None
<1>1. life' = life /\ area' = area /\ mem' = mem /\ pt' = pt /\ wr' = wr /\ at[p] = "populate"
  BY DEF PopulateNoTable, At
<1>2. Moves(p) /\ PlaceOK(p)' /\ at'[p] = "user"
  BY <1>t, <1>1, ReturnMoves DEF PopulateNoTable, PlaceOK
<1>3. free' \in [Pages -> Nat]
  BY <1>t, KallocEffect DEF PopulateNoTable
<1> QED BY <1>t, <1>1, <1>2, <1>3, SparesAll, StepKept DEF Forking

(* The handler has found an area and has a page in its hand. *)
LEMMA FaultLocal ==
    ASSUME LocalInv, shared' \in BOOLEAN, NEW p \in Procs, Fault(p)
    PROVE  LocalInv'
<1>t. /\ TypeOK /\ PlaceOK(p) /\ None = 0
      /\ loc[p] \in LocType /\ area \in [Areas -> AreaType] /\ free \in [Pages -> Nat]
      /\ mem \in [Procs -> Pages \cup {None}] /\ at \in [Procs -> AtType]
      /\ loc \in [Procs -> LocType]
  BY DEF LocalInv, TypeOK, None
<1>1. life' = life /\ area' = area /\ pt' = pt /\ wr' = wr /\ life[p] = "alive"
      /\ at[p] = "user" /\ Goto(p, "fault")
  BY DEF Fault, At
<1>0. PICK va \in VAs, w \in BOOLEAN, f \in Pages : \E i \in FaultArea(p, va) :
         /\ Faults(p, va, w) /\ Kalloc(f) /\ mem' = [mem EXCEPT ![p] = f]
         /\ SetLoc(p, [NoLocals EXCEPT !.slot = i, !.va = va, !.end = va + 1, !.write = w])
  BY DEF Fault
<1>2. PICK i \in FaultArea(p, va) :
         /\ Faults(p, va, w) /\ Kalloc(f) /\ mem' = [mem EXCEPT ![p] = f]
         /\ SetLoc(p, [NoLocals EXCEPT !.slot = i, !.va = va, !.end = va + 1, !.write = w])
  BY <1>0
<1> DEFINE l == [NoLocals EXCEPT !.slot = i, !.va = va, !.end = va + 1, !.write = w]
<1>3. i \in Areas
  BY FirstIs DEF FaultArea
<1>4. l \in LocType /\ l.slot = i /\ l.va = va /\ l.end = va + 1 /\ l.write = w /\ l.va < l.end
  <2>1. i \in 0 .. NAREA + 1 /\ va \in 0 .. NVA /\ va + 1 \in 0 .. NVA /\ va < va + 1
    BY <1>3 DEF VAs, Areas
  <2> QED BY <2>1, NoLocalsType, LocSlotVaEndWrite DEF NoLocals
<1>s. SetLoc(p, l)
  BY <1>2
<1> HIDE DEF l
<1>5. loc' \in [Procs -> LocType] /\ loc'[p] = l /\ \A q \in Procs : q # p => loc'[q] = loc[q]
  BY <1>t, <1>s, <1>4, SetLocEffect
<1>6. at' \in [Procs -> AtType] /\ at'[p] = "fault" /\ \A q \in Procs : q # p => at'[q] = at[q]
  BY <1>t, <1>1, GotoEffect DEF AtType
<1>7. Moves(p) /\ mem'[p] = f /\ f # None
  BY <1>t, <1>2, <1>5, <1>6 DEF Moves
<1>8. PlaceOK(p)'
  <2>1. Faults(p, l.va, l.write)'
    BY <1>1, <1>2, <1>4 DEF Faults, Present
  <2>2. l.va <= l.end
    BY <1>4 DEF VAs
  <2> QED BY <1>1, <1>3, <1>4, <1>5, <1>6, <1>7, <2>1, <2>2 DEF PlaceOK
<1>9. free' \in [Pages -> Nat]
  BY <1>t, <1>2, KallocEffect
<1> QED BY <1>t, <1>1, <1>6, <1>7, <1>8, <1>9, SparesAll, StepKept DEF Forking

(* It enters the page, or panics with it in its hand. *)
LEMMA FaultMapLocal ==
    ASSUME LocalInv, shared' \in BOOLEAN, NEW p \in Procs, FaultMap(p)
    PROVE  LocalInv'
<1>t. /\ TypeOK /\ PlaceOK(p) /\ None = 0
      /\ loc[p] \in LocType /\ area \in [Areas -> AreaType] /\ free \in [Pages -> Nat]
      /\ mem \in [Procs -> Pages \cup {None}] /\ at \in [Procs -> AtType]
      /\ loc \in [Procs -> LocType]
  BY DEF LocalInv, TypeOK, None
<1>1. life' = life /\ area' = area /\ free' = free /\ life[p] = "alive" /\ at[p] = "fault"
      /\ mem[p] \in Pages /\ loc[p].va \in VAs /\ mem[p] # None
  BY <1>t DEF FaultMap, At, PlaceOK, LocType, VAs
<1>2. CASE ~Present(p, loc[p].va)
  <2>1. /\ SetPte(p, loc[p].va, mem[p], loc[p].write \/ area[loc[p].slot].write)
        /\ mem' = [mem EXCEPT ![p] = None] /\ Return(p)
    BY <1>2 DEF FaultMap
  <2>0. /\ mem' \in [Procs -> Pages \cup {None}] /\ mem'[p] = None
        /\ \A q \in Procs : q # p => mem'[q] = mem[q]
    BY <1>t, <2>1
  <2>2. Moves(p) /\ PlaceOK(p)' /\ at'[p] = "user"
    BY <2>0, <2>1, ReturnMoves
  <2>3. (loc[p].write \/ area[loc[p].slot].write) \in BOOLEAN
    OBVIOUS
  <2>4. Spares(p)
    BY <1>1, <2>1, <2>3, SetPteSpares
  <2> QED BY <1>t, <1>1, <2>2, <2>4, StepKept DEF Forking
<1>3. CASE Present(p, loc[p].va)
  <2>1. Panic(p) /\ mem' = mem
    BY <1>3 DEF FaultMap
  <2>2. /\ at' \in [Procs -> AtType] /\ at'[p] = "panic"
        /\ \A q \in Procs : q # p => at'[q] = at[q]
    BY <1>t, <2>1, GotoEffect DEF Panic, AtType
  <2>3. Moves(p) /\ PlaceOK(p)'
    BY <1>t, <1>1, <2>1, <2>2 DEF Moves, PlaceOK, Panic
  <2>4. Spares(p)
    BY <1>1, <2>1, SparesAll DEF Panic
  <2> QED BY <1>t, <1>1, <2>2, <2>3, <2>4, StepKept DEF Forking
<1> QED BY <1>2, <1>3

(* A page table has finitely many entries. *)
LEMMA EntriesFinite ==
    ASSUME NEW p \in Procs, NEW f
    PROVE  IsFiniteSet(Entries(p, f)) /\ Cardinality(Entries(p, f)) \in Nat
<1>1. IsFiniteSet(VAs) /\ Entries(p, f) \subseteq VAs
  BY FS_Interval DEF VAs, Entries
<1> QED BY <1>1, FS_Subset, FS_CardinalityType

(* A process that ends stays where processes are when they are not in a service. *)
LEMMA DiesKept ==
    ASSUME LocalInv, shared' \in BOOLEAN, NEW p \in Procs, life[p] = "alive",
           life' = [life EXCEPT ![p] = "zombie"], Moves(p), PlaceOK(p)', at'[p] = "user",
           area' = area, free' = free, pt' = pt, wr' = wr
    PROVE  LocalInv'
<1>t. /\ TypeOK /\ life \in [Procs -> {"unused", "embryo", "alive", "zombie"}] /\ ForksOK
      /\ WritablePresent /\ \A q \in Procs : loc[q].child \in Procs \cup {None}
  BY DEF LocalInv, TypeOK, LocType
<1>1. Spares(p)
  BY <1>t, SparesAll
<1>2. TypeOK'
  BY <1>t, <1>1 DEF TypeOK, Moves, Spares
<1>3. ForksOK'
  <2>1. \A q \in Procs : at'[q] \in Forking =>
            q # p /\ at[q] \in Forking /\ loc'[q].child = loc[q].child
    BY DEF Moves, Forking
  <2> QED BY <1>t, <2>1 DEF ForksOK
<1>4. WritablePresent'
  BY <1>t DEF WritablePresent, Present
<1> QED BY <1>1, <1>2, <1>3, <1>4, PlacesKept DEF LocalInv

(* The access was not allowed. *)
LEMMA FaultKillsLocal ==
    ASSUME LocalInv, shared' \in BOOLEAN, NEW p \in Procs, FaultKills(p)
    PROVE  LocalInv'
<1>t. /\ TypeOK /\ PlaceOK(p) /\ None = 0
      /\ loc[p] \in LocType /\ area \in [Areas -> AreaType] /\ free \in [Pages -> Nat]
      /\ mem \in [Procs -> Pages \cup {None}] /\ at \in [Procs -> AtType]
      /\ loc \in [Procs -> LocType]
  BY DEF LocalInv, TypeOK, None
<1>1. /\ life' = [life EXCEPT ![p] = "zombie"] /\ life[p] = "alive" /\ at[p] = "user"
      /\ area' = area /\ free' = free /\ pt' = pt /\ wr' = wr /\ at' = at /\ mem' = mem /\ loc' = loc
  BY DEF FaultKills, At
<1>2. Moves(p) /\ PlaceOK(p)'
  BY <1>t, <1>1 DEF Moves, PlaceOK
<1> QED BY <1>t, <1>1, <1>2, DiesKept

(* No memory for a page table page. *)
LEMMA FaultNoTableLocal ==
    ASSUME LocalInv, shared' \in BOOLEAN, NEW p \in Procs, FaultNoTable(p)
    PROVE  LocalInv'
<1>t. /\ TypeOK /\ PlaceOK(p) /\ None = 0
      /\ loc[p] \in LocType /\ area \in [Areas -> AreaType] /\ free \in [Pages -> Nat]
      /\ mem \in [Procs -> Pages \cup {None}] /\ at \in [Procs -> AtType]
      /\ loc \in [Procs -> LocType]
  BY DEF LocalInv, TypeOK, None
<1>1. /\ life' = [life EXCEPT ![p] = "zombie"] /\ life[p] = "alive"
      /\ area' = area /\ free' = free /\ pt' = pt /\ wr' = wr /\ mem' = [mem EXCEPT ![p] = None]
  BY DEF FaultNoTable, At
<1>2. Moves(p) /\ PlaceOK(p)' /\ at'[p] = "user"
  <2>1. /\ mem' \in [Procs -> Pages \cup {None}] /\ mem'[p] = None
        /\ \A q \in Procs : q # p => mem'[q] = mem[q]
    BY <1>t, <1>1
  <2> QED BY <2>1, ReturnMoves DEF FaultNoTable
<1> QED BY <1>t, <1>1, <1>2, DiesKept

(* exit() leaves the memory alone. *)
LEMMA ExitLocal ==
    ASSUME LocalInv, shared' \in BOOLEAN, NEW p \in Procs, Exit(p)
    PROVE  LocalInv'
<1>t. /\ TypeOK /\ PlaceOK(p) /\ None = 0
      /\ loc[p] \in LocType /\ area \in [Areas -> AreaType] /\ free \in [Pages -> Nat]
      /\ mem \in [Procs -> Pages \cup {None}] /\ at \in [Procs -> AtType]
      /\ loc \in [Procs -> LocType]
  BY DEF LocalInv, TypeOK, None
<1>1. /\ life' = [life EXCEPT ![p] = "zombie"] /\ life[p] = "alive" /\ at[p] = "user"
      /\ area' = area /\ free' = free /\ pt' = pt /\ wr' = wr /\ at' = at /\ mem' = mem /\ loc' = loc
  BY DEF Exit, At
<1>2. Moves(p) /\ PlaceOK(p)'
  BY <1>t, <1>1 DEF Moves, PlaceOK
<1> QED BY <1>t, <1>1, <1>2, DiesKept

(* Entries that start at an address change hands. *)
LEMMA TakeOverType ==
    ASSUME TypeOK, NEW p \in Procs, NEW va, NEW S, TakeOver(p, va, S)
    PROVE  area' \in [Areas -> AreaType]
<1>1. \A i \in Areas : area[i] \in AreaType /\ [area[i] EXCEPT !.p = p] \in AreaType
  BY NewArea DEF TypeOK
<1> QED BY <1>1 DEF TakeOver

(* munmap() has an entry and the bounds of its loop. *)
LEMMA MunmapLocal ==
    ASSUME LocalInv, shared' \in BOOLEAN, NEW p \in Procs, Munmap(p)
    PROVE  LocalInv'
<1>t. /\ TypeOK /\ PlaceOK(p) /\ None = 0
      /\ loc[p] \in LocType /\ area \in [Areas -> AreaType] /\ free \in [Pages -> Nat]
      /\ mem \in [Procs -> Pages \cup {None}] /\ at \in [Procs -> AtType]
      /\ loc \in [Procs -> LocType]
  BY DEF LocalInv, TypeOK, None
<1>1. life' = life /\ free' = free /\ mem' = mem /\ pt' = pt /\ wr' = wr /\ life[p] = "alive"
      /\ at[p] = "user" /\ Goto(p, "munmap")
  BY DEF Munmap, At
<1>2. PICK va \in VAs : \E i \in StartsAt(va) :
         /\ TakeOver(p, va, 1 .. i)
         /\ SetLoc(p, [NoLocals EXCEPT !.slot = i, !.va = va, !.end = To(area[i])])
  BY DEF Munmap
<1>3. PICK i \in StartsAt(va) :
         /\ TakeOver(p, va, 1 .. i)
         /\ SetLoc(p, [NoLocals EXCEPT !.slot = i, !.va = va, !.end = To(area[i])])
  BY <1>2
<1> DEFINE l == [NoLocals EXCEPT !.slot = i, !.va = va, !.end = To(area[i])]
<1>4. i \in Areas /\ area[i].addr = va
  BY FirstIs DEF StartsAt
<1>5. To(area[i]) \in 0 .. NVA /\ va <= To(area[i])
  BY <1>t, <1>4, Bounds
<1>6. l \in LocType /\ l.slot = i /\ l.va = va /\ l.end = To(area[i]) /\ l.field = 1
  <2>1. i \in 0 .. NAREA + 1 /\ va \in 0 .. NVA
    BY <1>4 DEF VAs, Areas
  <2> QED BY <1>5, <2>1, NoLocalsType, LocSlotVaEnd DEF NoLocals
<1>s. SetLoc(p, l)
  BY <1>3
<1> HIDE DEF l
<1>7. loc' \in [Procs -> LocType] /\ loc'[p] = l /\ \A q \in Procs : q # p => loc'[q] = loc[q]
  BY <1>t, <1>s, <1>6, SetLocEffect
<1>8. at' \in [Procs -> AtType] /\ at'[p] = "munmap" /\ \A q \in Procs : q # p => at'[q] = at[q]
  BY <1>t, <1>1, GotoEffect DEF AtType
<1>9. Moves(p) /\ PlaceOK(p)'
  BY <1>t, <1>1, <1>4, <1>5, <1>6, <1>7, <1>8 DEF Moves, PlaceOK, NFIELD
<1> QED BY <1>t, <1>1, <1>3, <1>8, <1>9, TakeOverType, SparesAll, StepKept DEF Forking

(* munmap() finds no used entry. *)
LEMMA MunmapFailsLocal ==
    ASSUME LocalInv, shared' \in BOOLEAN, NEW p \in Procs, MunmapFails(p)
    PROVE  LocalInv'
<1>t. /\ TypeOK /\ PlaceOK(p) /\ None = 0
      /\ loc[p] \in LocType /\ area \in [Areas -> AreaType] /\ free \in [Pages -> Nat]
      /\ mem \in [Procs -> Pages \cup {None}] /\ at \in [Procs -> AtType]
      /\ loc \in [Procs -> LocType]
  BY DEF LocalInv, TypeOK, None
<1>1. life' = life /\ free' = free /\ mem' = mem /\ pt' = pt /\ wr' = wr /\ at' = at /\ loc' = loc
      /\ at[p] = "user"
  BY DEF MunmapFails, At
<1>2. Moves(p) /\ PlaceOK(p)'
  BY <1>t, <1>1 DEF Moves, PlaceOK, Faults, Present
<1>3. area' \in [Areas -> AreaType]
  BY <1>t, TakeOverType DEF MunmapFails
<1> QED BY <1>t, <1>1, <1>2, <1>3, SparesAll, StepKept DEF Forking

(* A page is given back. *)
LEMMA MunmapPageLocal ==
    ASSUME LocalInv, shared' \in BOOLEAN, NEW p \in Procs, MunmapPage(p)
    PROVE  LocalInv'
<1>t. /\ TypeOK /\ PlaceOK(p) /\ None = 0
      /\ loc[p] \in LocType /\ area \in [Areas -> AreaType] /\ free \in [Pages -> Nat]
      /\ mem \in [Procs -> Pages \cup {None}] /\ at \in [Procs -> AtType]
      /\ loc \in [Procs -> LocType]
  BY DEF LocalInv, TypeOK, None
<1>1. life' = life /\ area' = area /\ mem' = mem /\ at' = at /\ life[p] = "alive" /\ at[p] = "munmap"
      /\ loc[p].va < loc[p].end /\ NextPage(p)
  BY DEF MunmapPage, At
<1>2. Moves(p) /\ PlaceOK(p)' /\ loc[p].va \in VAs
  BY <1>1, RoundMoves
<1>3. CASE ~Present(p, loc[p].va)
  <2>1. free' = free /\ pt' = pt /\ wr' = wr
    BY <1>3 DEF MunmapPage
  <2> QED BY <1>t, <1>1, <1>2, <2>1, SparesAll, StepKept DEF Forking
<1>4. CASE Present(p, loc[p].va)
  <2>1. Kfree(pt[p][loc[p].va]) /\ SetPte(p, loc[p].va, None, FALSE)
    BY <1>4 DEF MunmapPage
  <2>2. pt[p][loc[p].va] \in Pages
    BY <1>t, <1>2, <1>4 DEF TypeOK, PtType, Present
  <2>3. free' \in [Pages -> Nat]
    BY <1>t, <2>1, <2>2, KfreeEffect
  <2>4. Spares(p)
    BY <1>1, <1>2, <2>1, SetPteSpares
  <2> QED BY <1>t, <1>1, <1>2, <2>3, <2>4, StepKept DEF Forking
<1> QED BY <1>3, <1>4

(* A field of the entry is cleared. *)
LEMMA MunmapClearLocal ==
    ASSUME LocalInv, shared' \in BOOLEAN, NEW p \in Procs, MunmapClear(p)
    PROVE  LocalInv'
<1>t. /\ TypeOK /\ PlaceOK(p) /\ None = 0
      /\ loc[p] \in LocType /\ area \in [Areas -> AreaType] /\ free \in [Pages -> Nat]
      /\ mem \in [Procs -> Pages \cup {None}] /\ at \in [Procs -> AtType]
      /\ loc \in [Procs -> LocType]
  BY DEF LocalInv, TypeOK, None
<1>1. life' = life /\ free' = free /\ mem' = mem /\ pt' = pt /\ wr' = wr /\ life[p] = "alive"
      /\ at[p] = "munmap" /\ mem[p] = None
  BY <1>t DEF MunmapClear, At, PlaceOK
<1>2. loc[p].slot \in Areas /\ loc[p].field \in 1 .. NFIELD
  BY <1>t, <1>1 DEF PlaceOK, LocType, NFIELD
<1>3. area' \in [Areas -> AreaType]
  BY <1>t, <1>2, NewArea, StoreType DEF MunmapClear
<1>4. CASE LastField(p)
  <2>1. Moves(p) /\ PlaceOK(p)' /\ at'[p] = "user"
    BY <1>t, <1>1, <1>4, ReturnMoves DEF MunmapClear
  <2> QED BY <1>t, <1>1, <1>3, <2>1, SparesAll, StepKept DEF Forking
<1>5. CASE ~LastField(p)
  <2>1. NextField(p) /\ at' = at
    BY <1>5 DEF MunmapClear
  <2>2. /\ loc' \in [Procs -> LocType] /\ loc'[p] = [loc[p] EXCEPT !.field = @ + 1]
        /\ \A q \in Procs : q # p => loc'[q] = loc[q]
    BY <1>t, <1>2, <2>1, NextFieldEffect
  <2>3. /\ loc'[p].slot = loc[p].slot /\ loc'[p].va = loc[p].va /\ loc'[p].end = loc[p].end
        /\ loc'[p].field <= NFIELD
    BY <1>t, <1>2, <1>5, <2>2 DEF LocType, NFIELD, LastField
  <2>4. Moves(p) /\ PlaceOK(p)'
    BY <1>t, <1>1, <1>2, <2>1, <2>2, <2>3 DEF Moves, PlaceOK
  <2> QED BY <1>t, <1>1, <1>3, <2>1, <2>4, SparesAll, StepKept DEF Forking
<1> QED BY <1>4, <1>5

(* The child of a fork is an embryo of nobody else. *)
LEMMA ForkLocal ==
    ASSUME LocalInv, shared' \in BOOLEAN, NEW p \in Procs, Fork(p)
    PROVE  LocalInv'
<1>t. /\ TypeOK /\ PlaceOK(p) /\ None = 0
      /\ loc[p] \in LocType /\ area \in [Areas -> AreaType] /\ free \in [Pages -> Nat]
      /\ mem \in [Procs -> Pages \cup {None}] /\ at \in [Procs -> AtType]
      /\ loc \in [Procs -> LocType]
  BY DEF LocalInv, TypeOK, None
<1>1. area' = area /\ free' = free /\ mem' = mem /\ pt' = pt /\ wr' = wr /\ life[p] = "alive"
      /\ at[p] = "user" /\ Goto(p, "fork")
  BY DEF Fork, At
<1>2. PICK c \in Procs : /\ life[c] = "unused" /\ life' = [life EXCEPT ![c] = "embryo"]
                         /\ SetLoc(p, [NoLocals EXCEPT !.slot = 1, !.child = c])
  BY DEF Fork
<1> DEFINE l == [NoLocals EXCEPT !.slot = 1, !.child = c]
<1>3. l \in LocType /\ l.slot = 1 /\ l.child = c /\ l.va = 0 /\ l.end = 0
  <2>1. 1 \in 0 .. NAREA + 1
    OBVIOUS
  <2> QED BY <2>1, NoLocalsType, LocSlotChild DEF NoLocals
<1>s. SetLoc(p, l)
  BY <1>2
<1> HIDE DEF l
<1>4. loc' \in [Procs -> LocType] /\ loc'[p] = l /\ \A q \in Procs : q # p => loc'[q] = loc[q]
  BY <1>t, <1>s, <1>3, SetLocEffect
<1>5. at' \in [Procs -> AtType] /\ at'[p] = "fork" /\ \A q \in Procs : q # p => at'[q] = at[q]
  BY <1>t, <1>1, GotoEffect DEF AtType
<1>6. Moves(p)
  BY <1>t, <1>1, <1>4, <1>5 DEF Moves
<1>7. /\ life \in [Procs -> {"unused", "embryo", "alive", "zombie"}]
      /\ life' \in [Procs -> {"unused", "embryo", "alive", "zombie"}]
      /\ \A q \in Procs : q # c => life'[q] = life[q]
      /\ life'[c] = "embryo" /\ c # None /\ c # p
  BY <1>1, <1>2, <1>t DEF TypeOK, Procs
<1>8. Spares(p)
  BY <1>1, <1>2, <1>7, SparesAll
<1>9. PlaceOK(p)'
  <2>1. life'[p] = "alive" /\ mem'[p] = None
    <3>1. mem[p] = None
      BY <1>t, <1>1 DEF PlaceOK
    <3> QED BY <1>1, <1>7, <3>1
  <2>2. loc'[p].va <= loc'[p].end /\ loc'[p].slot # None
    BY <1>t, <1>3, <1>4
  <2> QED BY <1>5, <2>1, <2>2 DEF PlaceOK
<1>10. ForksOK'
  <2>1. ForksOK
    BY DEF LocalInv
  <2>2. \A q \in Procs : q # p => at'[q] = at[q] /\ loc'[q].child = loc[q].child
    BY <1>4, <1>5
  <2>3. \A q \in Procs : q # p /\ at[q] \in Forking => life[loc[q].child] = "embryo" /\ loc[q].child # c
    BY <1>2, <2>1 DEF ForksOK
  <2>4. loc'[p].child = c
    BY <1>3, <1>4
  <2>5. \A q \in Procs : q # p /\ at[q] \in Forking =>
            /\ loc[q].child # None /\ loc[q].child \in Procs
            /\ \A r \in Procs : at[r] \in Forking /\ loc[r].child = loc[q].child => r = q
    BY <1>t, <2>1 DEF ForksOK, LocType
  <2>6. ASSUME NEW q \in Procs, at'[q] \in Forking
        PROVE  /\ loc'[q].child # None /\ life'[loc'[q].child] = "embryo"
               /\ \A r \in Procs : at'[r] \in Forking /\ loc'[r].child = loc'[q].child => r = q
    <3>1. CASE q = p
      <4>1. \A r \in Procs : at'[r] \in Forking /\ loc'[r].child = c => r = p
        BY <2>2, <2>3
      <4>2. loc'[q].child = c /\ life'[c] = "embryo" /\ c # None
        BY <1>7, <2>4, <3>1
      <4> QED BY <3>1, <4>1, <4>2
    <3>2. CASE q # p
      BY <1>7, <2>2, <2>3, <2>4, <2>5, <2>6, <3>2
    <3> QED BY <3>1, <3>2
  <2> QED BY <2>6 DEF ForksOK, Forking
<1>11. TypeOK' /\ WritablePresent'
  BY <1>1, <1>6, <1>7, <1>8 DEF LocalInv, TypeOK, Moves, Spares, WritablePresent, Present
<1> QED BY <1>6, <1>8, <1>9, <1>10, <1>11, PlacesKept DEF LocalInv

(* The outer loop finds an entry to copy and one to copy it to, or moves on. *)
LEMMA ForkAreaLocal ==
    ASSUME LocalInv, shared' \in BOOLEAN, NEW p \in Procs, ForkArea(p)
    PROVE  LocalInv'
<1>t. /\ TypeOK /\ PlaceOK(p) /\ None = 0
      /\ loc[p] \in LocType /\ area \in [Areas -> AreaType] /\ free \in [Pages -> Nat]
      /\ mem \in [Procs -> Pages \cup {None}] /\ at \in [Procs -> AtType]
      /\ loc \in [Procs -> LocType]
  BY DEF LocalInv, TypeOK, None
<1>1. life' = life /\ area' = area /\ free' = free /\ mem' = mem /\ pt' = pt /\ wr' = wr
      /\ life[p] = "alive" /\ at[p] = "fork" /\ loc[p].slot <= NAREA /\ mem[p] = None
  BY <1>t DEF ForkArea, At, PlaceOK
<1>2. loc[p].slot \in Areas /\ loc[p].va <= loc[p].end
  BY <1>t, <1>1 DEF PlaceOK, LocType, Areas
<1>3. /\ Moves(p) /\ PlaceOK(p)' /\ loc'[p].child = loc[p].child
  <2>1. ASSUME NEW u \in First(Unused), SetLoc(p, [loc[p] EXCEPT !.to = u]), Goto(p, "fork_copy")
        PROVE  Moves(p) /\ PlaceOK(p)' /\ loc'[p].child = loc[p].child
    <3> DEFINE l == [loc[p] EXCEPT !.to = u]
    <3>1. u \in Areas
      BY FirstIs DEF Unused
    <3>2. l \in LocType /\ l.to = u /\ l.slot = loc[p].slot /\ l.va = loc[p].va
          /\ l.end = loc[p].end /\ l.child = loc[p].child
      <4>1. u \in 0 .. NAREA
        BY <3>1 DEF Areas
      <4> QED BY <1>t, <4>1, LocSet DEF LocType
    <3>s. SetLoc(p, l)
      BY <2>1
    <3> HIDE DEF l
    <3>3. loc' \in [Procs -> LocType] /\ loc'[p] = l /\ \A q \in Procs : q # p => loc'[q] = loc[q]
      BY <1>t, <3>s, <3>2, SetLocEffect
    <3>4. at' \in [Procs -> AtType] /\ at'[p] = "fork_copy" /\ \A q \in Procs : q # p => at'[q] = at[q]
      BY <1>t, <2>1, GotoEffect DEF AtType
    <3> QED BY <1>t, <1>1, <1>2, <3>1, <3>2, <3>3, <3>4 DEF Moves, PlaceOK
  <2>2. ASSUME SetLoc(p, [loc[p] EXCEPT !.slot = loc[p].slot + 1]), at' = at
        PROVE  Moves(p) /\ PlaceOK(p)' /\ loc'[p].child = loc[p].child
    <3> DEFINE l == [loc[p] EXCEPT !.slot = loc[p].slot + 1]
    <3>2. l \in LocType /\ l.slot # None /\ l.va = loc[p].va
          /\ l.end = loc[p].end /\ l.child = loc[p].child
      <4>1. loc[p].slot + 1 \in 0 .. NAREA + 1 /\ loc[p].slot + 1 # 0
        BY <1>2 DEF Areas
      <4> QED BY <1>t, <4>1, LocSet DEF LocType
    <3>s. SetLoc(p, l)
      BY <2>2
    <3> HIDE DEF l
    <3>3. loc' \in [Procs -> LocType] /\ loc'[p] = l /\ \A q \in Procs : q # p => loc'[q] = loc[q]
      BY <1>t, <3>s, <3>2, SetLocEffect
    <3> QED BY <1>t, <1>1, <1>2, <2>2, <3>2, <3>3 DEF Moves, PlaceOK
  <2> QED BY <2>1, <2>2 DEF ForkArea
<1> QED BY <1>t, <1>1, <1>3, SparesAll, StepKept DEF Forking

(* A field of the parent's entry is copied. *)
LEMMA ForkStoreLocal ==
    ASSUME LocalInv, shared' \in BOOLEAN, NEW p \in Procs, ForkStore(p)
    PROVE  LocalInv'
<1>t. /\ TypeOK /\ PlaceOK(p) /\ None = 0
      /\ loc[p] \in LocType /\ area \in [Areas -> AreaType] /\ free \in [Pages -> Nat]
      /\ mem \in [Procs -> Pages \cup {None}] /\ at \in [Procs -> AtType]
      /\ loc \in [Procs -> LocType]
  BY DEF LocalInv, TypeOK, None
<1>1. life' = life /\ free' = free /\ mem' = mem /\ pt' = pt /\ wr' = wr /\ at' = at
      /\ life[p] = "alive" /\ at[p] = "fork_copy" /\ loc[p].field <= NFIELD /\ mem[p] = None
  BY <1>t DEF ForkStore, At, PlaceOK
<1>2. loc[p].slot \in Areas /\ loc[p].to \in Areas
  BY <1>t, <1>1 DEF PlaceOK
<1>3. area' \in [Areas -> AreaType]
  <2>1. [area[loc[p].slot] EXCEPT !.p = loc[p].child] \in AreaType
    BY <1>t, <1>2, NewArea DEF AreaType, LocType
  <2> QED BY <1>t, <1>1, <1>2, <2>1, StoreType DEF ForkStore
<1>4. /\ loc' \in [Procs -> LocType] /\ loc'[p] = [loc[p] EXCEPT !.field = @ + 1]
      /\ \A q \in Procs : q # p => loc'[q] = loc[q]
  BY <1>t, <1>1, NextFieldEffect DEF ForkStore
<1>5. /\ loc'[p].slot = loc[p].slot /\ loc'[p].va = loc[p].va /\ loc'[p].end = loc[p].end
      /\ loc'[p].to = loc[p].to /\ loc'[p].child = loc[p].child
  BY <1>t, <1>4 DEF LocType
<1>6. Moves(p) /\ PlaceOK(p)'
  BY <1>t, <1>1, <1>2, <1>4, <1>5 DEF Moves, PlaceOK
<1> QED BY <1>t, <1>1, <1>3, <1>5, <1>6, SparesAll, StepKept DEF Forking

(* The page loop of fork has its bounds, in range whatever the entry holds. *)
LEMMA ForkBoundsLocal ==
    ASSUME LocalInv, shared' \in BOOLEAN, NEW p \in Procs, ForkBounds(p)
    PROVE  LocalInv'
<1>t. /\ TypeOK /\ PlaceOK(p) /\ None = 0
      /\ loc[p] \in LocType /\ area \in [Areas -> AreaType] /\ free \in [Pages -> Nat]
      /\ mem \in [Procs -> Pages \cup {None}] /\ at \in [Procs -> AtType]
      /\ loc \in [Procs -> LocType]
  BY DEF LocalInv, TypeOK, None
<1>1. life' = life /\ area' = area /\ free' = free /\ mem' = mem /\ pt' = pt /\ wr' = wr
      /\ life[p] = "alive" /\ at[p] = "fork_copy" /\ mem[p] = None /\ loc[p].slot \in Areas
  BY <1>t DEF ForkBounds, At, PlaceOK
<1> DEFINE a == area[loc[p].slot]
           l == [loc[p] EXCEPT !.to = None, !.field = 1, !.va = From(a), !.end = To(a)]
<1>2. From(a) \in 0 .. NVA /\ To(a) \in 0 .. NVA /\ From(a) <= To(a)
  BY <1>t, <1>1, Bounds
<1> HIDE DEF a
<1>3. l \in LocType /\ l.slot = loc[p].slot /\ l.va <= l.end /\ l.child = loc[p].child
  <2>1. 0 \in 0 .. NAREA /\ 1 \in 1 .. NFIELD + 1
    BY DEF NFIELD
  <2> QED BY <1>t, <1>2, <2>1, LocToFieldVaEnd DEF LocType
<1>s. SetLoc(p, l)
  BY DEF ForkBounds, a
<1> HIDE DEF l
<1>4. loc' \in [Procs -> LocType] /\ loc'[p] = l /\ \A q \in Procs : q # p => loc'[q] = loc[q]
  BY <1>t, <1>s, <1>3, SetLocEffect
<1>5. at' \in [Procs -> AtType] /\ at'[p] = "fork_pages" /\ \A q \in Procs : q # p => at'[q] = at[q]
  BY <1>t, GotoEffect DEF AtType, ForkBounds
<1>6. Moves(p) /\ PlaceOK(p)' /\ loc'[p].child = loc[p].child
  BY <1>t, <1>1, <1>3, <1>4, <1>5 DEF Moves, PlaceOK
<1> QED BY <1>t, <1>1, <1>6, SparesAll, StepKept DEF Forking

(* fork() panics on pages below MMAPBASE. *)
LEMMA ForkLowLocal ==
    ASSUME LocalInv, shared' \in BOOLEAN, NEW p \in Procs, ForkLow(p)
    PROVE  LocalInv'
<1>t. /\ TypeOK /\ PlaceOK(p) /\ None = 0
      /\ loc[p] \in LocType /\ area \in [Areas -> AreaType] /\ free \in [Pages -> Nat]
      /\ mem \in [Procs -> Pages \cup {None}] /\ at \in [Procs -> AtType]
      /\ loc \in [Procs -> LocType]
  BY DEF LocalInv, TypeOK, None
<1>1. life' = life /\ area' = area /\ mem' = mem /\ Panic(p) /\ mem[p] = None /\ at[p] = "fork_copy"
  BY <1>t DEF ForkLow, At, PlaceOK
<1>2. /\ at' \in [Procs -> AtType] /\ at'[p] = "panic" /\ pt' = pt /\ wr' = wr /\ loc' = loc
      /\ \A q \in Procs : q # p => at'[q] = at[q]
  BY <1>t, <1>1, GotoEffect DEF Panic, AtType
<1>3. Moves(p) /\ PlaceOK(p)'
  BY <1>t, <1>1, <1>2 DEF Moves, PlaceOK, ForkLow, At
<1>4. free' \in [Pages -> Nat]
  BY <1>t, KallocEffect DEF ForkLow
<1> QED BY <1>t, <1>1, <1>2, <1>3, <1>4, SparesAll, StepKept DEF Forking

(* The parent's page enters the page table of the embryo. *)
LEMMA ForkPageLocal ==
    ASSUME LocalInv, shared' \in BOOLEAN, NEW p \in Procs, ForkPage(p)
    PROVE  LocalInv'
<1>t. /\ TypeOK /\ PlaceOK(p) /\ None = 0
      /\ loc[p] \in LocType /\ area \in [Areas -> AreaType] /\ free \in [Pages -> Nat]
      /\ mem \in [Procs -> Pages \cup {None}] /\ at \in [Procs -> AtType]
      /\ loc \in [Procs -> LocType]
  BY DEF LocalInv, TypeOK, None
<1>1. life' = life /\ area' = area /\ mem' = mem /\ life[p] = "alive" /\ at[p] = "fork_pages"
      /\ loc[p].va < loc[p].end
  BY DEF ForkPage, At
<1>2. (NextPage(p) /\ at' = at) \/ (Goto(p, "panic") /\ loc' = loc)
  BY DEF ForkPage, Mappages, Panic
<1>3. /\ Moves(p) /\ PlaceOK(p)' /\ loc[p].va \in VAs
      /\ at'[p] \in Forking => at[p] \in Forking /\ loc'[p].child = loc[p].child
  BY <1>1, <1>2, RoundMoves
<1>4. CASE ~Present(p, loc[p].va)
  <2>1. pt' = pt /\ wr' = wr /\ free' = free
    BY <1>4 DEF ForkPage
  <2> QED BY <1>t, <1>1, <1>3, <2>1, SparesAll, StepKept
<1>5. CASE Present(p, loc[p].va)
  <2> DEFINE c == loc[p].child
             w == area[loc[p].slot].write \/ loc[p].va \in wr[p]
  <2>1. (\E f \in Pages : Kalloc(f)) /\ Mappages(p, c, loc[p].va, pt[p][loc[p].va], w)
    BY <1>5 DEF ForkPage
  <2>2. free' \in [Pages -> Nat]
    BY <1>t, <2>1, KallocEffect
  <2>3. c \in Procs /\ life[c] # "alive"
    BY <1>t, <1>1 DEF LocalInv, ForksOK, Forking, LocType
  <2>4. pt[p][loc[p].va] \in Pages /\ pt[p][loc[p].va] # None /\ w \in BOOLEAN
    BY <1>t, <1>3, <1>5 DEF TypeOK, PtType, Present
  <2>5. CASE SetPte(c, loc[p].va, pt[p][loc[p].va], w)
    <3> HIDE DEF c, w
    <3>1. Spares(p)
      BY <1>1, <1>3, <2>3, <2>4, <2>5, SetPteSpares
    <3> QED BY <1>t, <1>1, <1>3, <2>2, <3>1, StepKept
  <2>6. CASE pt' = pt /\ wr' = wr
    BY <1>t, <1>1, <1>3, <2>2, <2>6, SparesAll, StepKept
  <2> QED BY <2>1, <2>5, <2>6 DEF Mappages, Panic
<1> QED BY <1>4, <1>5

(* fork() gives up. *)
LEMMA ForkNoPageLocal ==
    ASSUME LocalInv, shared' \in BOOLEAN, NEW p \in Procs, ForkNoPage(p)
    PROVE  LocalInv'
<1>t. /\ TypeOK /\ PlaceOK(p) /\ None = 0
      /\ loc[p] \in LocType /\ area \in [Areas -> AreaType] /\ free \in [Pages -> Nat]
      /\ mem \in [Procs -> Pages \cup {None}] /\ at \in [Procs -> AtType]
      /\ loc \in [Procs -> LocType]
  BY DEF LocalInv, TypeOK, None
<1>1. life' = life /\ area' = area /\ mem' = mem /\ free' = free /\ pt' = pt /\ wr' = wr
      /\ at[p] \in {"fork_pages", "fork_copy"}
  BY DEF ForkNoPage, At
<1>2. Moves(p) /\ PlaceOK(p)' /\ at'[p] = "user"
  BY <1>t, <1>1, ReturnMoves DEF ForkNoPage, PlaceOK
<1> QED BY <1>t, <1>1, <1>2, SparesAll, StepKept DEF Forking

(* fork() goes on with the next entry. *)
LEMMA ForkAreaDoneLocal ==
    ASSUME LocalInv, shared' \in BOOLEAN, NEW p \in Procs, ForkAreaDone(p)
    PROVE  LocalInv'
<1>t. /\ TypeOK /\ PlaceOK(p) /\ None = 0
      /\ loc[p] \in LocType /\ area \in [Areas -> AreaType] /\ free \in [Pages -> Nat]
      /\ mem \in [Procs -> Pages \cup {None}] /\ at \in [Procs -> AtType]
      /\ loc \in [Procs -> LocType]
  BY DEF LocalInv, TypeOK, None
<1>1. life' = life /\ area' = area /\ free' = free /\ mem' = mem /\ pt' = pt /\ wr' = wr
      /\ life[p] = "alive" /\ at[p] = "fork_pages" /\ mem[p] = None /\ loc[p].slot \in Areas
  BY <1>t DEF ForkAreaDone, At, PlaceOK
<1> DEFINE l == [NoLocals EXCEPT !.slot = loc[p].slot + 1, !.child = loc[p].child]
<1>3. l \in LocType /\ l.slot # None /\ l.va <= l.end /\ l.child = loc[p].child
  <2>1. loc[p].slot + 1 \in 0 .. NAREA + 1 /\ loc[p].slot + 1 # 0 /\ loc[p].child \in Procs \cup {None}
    BY <1>t, <1>1 DEF Areas, LocType
  <2> HIDE DEF l
  <2>2. l \in LocType
    BY <2>1, NoLocalsType, LocSlotChild DEF l
  <2>3. l.slot = loc[p].slot + 1 /\ l.va = 0 /\ l.end = 0 /\ l.child = loc[p].child
    BY NoLocalsType DEF l, NoLocals
  <2> QED BY <1>t, <2>1, <2>2, <2>3
<1>s. SetLoc(p, l)
  BY DEF ForkAreaDone
<1> HIDE DEF l
<1>4. loc' \in [Procs -> LocType] /\ loc'[p] = l /\ \A q \in Procs : q # p => loc'[q] = loc[q]
  BY <1>t, <1>s, <1>3, SetLocEffect
<1>5. at' \in [Procs -> AtType] /\ at'[p] = "fork" /\ \A q \in Procs : q # p => at'[q] = at[q]
  BY <1>t, GotoEffect DEF AtType, ForkAreaDone
<1>6. Moves(p) /\ PlaceOK(p)' /\ loc'[p].child = loc[p].child
  BY <1>t, <1>1, <1>3, <1>4, <1>5 DEF Moves, PlaceOK
<1> QED BY <1>t, <1>1, <1>6, SparesAll, StepKept DEF Forking

(* The child of a fork starts to run, where every process starts. *)
LEMMA ForkReadyLocal ==
    ASSUME LocalInv, shared' \in BOOLEAN, NEW p \in Procs, ForkReady(p)
    PROVE  LocalInv'
<1>t. /\ TypeOK /\ PlaceOK(p) /\ None = 0
      /\ loc[p] \in LocType /\ area \in [Areas -> AreaType] /\ free \in [Pages -> Nat]
      /\ mem \in [Procs -> Pages \cup {None}] /\ at \in [Procs -> AtType]
      /\ loc \in [Procs -> LocType]
  BY DEF LocalInv, TypeOK, None
<1> DEFINE c == loc[p].child
<1>1. life' = [life EXCEPT ![c] = "alive"] /\ area' = area /\ mem' = mem /\ free' = free
      /\ pt' = pt /\ wr' = wr /\ at[p] = "fork" /\ life[p] = "alive" /\ mem[p] = None
  BY <1>t DEF ForkReady, At, PlaceOK
<1>2. ForksOK /\ c \in Procs /\ life[c] = "embryo" /\ c # p
  BY <1>t, <1>1 DEF LocalInv, ForksOK, Forking, LocType
<1>3. Moves(p) /\ PlaceOK(p)' /\ at'[p] = "user"
  BY <1>t, <1>1, ReturnMoves DEF ForkReady
<1>4. life \in [Procs -> {"unused", "embryo", "alive", "zombie"}]
      /\ life' \in [Procs -> {"unused", "embryo", "alive", "zombie"}]
      /\ \A q \in Procs : q # c => life'[q] = life[q]
  BY <1>t, <1>1 DEF TypeOK
<1>5. Spares(p)
  BY <1>1, <1>2, <1>4, SparesAll
<1>6. ForksOK'
  <2>1. \A q \in Procs : at'[q] \in Forking =>
            q # p /\ at[q] \in Forking /\ loc'[q].child = loc[q].child
    BY <1>3 DEF Moves, Forking
  <2>2. \A q \in Procs : q # p /\ at[q] \in Forking => loc[q].child # c
    BY <1>1, <1>2 DEF ForksOK, Forking
  <2>3. \A q \in Procs : loc[q].child \in Procs \cup {None}
    BY <1>t DEF LocType
  <2> HIDE DEF c
  <2> QED BY <1>2, <1>4, <2>1, <2>2, <2>3 DEF ForksOK
<1>7. TypeOK' /\ WritablePresent'
  BY <1>1, <1>3, <1>4, <1>5 DEF LocalInv, TypeOK, Moves, Spares, WritablePresent, Present
<1> QED BY <1>3, <1>5, <1>6, <1>7, PlacesKept DEF LocalInv

(* wait() frees a slot nobody runs in. *)
LEMMA ReapLocal ==
    ASSUME LocalInv, shared' \in BOOLEAN, NEW p \in Procs, Reap(p)
    PROVE  LocalInv'
<1>t. /\ TypeOK /\ PlaceOK(p) /\ None = 0
      /\ loc[p] \in LocType /\ area \in [Areas -> AreaType] /\ free \in [Pages -> Nat]
      /\ mem \in [Procs -> Pages \cup {None}] /\ at \in [Procs -> AtType]
      /\ loc \in [Procs -> LocType]
  BY DEF LocalInv, TypeOK, None
<1>1. life[p] = "zombie" /\ life' = [life EXCEPT ![p] = "unused"] /\ area' = area /\ at' = at
      /\ mem' = mem /\ loc' = loc /\ pt' = [pt EXCEPT ![p] = Cleared(p)]
      /\ wr' = [wr EXCEPT ![p] = {}]
      /\ free' = [f \in Pages |-> free[f] + Cardinality(Entries(p, f))]
  BY DEF Reap
<1>2. /\ life \in [Procs -> {"unused", "embryo", "alive", "zombie"}]
      /\ life' \in [Procs -> {"unused", "embryo", "alive", "zombie"}]
      /\ \A q \in Procs : q # p => life'[q] = life[q]
  BY <1>1, <1>t DEF TypeOK
<1>3. Spares(p)
  <2>1. /\ pt \in PtType /\ wr \in [Procs -> SUBSET VAs]
        /\ \A q \in Procs : \A va \in wr[q] : pt[q][va] # None
    BY DEF LocalInv, TypeOK, WritablePresent, Present
  <2>2. pt' \in PtType /\ wr' \in [Procs -> SUBSET VAs] /\ wr'[p] = {}
        /\ \A q \in Procs : q # p => pt'[q] = pt[q] /\ wr'[q] = wr[q]
    BY <1>1, <2>1 DEF PtType, Cleared
  <2> QED BY <1>2, <2>1, <2>2 DEF Spares
<1>4. Moves(p) /\ PlaceOK(p)'
  BY <1>t, <1>1 DEF Moves, PlaceOK
<1>5. free' \in [Pages -> Nat]
  <2>1. \A f \in Pages : Cardinality(Entries(p, f)) \in Nat
    BY EntriesFinite
  <2> QED BY <1>t, <1>1, <2>1
<1>6. ForksOK'
  BY <1>1, <1>2 DEF LocalInv, ForksOK, Forking
<1>7. TypeOK' /\ WritablePresent'
  BY <1>1, <1>2, <1>3, <1>4, <1>5 DEF LocalInv, TypeOK, Moves, Spares, WritablePresent, Present
<1> QED BY <1>3, <1>4, <1>6, <1>7, PlacesKept DEF LocalInv


-----------------------------------------------------------------------------
(* What a step of a process does to the pages: one of nine things.         *)

(* Page f is taken off the free list, or put on it. *)
Took(f) == /\ free[f] > 0 /\ free'[f] = free[f] - 1
           /\ \A g \in Pages : g # f => free'[g] = free[g]

Gave(f) == /\ free'[f] = free[f] + 1
           /\ \A g \in Pages : g # f => free'[g] = free[g]

(* One entry of one page table is set. *)
Entered(q, va, f) ==
    /\ pt'[q][va] = f
    /\ \A r \in Procs, vb \in VAs : r # q \/ vb # va =>
          pt'[r][vb] = pt[r][vb] /\ (vb \in wr'[r] <=> vb \in wr[r])

Quiet == pt' = pt /\ wr' = wr /\ mem' = mem /\ free' = free

(* A page is taken and not used. *)
Lost == pt' = pt /\ wr' = wr /\ mem' = mem /\ \E f \in Pages : Took(f)

(* The fault handler takes a page in its hand, drops it, or enters it.     *)
Grasps(p) == /\ pt' = pt /\ wr' = wr /\ mem[p] = None
             /\ \E f \in Pages : Took(f) /\ mem' = [mem EXCEPT ![p] = f]

Drops(p) == /\ pt' = pt /\ wr' = wr /\ free' = free
            /\ mem[p] # None /\ mem' = [mem EXCEPT ![p] = None]

Maps(p) == /\ free' = free /\ mem[p] # None /\ mem' = [mem EXCEPT ![p] = None]
           /\ at'[p] \notin Forking
           /\ \E va \in VAs : pt[p][va] = None /\ Entered(p, va, mem[p])

(* mmap() takes a page and enters it; munmap() removes one and frees it.   *)
Fills(p) == /\ mem' = mem /\ at'[p] \notin Forking
            /\ \E f \in Pages, va \in VAs : Took(f) /\ pt[p][va] = None /\ Entered(p, va, f)

Frees(p) == /\ mem' = mem
            /\ \E va \in VAs : pt[p][va] # None /\ Gave(pt[p][va]) /\ Entered(p, va, None)

(* fork() takes a page and enters another, one of the parent's.            *)
Shares(p) == /\ mem' = mem /\ at[p] \in Forking
             /\ \E f \in Pages : Took(f)
             /\ \E q \in Procs, va \in VAs :
                   pt[p][va] # None /\ pt[q][va] = None /\ Entered(q, va, pt[p][va])

Effect(p) == \/ Quiet \/ Lost \/ Grasps(p) \/ Drops(p) \/ Maps(p) \/ Fills(p) \/ Frees(p)
             \/ Shares(p) \/ Reap(p)

(* Nobody gets into fork() but from the start, and with the pages he has.  *)
Comes(p) ==
    /\ \A q \in Procs : q # p => at'[q] = at[q]
    /\ at'[p] \in Forking => at[p] \in Forking \/ (at[p] = "user" /\ at'[p] = "fork" /\ pt' = pt)

LEMMA SetPteEntered ==
    ASSUME LocalInv, NEW q \in Procs, NEW va \in VAs, NEW f \in Pages \cup {None}, NEW w,
           SetPte(q, va, f, w)
    PROVE  Entered(q, va, f)
<1>t. pt \in [Procs -> [VAs -> Pages \cup {None}]] /\ wr \in [Procs -> SUBSET VAs]
  BY DEF LocalInv, TypeOK, PtType
<1> DEFINE W == IF w THEN wr[q] \cup {va} ELSE wr[q] \ {va}
<1>1. pt' = [pt EXCEPT ![q][va] = f] /\ wr' = [wr EXCEPT ![q] = W]
  BY DEF SetPte
<1>2. \A vb \in VAs : vb # va => (vb \in W <=> vb \in wr[q])
  BY <1>t
<1> HIDE DEF W
<1>3. pt'[q][va] = f /\ \A r \in Procs, vb \in VAs : r # q \/ vb # va => pt'[r][vb] = pt[r][vb]
  BY <1>t, <1>1
<1>4. wr'[q] = W /\ \A r \in Procs : r # q => wr'[r] = wr[r]
  BY <1>t, <1>1
<1> QED BY <1>2, <1>3, <1>4 DEF Entered

LEMMA KallocTook == ASSUME LocalInv, NEW f \in Pages, Kalloc(f) PROVE Took(f)
BY KallocEffect DEF LocalInv, TypeOK, Took

LEMMA KfreeGave == ASSUME LocalInv, NEW f \in Pages, Kfree(f) PROVE Gave(f)
BY KfreeEffect DEF LocalInv, TypeOK, Gave

(* The address of a page loop that is not at its end. *)
LEMMA RoundAddress ==
    ASSUME LocalInv, NEW p \in Procs, loc[p].va < loc[p].end
    PROVE  loc[p].va \in VAs
BY DEF LocalInv, TypeOK, LocType, VAs

LEMMA PopulateEffect == ASSUME LocalInv, NEW p \in Procs, Populate(p) PROVE Effect(p)
<1>1. PICK f \in Pages : Kalloc(f) /\ Mappages(p, p, loc[p].va, f, loc[p].write)
  BY DEF Populate
<1>2. loc[p].va \in VAs /\ Took(f) /\ mem' = mem
  BY <1>1, RoundAddress, KallocTook DEF Populate
<1>3. CASE ~Present(p, loc[p].va) /\ SetPte(p, loc[p].va, f, loc[p].write)
  <2>1. Entered(p, loc[p].va, f) /\ pt[p][loc[p].va] = None
    BY <1>2, <1>3, SetPteEntered DEF Present
  <2>2. at'[p] \notin Forking
    <3>1. at[p] = "populate" /\ (at' = at \/ Goto(p, "panic"))
      BY <1>1 DEF Populate, At, Mappages, Panic
    <3> QED BY <3>1, GotoEffect DEF LocalInv, AtType, Forking
  <2> QED BY <1>2, <2>1, <2>2 DEF Effect, Fills
<1>4. CASE pt' = pt /\ wr' = wr
  BY <1>2, <1>4 DEF Effect, Lost
<1> QED BY <1>1, <1>3, <1>4 DEF Mappages, Panic

LEMMA PopulateNoTableEffect == ASSUME LocalInv, NEW p \in Procs, PopulateNoTable(p) PROVE Effect(p)
<1>1. PICK f \in Pages : Kalloc(f)
  BY DEF PopulateNoTable
<1>2. Took(f) /\ mem' = mem /\ pt' = pt /\ wr' = wr
  BY <1>1, KallocTook DEF PopulateNoTable
<1> QED BY <1>2 DEF Effect, Lost

LEMMA FaultEffect == ASSUME LocalInv, NEW p \in Procs, Fault(p) PROVE Effect(p)
<1>1. PICK f \in Pages : Kalloc(f) /\ mem' = [mem EXCEPT ![p] = f]
  BY DEF Fault
<1>2. Took(f) /\ pt' = pt /\ wr' = wr /\ at[p] = "user"
  BY <1>1, KallocTook DEF Fault, At
<1>3. mem[p] = None
  BY <1>2 DEF LocalInv, PlaceOK
<1> QED BY <1>1, <1>2, <1>3 DEF Effect, Grasps

LEMMA FaultMapEffect == ASSUME LocalInv, NEW p \in Procs, FaultMap(p) PROVE Effect(p)
<1>1. /\ loc[p].va \in VAs /\ mem[p] \in Pages /\ mem[p] # None /\ free' = free
  <2>1. at[p] = "fault" /\ free' = free
    BY DEF FaultMap, At
  <2>2. loc[p].va < loc[p].end /\ mem[p] # None /\ mem[p] \in Pages
    BY <2>1 DEF LocalInv, PlaceOK, TypeOK
  <2> QED BY <2>1, <2>2, RoundAddress
<1>2. CASE ~Present(p, loc[p].va)
  <2> DEFINE w == loc[p].write \/ area[loc[p].slot].write
  <2>1. SetPte(p, loc[p].va, mem[p], w) /\ mem' = [mem EXCEPT ![p] = None]
    BY <1>2 DEF FaultMap
  <2> HIDE DEF w
  <2>2. Entered(p, loc[p].va, mem[p]) /\ pt[p][loc[p].va] = None
    BY <1>1, <1>2, <2>1, SetPteEntered DEF Present
  <2>3. at'[p] \notin Forking
    BY <1>2, ReturnEffect DEF FaultMap, LocalInv, Forking
  <2> QED BY <1>1, <2>1, <2>2, <2>3 DEF Effect, Maps
<1>3. CASE Present(p, loc[p].va)
  BY <1>1, <1>3 DEF FaultMap, Panic, Effect, Quiet
<1> QED BY <1>2, <1>3

LEMMA FaultNoTableEffect == ASSUME LocalInv, NEW p \in Procs, FaultNoTable(p) PROVE Effect(p)
<1>1. mem[p] # None
  BY DEF FaultNoTable, At, LocalInv, PlaceOK
<1> QED BY <1>1 DEF FaultNoTable, Effect, Drops

LEMMA MunmapPageEffect == ASSUME LocalInv, NEW p \in Procs, MunmapPage(p) PROVE Effect(p)
<1>1. loc[p].va \in VAs /\ mem' = mem
  BY RoundAddress DEF MunmapPage
<1>2. CASE ~Present(p, loc[p].va)
  BY <1>1, <1>2 DEF MunmapPage, Effect, Quiet
<1>3. CASE Present(p, loc[p].va)
  <2>1. Kfree(pt[p][loc[p].va]) /\ SetPte(p, loc[p].va, None, FALSE)
    BY <1>3 DEF MunmapPage
  <2>2. pt[p][loc[p].va] \in Pages /\ pt[p][loc[p].va] # None
    BY <1>1, <1>3 DEF Present, LocalInv, TypeOK, PtType
  <2>3. Gave(pt[p][loc[p].va])
    BY <2>1, <2>2, KfreeGave
  <2>4. Entered(p, loc[p].va, None)
    BY <1>1, <2>1, SetPteEntered
  <2> QED BY <1>1, <2>2, <2>3, <2>4 DEF Effect, Frees
<1> QED BY <1>2, <1>3

LEMMA ForkLowEffect == ASSUME LocalInv, NEW p \in Procs, ForkLow(p) PROVE Effect(p)
<1>1. PICK f \in Pages : Kalloc(f)
  BY DEF ForkLow
<1>2. Took(f) /\ mem' = mem /\ pt' = pt /\ wr' = wr
  BY <1>1, KallocTook DEF ForkLow, Panic
<1> QED BY <1>2 DEF Effect, Lost

LEMMA ForkPageEffect == ASSUME LocalInv, NEW p \in Procs, ForkPage(p) PROVE Effect(p)
<1>1. loc[p].va \in VAs /\ mem' = mem /\ at[p] \in Forking /\ loc[p].child \in Procs
  <2>1. at[p] \in Forking /\ loc[p].va < loc[p].end /\ mem' = mem
    BY DEF ForkPage, At, Forking
  <2>2. loc[p].child \in Procs
    BY <2>1 DEF LocalInv, ForksOK, TypeOK, LocType
  <2> QED BY <2>1, <2>2, RoundAddress
<1>2. CASE ~Present(p, loc[p].va)
  BY <1>1, <1>2 DEF ForkPage, Effect, Quiet
<1>3. CASE Present(p, loc[p].va)
  <2> DEFINE g == pt[p][loc[p].va]
             c == loc[p].child
             w == area[loc[p].slot].write \/ loc[p].va \in wr[p]
  <2>1. (\E f \in Pages : Kalloc(f)) /\ Mappages(p, c, loc[p].va, g, w)
    BY <1>3 DEF ForkPage
  <2>2. PICK f \in Pages : Took(f)
    BY <2>1, KallocTook
  <2>3. g \in Pages /\ g # None
    BY <1>1, <1>3 DEF Present, LocalInv, TypeOK, PtType
  <2> HIDE DEF w
  <2>4. CASE ~Present(c, loc[p].va) /\ SetPte(c, loc[p].va, g, w)
    <3>1. Entered(c, loc[p].va, g) /\ pt[c][loc[p].va] = None
      BY <1>1, <2>3, <2>4, SetPteEntered DEF Present
    <3> QED BY <1>1, <2>2, <2>3, <3>1 DEF Effect, Shares
  <2>5. CASE pt' = pt /\ wr' = wr
    BY <1>1, <2>2, <2>5 DEF Effect, Lost
  <2> QED BY <2>1, <2>4, <2>5 DEF Mappages, Panic
<1> QED BY <1>2, <1>3

LEMMA StepEffect == ASSUME LocalInv, NEW p \in Procs, Step(p) PROVE Effect(p)
<1>1. CASE MmapStep(p)
  <2>1. ASSUME Mmap(p) \/ MmapStore(p) \/ PopulateEnds(p) PROVE Quiet
    BY <2>1 DEF Mmap, MmapStore, PopulateEnds, Quiet
  <2> QED BY <1>1, <2>1, PopulateEffect, PopulateNoTableEffect DEF MmapStep, Effect
<1>2. CASE FaultStep(p)
  <2>1. ASSUME FaultKills(p) PROVE Quiet
    BY <2>1 DEF FaultKills, Quiet
  <2> QED BY <1>2, <2>1, FaultEffect, FaultMapEffect, FaultNoTableEffect DEF FaultStep, Effect
<1>3. CASE MunmapStep(p)
  <2>1. ASSUME Munmap(p) \/ MunmapFails(p) \/ MunmapClear(p) PROVE Quiet
    BY <2>1 DEF Munmap, MunmapFails, MunmapClear, Quiet
  <2> QED BY <1>3, <2>1, MunmapPageEffect DEF MunmapStep, Effect
<1>4. CASE ForkStep(p)
  <2>1. ASSUME \/ Fork(p) \/ ForkArea(p) \/ ForkStore(p) \/ ForkBounds(p)
               \/ ForkNoPage(p) \/ ForkAreaDone(p) \/ ForkReady(p)
        PROVE  Quiet
    BY <2>1 DEF Fork, ForkArea, ForkStore, ForkBounds, ForkNoPage, ForkAreaDone, ForkReady, Quiet
  <2> QED BY <1>4, <2>1, ForkLowEffect, ForkPageEffect DEF ForkStep, Effect
<1>5. CASE Exit(p)
  BY <1>5 DEF Exit, Effect, Quiet
<1> QED BY <1>1, <1>2, <1>3, <1>4, <1>5 DEF Step, Effect

LEMMA StepComes == ASSUME LocalInv, NEW p \in Procs, Step(p) PROVE Comes(p)
<1>t. at \in [Procs -> AtType] /\ TypeOK
  BY DEF LocalInv, TypeOK
<1>a. ASSUME at' = at PROVE Comes(p)
  BY <1>a DEF Comes
<1>b. ASSUME NEW a \in {"user", "mmap", "populate", "fault", "munmap", "panic"}, Goto(p, a)
      PROVE  Comes(p)
  BY <1>t, <1>b, GotoEffect DEF Comes, AtType, Forking
<1>c. ASSUME NEW a \in Forking, Goto(p, a), at[p] \in Forking PROVE Comes(p)
  BY <1>t, <1>c, GotoEffect DEF Comes, AtType, Forking
<1>d. ASSUME Goto(p, "fork"), at[p] = "user", pt' = pt PROVE Comes(p)
  BY <1>t, <1>d, GotoEffect DEF Comes, AtType
<1>1. CASE MmapStep(p)
  <2>1. \/ at' = at
        \/ Goto(p, "user") \/ Goto(p, "mmap") \/ Goto(p, "populate") \/ Goto(p, "panic")
    BY <1>1 DEF MmapStep, Mmap, MmapStore, Populate, Mappages, Panic, PopulateEnds,
                PopulateNoTable, Return
  <2> QED BY <1>a, <1>b, <2>1
<1>2. CASE FaultStep(p)
  <2>1. at' = at \/ Goto(p, "user") \/ Goto(p, "fault") \/ Goto(p, "panic")
    BY <1>2 DEF FaultStep, Fault, FaultMap, FaultKills, FaultNoTable, Panic, Return
  <2> QED BY <1>a, <1>b, <2>1
<1>3. CASE MunmapStep(p)
  <2>1. at' = at \/ Goto(p, "user") \/ Goto(p, "munmap")
    BY <1>3 DEF MunmapStep, Munmap, MunmapFails, MunmapPage, MunmapClear, Return
  <2> QED BY <1>a, <1>b, <2>1
<1>4. CASE Fork(p)
  <2>1. Goto(p, "fork") /\ at[p] = "user" /\ pt' = pt
    BY <1>4 DEF Fork, At
  <2> QED BY <1>d, <2>1
<1>5. CASE ForkStep(p) /\ ~Fork(p)
  <2>1. /\ at[p] \in Forking
        /\ \/ at' = at \/ Goto(p, "user") \/ Goto(p, "panic")
           \/ Goto(p, "fork") \/ Goto(p, "fork_copy") \/ Goto(p, "fork_pages")
    BY <1>5 DEF ForkStep, ForkArea, ForkStore, ForkBounds, ForkLow, ForkPage, ForkNoPage,
                ForkAreaDone, ForkReady, Mappages, Panic, Return, At, Forking
  <2>2. "fork" \in Forking /\ "fork_copy" \in Forking /\ "fork_pages" \in Forking
    BY DEF Forking
  <2> QED BY <1>a, <1>b, <1>c, <2>1, <2>2
<1>6. CASE Exit(p) \/ Reap(p)
  BY <1>6, <1>a DEF Exit, Reap
<1> QED BY <1>1, <1>2, <1>3, <1>4, <1>5, <1>6 DEF Step

-----------------------------------------------------------------------------
(* What holds in every state.                                              *)

LEMMA InitLocal == Init => LocalInv
<1> SUFFICES ASSUME Init PROVE LocalInv
  OBVIOUS
<1>1. /\ area = [i \in Areas |-> NoArea] /\ loc = [p \in Procs |-> NoLocals]
      /\ pt = [p \in Procs |-> [va \in VAs |-> None]] /\ wr = [p \in Procs |-> {}]
      /\ mem = [p \in Procs |-> None] /\ at = [p \in Procs |-> "user"]
  BY DEF Init
<1>2. TypeOK
  <2>1. /\ area \in [Areas -> AreaType] /\ loc \in [Procs -> LocType] /\ pt \in PtType
        /\ wr \in [Procs -> SUBSET VAs] /\ mem \in [Procs -> Pages \cup {None}]
        /\ at \in [Procs -> AtType]
    BY <1>1, NewArea, NoLocalsType DEF PtType, AtType
  <2>2. /\ life \in [Procs -> {"unused", "embryo", "alive", "zombie"}]
        /\ free \in [Pages -> Nat] /\ shared \in BOOLEAN
    BY DEF Init
  <2> QED BY <2>1, <2>2 DEF TypeOK
<1>3. WritablePresent /\ ForksOK
  BY <1>1 DEF WritablePresent, ForksOK, Forking
<1>4. \A p \in Procs : PlaceOK(p)
  BY <1>1, NoLocalsType DEF PlaceOK
<1> QED BY <1>2, <1>3, <1>4 DEF LocalInv

(* Every step keeps the types and who is where, shared pages or not.       *)
LEMMA NextLocal == ASSUME LocalInv, [Next]_vars PROVE LocalInv'
<1>1. CASE UNCHANGED vars
  BY <1>1 DEF vars, LocalInv, TypeOK, WritablePresent, Present, PlaceOK, Faults, ForksOK
<1>2. CASE Next
  <2>b. shared' \in BOOLEAN
    BY <1>2 DEF Next, LocalInv, TypeOK
  <2>1. ASSUME NEW p \in Procs, MmapStep(p) PROVE LocalInv'
    BY <2>1, <2>b, MmapLocal, MmapStoreLocal, PopulateLocal, PopulateEndsLocal,
       PopulateNoTableLocal DEF MmapStep
  <2>2. ASSUME NEW p \in Procs, FaultStep(p) PROVE LocalInv'
    BY <2>2, <2>b, FaultLocal, FaultMapLocal, FaultKillsLocal, FaultNoTableLocal DEF FaultStep
  <2>3. ASSUME NEW p \in Procs, MunmapStep(p) PROVE LocalInv'
    BY <2>3, <2>b, MunmapLocal, MunmapFailsLocal, MunmapPageLocal, MunmapClearLocal DEF MunmapStep
  <2>4. ASSUME NEW p \in Procs, ForkStep(p) PROVE LocalInv'
    BY <2>4, <2>b, ForkLocal, ForkAreaLocal, ForkStoreLocal, ForkBoundsLocal, ForkLowLocal,
       ForkPageLocal, ForkNoPageLocal, ForkAreaDoneLocal, ForkReadyLocal DEF ForkStep
  <2> QED BY <1>2, <2>1, <2>2, <2>3, <2>4, <2>b, ExitLocal, ReapLocal DEF Next
<1> QED BY <1>1, <1>2

(* A step of the system is a step of a process. *)
LEMMA NextStep == Next => \E p \in Procs : Step(p)
BY DEF Next, Step

(* In every reachable state, with or without shared pages, torn entries or *)
(* not: table indices and page loops in range, PTE_W only in present       *)
(* entries, one embryo of its own for each fork, and for a fault handler a *)
(* page in its hand and the fault as trap() saw it, the entry absent or    *)
(* present without PTE_W.                                                  *)
THEOREM LocalInvariance == Spec => []LocalInv
BY InitLocal, NextLocal, PTL DEF Spec

(* The variables keep their types, whoever stored which field of an entry. *)
THEOREM Types == Spec => []TypeOK
<1>1. LocalInv => TypeOK
  BY DEF LocalInv
<1> QED BY <1>1, LocalInvariance, PTL

-----------------------------------------------------------------------------
(* Pages, until a process forks with a page mapped.                        *)

(* The facts about pages that a step may disturb. *)
PagesOK == NoUseAfterFree /\ PrivatePages /\ HandsOK

LEMMA QuietPages == ASSUME LocalInv, PagesOK, Quiet PROVE PagesOK'
BY DEF Quiet, PagesOK, NoUseAfterFree, PrivatePages, HandsOK

(* What is mapped or in a hand is not on the list, so it is not taken.     *)
LEMMA TookPages ==
    ASSUME LocalInv, PagesOK, NEW f \in Pages, Took(f)
    PROVE  /\ free'[f] = 0 /\ \A g \in Pages : free'[g] <= 1 /\ (free[g] = 0 => free'[g] = 0)
           /\ \A q \in Procs : mem[q] # f /\ \A va \in VAs : pt[q][va] # f
<1>1. free \in [Pages -> Nat] /\ free[f] = 1 /\ \A g \in Pages : free[g] <= 1
  BY DEF LocalInv, TypeOK, PagesOK, NoUseAfterFree, Took
<1>2. \A q \in Procs : mem[q] # f
  BY <1>1 DEF PagesOK, HandsOK
<1>3. \A q \in Procs, va \in VAs : pt[q][va] # f
  BY <1>1 DEF PagesOK, NoUseAfterFree
<1> QED BY <1>1, <1>2, <1>3 DEF Took

LEMMA LostPages == ASSUME LocalInv, PagesOK, Lost PROVE PagesOK'
<1>t. pt \in PtType /\ mem \in [Procs -> Pages \cup {None}]
  BY DEF LocalInv, TypeOK
<1>1. PICK f \in Pages : Took(f)
  BY DEF Lost
<1>2. pt' = pt /\ mem' = mem
  BY DEF Lost
<1>3. \A g \in Pages : free'[g] <= 1 /\ (free[g] = 0 => free'[g] = 0)
  BY <1>1, TookPages
<1> QED BY <1>t, <1>2, <1>3 DEF PagesOK, NoUseAfterFree, PrivatePages, HandsOK, PtType

LEMMA GraspsPages == ASSUME LocalInv, PagesOK, NEW p \in Procs, Grasps(p) PROVE PagesOK'
<1>t. pt \in PtType /\ mem \in [Procs -> Pages \cup {None}]
  BY DEF LocalInv, TypeOK
<1>1. PICK f \in Pages : Took(f) /\ mem' = [mem EXCEPT ![p] = f]
  BY DEF Grasps
<1>2. pt' = pt /\ mem'[p] = f /\ \A q \in Procs : q # p => mem'[q] = mem[q]
  BY <1>t, <1>1 DEF Grasps
<1>3. /\ free'[f] = 0 /\ \A g \in Pages : free'[g] <= 1 /\ (free[g] = 0 => free'[g] = 0)
      /\ \A q \in Procs : mem[q] # f /\ \A va \in VAs : pt[q][va] # f
  BY <1>1, TookPages
<1>4. NoUseAfterFree' /\ PrivatePages'
  BY <1>t, <1>2, <1>3 DEF PagesOK, NoUseAfterFree, PrivatePages, PtType
<1>5. HandsOK'
  BY <1>t, <1>2, <1>3 DEF PagesOK, HandsOK
<1> QED BY <1>4, <1>5 DEF PagesOK

LEMMA DropsPages == ASSUME LocalInv, PagesOK, NEW p \in Procs, Drops(p) PROVE PagesOK'
<1>t. mem \in [Procs -> Pages \cup {None}]
  BY DEF LocalInv, TypeOK
<1>1. /\ pt' = pt /\ free' = free /\ mem'[p] = None
      /\ \A q \in Procs : q # p => mem'[q] = mem[q]
  BY <1>t DEF Drops
<1> QED BY <1>1 DEF PagesOK, NoUseAfterFree, PrivatePages, HandsOK

(* The page in a hand is named by nobody: it can be entered. *)
LEMMA MapsPages == ASSUME LocalInv, PagesOK, NEW p \in Procs, Maps(p) PROVE PagesOK'
<1>t. mem \in [Procs -> Pages \cup {None}]
  BY DEF LocalInv, TypeOK
<1>1. PICK va \in VAs : pt[p][va] = None /\ Entered(p, va, mem[p])
  BY DEF Maps
<1>2. /\ free' = free /\ mem'[p] = None /\ mem[p] # None
      /\ \A q \in Procs : q # p => mem'[q] = mem[q]
  BY <1>t DEF Maps
<1>3. /\ free[mem[p]] = 0
      /\ \A q \in Procs : mem[q] = mem[p] => q = p
      /\ \A q \in Procs, vb \in VAs : pt[q][vb] # mem[p]
  BY <1>2 DEF PagesOK, HandsOK
<1>4. /\ pt'[p][va] = mem[p]
      /\ \A r \in Procs, vb \in VAs : r # p \/ vb # va => pt'[r][vb] = pt[r][vb]
  BY <1>1 DEF Entered
<1>5. NoUseAfterFree'
  BY <1>2, <1>3, <1>4 DEF PagesOK, NoUseAfterFree
<1>6. PrivatePages'
  BY <1>3, <1>4 DEF PagesOK, PrivatePages
<1>7. HandsOK'
  BY <1>2, <1>3, <1>4 DEF PagesOK, HandsOK
<1> QED BY <1>5, <1>6, <1>7 DEF PagesOK

LEMMA FillsPages == ASSUME LocalInv, PagesOK, NEW p \in Procs, Fills(p) PROVE PagesOK'
<1>t. pt \in PtType /\ mem \in [Procs -> Pages \cup {None}]
  BY DEF LocalInv, TypeOK
<1>1. PICK f \in Pages, va \in VAs : Took(f) /\ pt[p][va] = None /\ Entered(p, va, f)
  BY DEF Fills
<1>2. mem' = mem
  BY DEF Fills
<1>3. /\ free'[f] = 0 /\ \A g \in Pages : free'[g] <= 1 /\ (free[g] = 0 => free'[g] = 0)
      /\ \A q \in Procs : mem[q] # f /\ \A vb \in VAs : pt[q][vb] # f
  BY <1>1, TookPages
<1>4. /\ pt'[p][va] = f
      /\ \A r \in Procs, vb \in VAs : r # p \/ vb # va => pt'[r][vb] = pt[r][vb]
  BY <1>1 DEF Entered
<1>5. NoUseAfterFree'
  BY <1>t, <1>3, <1>4 DEF PagesOK, NoUseAfterFree, PtType
<1>6. PrivatePages'
  BY <1>3, <1>4 DEF PagesOK, PrivatePages
<1>7. HandsOK'
  BY <1>t, <1>2, <1>3, <1>4 DEF PagesOK, HandsOK
<1> QED BY <1>5, <1>6, <1>7 DEF PagesOK

(* The page that is freed was mapped once. *)
LEMMA FreesPages == ASSUME LocalInv, PagesOK, NEW p \in Procs, Frees(p) PROVE PagesOK'
<1>t. pt \in PtType /\ mem \in [Procs -> Pages \cup {None}] /\ free \in [Pages -> Nat]
  BY DEF LocalInv, TypeOK
<1>1. PICK va \in VAs : pt[p][va] # None /\ Gave(pt[p][va]) /\ Entered(p, va, None)
  BY DEF Frees
<1> DEFINE f == pt[p][va]
<1>2. mem' = mem
  BY DEF Frees
<1>3. /\ f \in Pages /\ f # None /\ free[f] = 0
      /\ \A q \in Procs : mem[q] # f
      /\ \A q \in Procs, vb \in VAs : q # p \/ vb # va => pt[q][vb] # f
  BY <1>t, <1>1 DEF PagesOK, NoUseAfterFree, PrivatePages, HandsOK, PtType
<1>4. /\ pt'[p][va] = None
      /\ \A r \in Procs, vb \in VAs : r # p \/ vb # va => pt'[r][vb] = pt[r][vb]
  BY <1>1 DEF Entered
<1>5. free'[f] = 1 /\ \A g \in Pages : g # f => free'[g] = free[g]
  BY <1>1, <1>3 DEF Gave
<1> HIDE DEF f
<1>6. NoUseAfterFree'
  <2>1. \A g \in Pages : free'[g] <= 1
    BY <1>t, <1>5 DEF PagesOK, NoUseAfterFree
  <2>2. ASSUME NEW q \in Procs, NEW vb \in VAs, pt'[q][vb] # None
        PROVE  free'[pt'[q][vb]] = 0
    <3>1. q # p \/ vb # va
      BY <1>4, <2>2
    <3>2. pt'[q][vb] = pt[q][vb] /\ pt[q][vb] # f /\ pt[q][vb] \in Pages
      BY <1>t, <1>3, <1>4, <2>2, <3>1 DEF PtType
    <3>3. free[pt[q][vb]] = 0
      BY <2>2, <3>2 DEF PagesOK, NoUseAfterFree
    <3> QED BY <1>5, <3>2, <3>3
  <2> QED BY <2>1, <2>2 DEF NoUseAfterFree
<1>7. PrivatePages'
  BY <1>4 DEF PagesOK, PrivatePages
<1>8. HandsOK'
  BY <1>t, <1>2, <1>3, <1>4, <1>5 DEF PagesOK, HandsOK
<1> QED BY <1>6, <1>7, <1>8 DEF PagesOK

(* A page is in at most one entry of a page table, so wait() frees it once. *)
Named(p, f) == \E va \in VAs : pt[p][va] = f

(* The number of entries that name a page, when pages are private. *)
LEMMA EntriesCount ==
    ASSUME PrivatePages, NEW p \in Procs, NEW f \in Pages
    PROVE  /\ Named(p, f) => Cardinality(Entries(p, f)) = 1
           /\ ~Named(p, f) => Cardinality(Entries(p, f)) = 0
<1>1. ASSUME Named(p, f)
      PROVE  Cardinality(Entries(p, f)) = 1
  <2>1. PICK va \in VAs : pt[p][va] = f
    BY <1>1 DEF Named
  <2>2. f # None
    OBVIOUS
  <2>3. Entries(p, f) = {va}
    BY <2>1, <2>2 DEF Entries, PrivatePages
  <2> QED BY <2>3, FS_Singleton
<1>2. ASSUME ~Named(p, f)
      PROVE  Cardinality(Entries(p, f)) = 0
  <2>1. Entries(p, f) = {}
    BY <1>2 DEF Entries, Named
  <2> QED BY <2>1, FS_EmptySet
<1> QED BY <1>1, <1>2

LEMMA ReapPages == ASSUME LocalInv, PagesOK, NEW p \in Procs, Reap(p) PROVE PagesOK'
<1>t. /\ NoUseAfterFree /\ PrivatePages /\ HandsOK /\ free \in [Pages -> Nat] /\ pt \in PtType
      /\ mem \in [Procs -> Pages \cup {None}]
  BY DEF LocalInv, TypeOK, PagesOK
<1>f. /\ \A f \in Pages : Named(p, f) => free[f] = 0
      /\ \A f \in Pages : free'[f] = IF Named(p, f) THEN free[f] + 1 ELSE free[f]
  <2>1. \A f \in Pages : Named(p, f) => free[f] = 0
    BY <1>t DEF Named, NoUseAfterFree
  <2>2. free' = [f \in Pages |-> free[f] + Cardinality(Entries(p, f))]
    BY DEF Reap
  <2>3. \A f \in Pages : free'[f] = IF Named(p, f) THEN free[f] + 1 ELSE free[f]
    BY <1>t, <2>2, EntriesCount
  <2> QED BY <2>1, <2>3
<1>c. /\ \A va \in VAs : pt'[p][va] = None
      /\ \A q \in Procs, va \in VAs : q # p => pt'[q][va] = pt[q][va]
  BY <1>t DEF Reap, Cleared, PtType
<1>o. /\ \A q \in Procs, va \in VAs : q # p /\ pt[q][va] # None => ~Named(p, pt[q][va])
      /\ \A q \in Procs : mem[q] # None => ~Named(p, mem[q])
  <2>1. \A q \in Procs, va \in VAs : q # p /\ pt[q][va] # None => ~Named(p, pt[q][va])
    BY <1>t DEF Named, PrivatePages
  <2>2. \A q \in Procs : mem[q] # None => ~Named(p, mem[q])
    BY <1>t DEF Named, HandsOK
  <2> QED BY <2>1, <2>2
<1>3. NoUseAfterFree'
  <2>1. \A f \in Pages : free'[f] <= 1
    BY <1>t, <1>f DEF NoUseAfterFree
  <2>2. ASSUME NEW q \in Procs, NEW vb \in VAs, pt'[q][vb] # None
        PROVE  free'[pt'[q][vb]] = 0
    <3>1. q # p /\ pt'[q][vb] = pt[q][vb]
      BY <1>c, <2>2
    <3>2. pt[q][vb] \in Pages /\ free[pt[q][vb]] = 0
      BY <1>t, <2>2, <3>1 DEF NoUseAfterFree, PtType
    <3>3. ~Named(p, pt[q][vb])
      BY <1>o, <2>2, <3>1
    <3> QED BY <1>f, <3>1, <3>2, <3>3
  <2> QED BY <2>1, <2>2 DEF NoUseAfterFree
<1>4. PrivatePages'
  BY <1>t, <1>c DEF PrivatePages
<1>5. HandsOK'
  BY <1>t, <1>f, <1>c, <1>o DEF HandsOK, Reap
<1> QED BY <1>3, <1>4, <1>5 DEF PagesOK

(* Who forks has nothing mapped: it gets nothing, and who starts to fork   *)
(* had nothing.                                                            *)
LEMMA ForkersKept ==
    ASSUME LocalInv, ForkersEmpty, NEW p \in Procs, Step(p), Effect(p), ~Shares(p),
           at[p] = "user" /\ at'[p] = "fork" => ~HasPages(p)
    PROVE  ForkersEmpty'
<1>1. Comes(p)
  BY StepComes
<1>2. ASSUME NEW q \in Procs, at'[q] \in Forking PROVE \A va \in VAs : pt[q][va] = None
  BY <1>1, <1>2 DEF Comes, ForkersEmpty, HasPages
<1>3. ASSUME NEW q \in Procs, at'[q] \in Forking, NEW va \in VAs, pt[q][va] = None
      PROVE  pt'[q][va] = None
  <2>1. CASE pt' = pt
    BY <1>3, <2>1
  <2>2. CASE Fills(p) \/ Maps(p)
    <3>1. q # p
      BY <1>3, <2>2 DEF Fills, Maps
    <3> QED BY <1>3, <2>2, <3>1 DEF Fills, Maps, Entered
  <2>3. CASE Frees(p)
    BY <1>3, <2>3 DEF Frees, Entered
  <2>4. CASE Reap(p)
    <3>1. pt' = [pt EXCEPT ![p] = Cleared(p)] /\ pt \in PtType
      BY <2>4 DEF Reap, LocalInv, TypeOK
    <3> QED BY <1>3, <3>1 DEF PtType, Cleared
  <2> QED BY <2>1, <2>2, <2>3, <2>4 DEF Effect, Quiet, Lost, Grasps, Drops
<1> QED BY <1>2, <1>3 DEF ForkersEmpty

(* Every step preserves the invariant, but for the fork of a process with  *)
(* pages mapped.                                                           *)
LEMMA NextInv == ASSUME MemInv, ~shared', [Next]_vars PROVE MemInv'
<1>t. LocalInv /\ PagesOK /\ ForkersEmpty /\ LocalInv'
  BY NextLocal DEF MemInv, PagesOK
<1>1. CASE UNCHANGED vars
  BY <1>1, <1>t DEF vars, MemInv, NoUseAfterFree, PrivatePages, HandsOK, ForkersEmpty
<1>2. CASE Next
  <2>1. PICK p \in Procs : Step(p)
    BY <1>2, NextStep
  <2>2. at[p] = "user" /\ at'[p] = "fork" => ~HasPages(p)
    BY <1>2 DEF Next
  <2>3. Effect(p) /\ ~Shares(p)
    BY <1>t, <2>1, StepEffect DEF Shares, ForkersEmpty
  <2>4. PagesOK'
    BY <1>t, <2>3, QuietPages, LostPages, GraspsPages, DropsPages, MapsPages, FillsPages, FreesPages,
       ReapPages DEF Effect
  <2>5. ForkersEmpty'
    BY <1>t, <2>1, <2>2, <2>3, ForkersKept
  <2> QED BY <1>t, <2>4, <2>5 DEF MemInv, PagesOK
<1> QED BY <1>1, <1>2

LEMMA InitInv == Init => MemInv
<1> SUFFICES ASSUME Init PROVE MemInv
  OBVIOUS
<1>1. NoUseAfterFree /\ PrivatePages
  BY DEF Init, NoUseAfterFree, PrivatePages
<1>2. HandsOK /\ ForkersEmpty
  BY DEF Init, HandsOK, ForkersEmpty
<1> QED BY <1>1, <1>2, InitLocal DEF MemInv

(* MemSafe holds in every reachable state, whatever the number of          *)
(* processes, areas, addresses and pages, and whatever the entries hold,   *)
(* half stored, half cleared or mixed by two: until a process forks with a *)
(* page mapped, no page is shared, freed twice or handed out while in use. *)
THEOREM MemInvariance == Spec => []MemSafe
<1>1. Init => MemSafe
  BY InitInv DEF MemSafe
<1>2. MemSafe /\ [Next]_vars => MemSafe'
  <2> SUFFICES ASSUME MemSafe, [Next]_vars, ~shared' PROVE MemInv'
    BY DEF MemSafe
  <2>1. ~shared
    BY DEF Next, vars
  <2> QED BY <2>1, NextInv DEF MemSafe
<1> QED BY <1>1, <1>2, PTL DEF Spec

(* Until then a physical page that a page table names is never handed out  *)
(* again, and is freed at most once, by mmap, munmap, the fault handler    *)
(* and wait.                                                               *)
THEOREM FreeSafe == Spec => [](~shared => NoUseAfterFree)
<1>1. MemSafe => (~shared => NoUseAfterFree)
  BY DEF MemSafe, MemInv
<1> QED BY <1>1, MemInvariance, PTL

(* Until then no two processes, and no two addresses of one, share a       *)
(* physical page.                                                          *)
THEOREM PagesPrivate == Spec => [](~shared => PrivatePages)
<1>1. MemSafe => (~shared => PrivatePages)
  BY DEF MemSafe, MemInv
<1> QED BY <1>1, MemInvariance, PTL

-----------------------------------------------------------------------------
(* A step of a process leaves what page tables name alone, but to remove   *)
(* it.                                                                     *)
Kept(q, va) == \/ pt'[q][va] = None
               \/ pt'[q][va] = pt[q][va] /\ (va \in wr'[q] <=> va \in wr[q])

LEMMA StepRemaps ==
    ASSUME LocalInv, NEW p \in Procs, Step(p), NEW q \in Procs, NEW va \in VAs, pt[q][va] # None
    PROVE  Kept(q, va)
<1>1. CASE pt' = pt /\ wr' = wr
  BY <1>1 DEF Kept
<1>2. CASE Maps(p) \/ Fills(p) \/ Frees(p) \/ Shares(p)
  BY <1>2 DEF Maps, Fills, Frees, Shares, Entered, Kept
<1>3. CASE Reap(p)
  <2>1. /\ pt' = [pt EXCEPT ![p] = Cleared(p)] /\ pt \in PtType
        /\ wr' = [wr EXCEPT ![p] = {}] /\ wr \in [Procs -> SUBSET VAs]
    BY <1>3 DEF Reap, LocalInv, TypeOK
  <2> QED BY <2>1 DEF Cleared, PtType, Kept
<1> QED BY <1>1, <1>2, <1>3, StepEffect DEF Effect, Quiet, Lost, Grasps, Drops

(* A present entry of a page table keeps its page and its permission until *)
(* it is removed: a protection fault, the fault handler, which does not    *)
(* look again when it has the page, overlapping areas, populate and fork   *)
(* bring present entries to mappages(), and it panics.                     *)
THEOREM NeverRemaps == Spec => NoRemap
<1>1. LocalInv /\ [Next]_vars
        => [\A p \in Procs, va \in VAs : pt[p][va] # None => Kept(p, va)]_vars
  BY StepRemaps, NextStep
<1>2. [\A p \in Procs, va \in VAs : pt[p][va] # None => Kept(p, va)]_vars
        <=> [\A p \in Procs, va \in VAs :
                pt[p][va] # None =>
                    \/ pt'[p][va] = None
                    \/ pt'[p][va] = pt[p][va] /\ (va \in wr'[p] <=> va \in wr[p])]_vars
  BY DEF Kept
<1> QED BY <1>1, <1>2, LocalInvariance, PTL DEF Spec, NoRemap

-----------------------------------------------------------------------------
(* Conservation.  The three sets that are counted are finite.              *)
LEMMA ListedIs ==
    ASSUME NEW x PROVE x \in Listed <=> \E f \in Pages : \E n \in 1 .. free[f] : x = <<f, n>>
BY DEF Listed

LEMMA ListedFinite == TypeOK => IsFiniteSet(Listed) /\ Cardinality(Listed) \in Nat
<1> SUFFICES ASSUME TypeOK PROVE IsFiniteSet(Listed) /\ Cardinality(Listed) \in Nat
  OBVIOUS
<1> DEFINE L(g) == {g} \X (1 .. free[g])
           S == {L(g) : g \in Pages}
<1>1. IsFiniteSet(Pages)
  OBVIOUS
<1>2. IsFiniteSet(S)
  <2> DEFINE F == [g \in Pages |-> L(g)]
  <2>1. F \in Surjection(Pages, S)
    BY DEF Surjection
  <2> HIDE DEF L, S, F
  <2> QED BY <1>1, <2>1, FS_Surjection
<1>3. \A f \in Pages : IsFiniteSet(L(f))
  <2> TAKE f \in Pages
  <2>1. free[f] \in Int
    BY DEF TypeOK
  <2>2. IsFiniteSet(1 .. free[f])
    BY <2>1, FS_Interval
  <2>3. IsFiniteSet({f})
    BY FS_Singleton
  <2> QED BY <2>2, <2>3, FS_Product
<1>4. IsFiniteSet(UNION S)
  BY <1>2, <1>3, FS_UNION
<1>5. Listed = UNION S
  BY DEF Listed
<1> QED BY <1>4, <1>5, FS_CardinalityType

LEMMA MappedFinite == IsFiniteSet(Mapped) /\ Cardinality(Mapped) \in Nat
<1>1. IsFiniteSet(Procs) /\ IsFiniteSet(VAs)
  BY FS_Interval DEF Procs, VAs
<1>2. IsFiniteSet(Procs \X VAs) /\ Mapped \subseteq Procs \X VAs
  BY <1>1, FS_Product DEF Mapped
<1> QED BY <1>2, FS_Subset, FS_CardinalityType

LEMMA InHandFinite == IsFiniteSet(InHand) /\ Cardinality(InHand) \in Nat
<1>1. IsFiniteSet(Procs) /\ InHand \subseteq Procs
  BY FS_Interval DEF Procs, InHand
<1> QED BY <1>1, FS_Subset, FS_CardinalityType

(* kalloc() takes one from the list, kfree() puts one on it.               *)
LEMMA TookOne ==
    ASSUME TypeOK, NEW f \in Pages, Took(f)
    PROVE  Cardinality(Listed') = Cardinality(Listed) - 1
<1>1. free[f] \in Nat /\ free[f] > 0 /\ <<f, free[f]>> \in Listed
  <2>1. free[f] \in Nat /\ free[f] > 0 /\ free[f] \in 1 .. free[f]
    BY DEF TypeOK, Took
  <2> QED BY <2>1, ListedIs
<1>2. \A g \in Pages : \A n : n \in 1 .. free'[g] <=> n \in 1 .. free[g] /\ <<g, n>> # <<f, free[f]>>
  <2> TAKE g \in Pages
  <2> TAKE n
  <2>1. free[g] \in Nat /\ free'[g] = IF g = f THEN free[g] - 1 ELSE free[g]
    BY DEF TypeOK, Took
  <2> QED BY <2>1
<1>3. Listed' = Listed \ {<<f, free[f]>>}
  <2>1. ASSUME NEW x PROVE x \in Listed' <=> \E g \in Pages : \E n \in 1 .. free'[g] : x = <<g, n>>
    BY DEF Listed
  <2> QED BY <1>2, <2>1, ListedIs
<1> QED BY <1>1, <1>3, ListedFinite, FS_RemoveElement

LEMMA GaveOne ==
    ASSUME TypeOK, NEW f \in Pages, Gave(f)
    PROVE  Cardinality(Listed') = Cardinality(Listed) + 1
<1>1. free[f] \in Nat /\ <<f, free[f] + 1>> \notin Listed
  <2>1. free[f] \in Nat /\ free[f] + 1 \notin 1 .. free[f]
    BY DEF TypeOK
  <2> QED BY <2>1, ListedIs
<1>2. \A g \in Pages : \A n : n \in 1 .. free'[g] <=> n \in 1 .. free[g] \/ <<g, n>> = <<f, free[f] + 1>>
  <2> TAKE g \in Pages
  <2> TAKE n
  <2>1. free[g] \in Nat /\ free'[g] = IF g = f THEN free[g] + 1 ELSE free[g]
    BY DEF TypeOK, Gave
  <2> QED BY <2>1
<1>3. Listed' = Listed \cup {<<f, free[f] + 1>>}
  <2>1. ASSUME NEW x PROVE x \in Listed' <=> \E g \in Pages : \E n \in 1 .. free'[g] : x = <<g, n>>
    BY DEF Listed
  <2> QED BY <1>2, <2>1, ListedIs
<1> QED BY <1>1, <1>3, ListedFinite, FS_AddElement

(* Filling an absent entry maps one more, clearing a present one, one less. *)
LEMMA MappedOne ==
    ASSUME NEW p \in Procs, NEW va \in VAs, NEW f \in Pages \cup {None}, Entered(p, va, f)
    PROVE  /\ pt[p][va] = None /\ f # None => Cardinality(Mapped') = Cardinality(Mapped) + 1
           /\ pt[p][va] # None /\ f = None => Cardinality(Mapped') = Cardinality(Mapped) - 1
<1>1. \A q \in Procs, vb \in VAs : <<q, vb>> # <<p, va>> => pt'[q][vb] = pt[q][vb]
  BY DEF Entered
<1>2. ASSUME pt[p][va] = None, f # None PROVE Cardinality(Mapped') = Cardinality(Mapped) + 1
  <2>1. Mapped' = Mapped \cup {<<p, va>>} /\ <<p, va>> \notin Mapped
    BY <1>1, <1>2 DEF Mapped, Entered
  <2> QED BY <2>1, MappedFinite, FS_AddElement
<1>3. ASSUME pt[p][va] # None, f = None PROVE Cardinality(Mapped') = Cardinality(Mapped) - 1
  <2>1. Mapped' = Mapped \ {<<p, va>>} /\ <<p, va>> \in Mapped
    BY <1>1, <1>3 DEF Mapped, Entered
  <2> QED BY <2>1, MappedFinite, FS_RemoveElement
<1> QED BY <1>2, <1>3

(* A fault handler takes a page in its hand, or lets it go.                *)
LEMMA HandOne ==
    ASSUME TypeOK, NEW p \in Procs, NEW f \in Pages \cup {None}, mem' = [mem EXCEPT ![p] = f]
    PROVE  /\ mem[p] = None /\ f # None => Cardinality(InHand') = Cardinality(InHand) + 1
           /\ mem[p] # None /\ f = None => Cardinality(InHand') = Cardinality(InHand) - 1
<1>1. \A q \in Procs : mem'[q] = IF q = p THEN f ELSE mem[q]
  BY DEF TypeOK
<1>2. ASSUME mem[p] = None, f # None PROVE Cardinality(InHand') = Cardinality(InHand) + 1
  <2>1. InHand' = InHand \cup {p} /\ p \notin InHand
    BY <1>1, <1>2 DEF InHand
  <2> QED BY <2>1, InHandFinite, FS_AddElement
<1>3. ASSUME mem[p] # None, f = None PROVE Cardinality(InHand') = Cardinality(InHand) - 1
  <2>1. InHand' = InHand \ {p} /\ p \in InHand
    BY <1>1, <1>3 DEF InHand
  <2> QED BY <2>1, InHandFinite, FS_RemoveElement
<1> QED BY <1>2, <1>3

(* freevm() puts on the list what the page table maps, as often as it maps *)
(* it: the entries of each page are numbered, so what is listed anew can   *)
(* be counted by what was mapped.                                          *)
Numbering(p, f) == CHOOSE b : b \in Bijection(1 .. Cardinality(Entries(p, f)), Entries(p, f))

LEMMA Numbered ==
    ASSUME NEW p \in Procs, NEW f \in Pages
    PROVE  /\ Cardinality(Entries(p, f)) \in Nat
           /\ Numbering(p, f) \in Bijection(1 .. Cardinality(Entries(p, f)), Entries(p, f))
<1>1. IsFiniteSet(Entries(p, f))
  BY EntriesFinite
<1>2. Cardinality(Entries(p, f)) \in Nat
      /\ ExistsBijection(1 .. Cardinality(Entries(p, f)), Entries(p, f))
  BY <1>1, FS_CardinalityType
<1>3. \E b : b \in Bijection(1 .. Cardinality(Entries(p, f)), Entries(p, f))
  BY <1>2 DEF ExistsBijection
<1> QED BY <1>2, <1>3 DEF Numbering

LEMMA ReapCounts ==
    ASSUME TypeOK, NEW p \in Procs, Reap(p)
    PROVE  /\ Cardinality(Listed') + Cardinality(Mapped') <= Cardinality(Listed) + Cardinality(Mapped)
           /\ Cardinality(Listed') \in Int /\ Cardinality(Mapped') \in Int
<1> DEFINE N(g) == Cardinality(Entries(p, g))
           T == {e \in Mapped : e[1] = p}
           New == Listed' \ Listed
           G == [x \in New |-> <<p, Numbering(p, x[1])[x[2] - free[x[1]]]>>]
<1>1. \A f \in Pages : free[f] \in Nat /\ N(f) \in Nat /\ free'[f] = free[f] + N(f)
  BY Numbered DEF TypeOK, Reap
<1>2. Listed' = Listed \cup New /\ Listed \cap New = {}
  <2>1. ASSUME NEW x \in Listed PROVE x \in Listed'
    <3>1. PICK f \in Pages : \E n \in 1 .. free[f] : x = <<f, n>>
      BY ListedIs
    <3>2. PICK n \in 1 .. free[f] : x = <<f, n>>
      BY <3>1
    <3>3. free[f] \in Nat /\ N(f) \in Nat /\ free'[f] = free[f] + N(f)
      BY <1>1
    <3>4. n \in 1 .. free'[f]
      <4> HIDE DEF N
      <4> QED BY <3>3
    <3> QED BY <3>2, <3>4 DEF Listed
  <2> QED BY <2>1
<1>3. ASSUME NEW x \in New
      PROVE  /\ x[1] \in Pages /\ x[2] - free[x[1]] \in 1 .. N(x[1])
             /\ x = <<x[1], x[2]>> /\ x[2] \in Int
  <2>0. PICK f \in Pages : \E n \in 1 .. free'[f] : x = <<f, n>>
    BY DEF Listed
  <2>1. PICK n \in 1 .. free'[f] : x = <<f, n>>
    BY <2>0
  <2>2. n \notin 1 .. free[f]
    BY <2>1, ListedIs
  <2>3. n - free[f] \in 1 .. N(f)
    <3>1. free[f] \in Nat /\ N(f) \in Nat /\ n \in 1 .. free[f] + N(f)
      BY <1>1
    <3> HIDE DEF N
    <3> QED BY <2>2, <3>1
  <2> QED BY <2>1, <2>3
<1>4. ASSUME NEW x \in New
      PROVE  LET va == Numbering(p, x[1])[x[2] - free[x[1]]]
             IN  va \in VAs /\ pt[p][va] = x[1]
  <2>1. Numbering(p, x[1])[x[2] - free[x[1]]] \in Entries(p, x[1])
    BY <1>3, Numbered DEF Bijection, Injection
  <2> QED BY <2>1 DEF Entries
<1>5. G \in Injection(New, T)
  <2>1. \A x \in New : G[x] \in T
    <3> TAKE x \in New
    <3>1. x[1] # None
      BY <1>3
    <3> QED BY <1>4, <3>1 DEF Mapped
  <2>2. ASSUME NEW x \in New, NEW y \in New, G[x] = G[y] PROVE x = y
    <3>1. Numbering(p, x[1])[x[2] - free[x[1]]] = Numbering(p, y[1])[y[2] - free[y[1]]]
      BY <2>2
    <3>2. x[1] = y[1]
      BY <1>4, <3>1
    <3>3. x[2] - free[x[1]] = y[2] - free[x[1]]
      BY <1>3, <3>1, <3>2, Numbered DEF Bijection, Injection, IsInjective
    <3>4. x[2] = y[2]
      <4>1. free[x[1]] \in Int /\ x[2] \in Int /\ y[2] \in Int
        BY <1>1, <1>3
      <4> QED BY <3>3, <4>1
    <3> QED BY <1>3, <3>2, <3>4
  <2> QED BY <2>1, <2>2 DEF Injection, IsInjective
<1>6. Mapped' = Mapped \ T /\ Mapped \cap T = T
  BY DEF Mapped, Reap, Cleared, TypeOK, PtType
<1>7. IsFiniteSet(T) /\ Cardinality(T) \in Nat /\ Cardinality(Mapped) \in Nat
      /\ Cardinality(Mapped') = Cardinality(Mapped) - Cardinality(T)
  <2>1. T \in SUBSET Mapped
    OBVIOUS
  <2> HIDE DEF T
  <2>2. IsFiniteSet(T)
    BY <2>1, MappedFinite, FS_Subset
  <2>3. Cardinality(T) \in Nat /\ IsFiniteSet(Mapped) /\ Cardinality(Mapped) \in Nat
    BY <2>2, MappedFinite, FS_CardinalityType
  <2>4. Cardinality(Mapped \ T) = Cardinality(Mapped) - Cardinality(Mapped \cap T)
    BY <2>3, FS_Difference
  <2>5. Mapped' = Mapped \ T /\ Mapped \cap T = T
    BY <1>6
  <2> QED BY <2>2, <2>3, <2>4, <2>5
<1>8. IsFiniteSet(New) /\ Cardinality(New) <= Cardinality(T) /\ Cardinality(New) \in Nat
  <2> HIDE DEF G, New, T
  <2>1. IsFiniteSet(New) /\ Cardinality(New) <= Cardinality(T)
    BY <1>5, <1>7, FS_Injection
  <2> QED BY <2>1, FS_CardinalityType
<1>9. Cardinality(Listed) \in Nat /\ Cardinality(Listed') = Cardinality(Listed) + Cardinality(New)
  <2> HIDE DEF New
  <2>1. Cardinality(Listed \cap New) = 0
    BY <1>2, FS_EmptySet
  <2>2. IsFiniteSet(Listed) /\ Cardinality(Listed) \in Nat
    BY ListedFinite
  <2>3. Cardinality(Listed \cup New)
          = Cardinality(Listed) + Cardinality(New) - Cardinality(Listed \cap New)
    BY <1>8, <2>2, FS_Union
  <2> QED BY <1>2, <1>8, <2>1, <2>2, <2>3
<1> HIDE DEF T, New
<1> QED BY <1>7, <1>8, <1>9

LEMMA Counts ==
    ASSUME TypeOK
    PROVE  Cardinality(Listed) \in Nat /\ Cardinality(Mapped) \in Nat /\ Cardinality(InHand) \in Nat
BY ListedFinite, MappedFinite, InHandFinite

LEMMA CountsUnchanged ==
    /\ free' = free => Cardinality(Listed') = Cardinality(Listed)
    /\ pt' = pt => Cardinality(Mapped') = Cardinality(Mapped)
    /\ mem' = mem => Cardinality(InHand') = Cardinality(InHand)
<1>1. ASSUME free' = free PROVE Listed' = Listed
  BY <1>1 DEF Listed
<1>2. ASSUME pt' = pt PROVE Mapped' = Mapped
  BY <1>2 DEF Mapped
<1>3. ASSUME mem' = mem PROVE InHand' = InHand
  BY <1>3 DEF InHand
<1> QED BY <1>1, <1>2, <1>3

LEMMA InitCounts == Init => Conserved
<1> SUFFICES ASSUME Init PROVE Conserved
  OBVIOUS
<1> DEFINE G == [x \in Listed |-> x[1]]
<1>1. Mapped = {} /\ InHand = {}
  BY DEF Init, Mapped, InHand
<1>2. G \in Injection(Listed, Pages)
  <2>1. \A x \in Listed : x = <<x[1], 1>> /\ x[1] \in Pages
    <3> TAKE x \in Listed
    <3>1. PICK f \in Pages : \E n \in 1 .. free[f] : x = <<f, n>>
      BY ListedIs
    <3>2. free[f] = 1
      BY DEF Init
    <3> QED BY <3>1, <3>2
  <2> QED BY <2>1 DEF Injection, IsInjective
<1>3. IsFiniteSet(Pages) /\ Cardinality(Pages) \in Nat
  BY FS_CardinalityType
<1>4. IsFiniteSet(Listed) /\ Cardinality(Listed) <= Cardinality(Pages)
  <2> HIDE DEF G
  <2> QED BY <1>2, <1>3, FS_Injection
<1>5. Cardinality(Listed) \in Nat
  BY <1>4, FS_CardinalityType
<1> QED BY <1>1, <1>3, <1>4, <1>5, FS_EmptySet DEF Conserved
LEMMA StepCounts == ASSUME LocalInv, Conserved, NEW p \in Procs, Step(p) PROVE Conserved'
<1> DEFINE ListedN == Cardinality(Listed)
           MappedN == Cardinality(Mapped)
           InHandN == Cardinality(InHand)
<1>t. /\ TypeOK /\ Effect(p)
      /\ ListedN \in Nat /\ MappedN \in Nat /\ InHandN \in Nat
      /\ ListedN + MappedN + InHandN <= Cardinality(Pages) /\ Cardinality(Pages) \in Nat
  BY Counts, StepEffect, FS_CardinalityType DEF LocalInv, Conserved
<1> SUFFICES ListedN' + MappedN' + InHandN' <= ListedN + MappedN + InHandN
             /\ ListedN' \in Int /\ MappedN' \in Int /\ InHandN' \in Int
  <2> HIDE DEF ListedN, MappedN, InHandN
  <2> QED BY <1>t DEF Conserved, ListedN, MappedN, InHandN
<1>1. ASSUME Quiet PROVE ListedN' = ListedN /\ InHandN' = InHandN /\ MappedN' = MappedN
  BY <1>1, CountsUnchanged DEF Quiet
<1>2. ASSUME Lost PROVE ListedN' = ListedN - 1 /\ InHandN' = InHandN /\ MappedN' = MappedN
  BY <1>t, <1>2, TookOne, CountsUnchanged DEF Lost
<1>3. ASSUME Grasps(p) PROVE ListedN' = ListedN - 1 /\ InHandN' = InHandN + 1 /\ MappedN' = MappedN
  <2>1. PICK f \in Pages : Took(f) /\ mem' = [mem EXCEPT ![p] = f]
    BY <1>3 DEF Grasps
  <2>2. mem[p] = None /\ f # None
    BY <1>3 DEF Grasps
  <2>3. ListedN' = ListedN - 1 /\ InHandN' = InHandN + 1
    BY <1>t, <2>1, <2>2, TookOne, HandOne
  <2> QED BY <1>3, <2>3, CountsUnchanged DEF Grasps
<1>4. ASSUME Drops(p) PROVE ListedN' = ListedN /\ InHandN' = InHandN - 1 /\ MappedN' = MappedN
  BY <1>t, <1>4, HandOne, CountsUnchanged DEF Drops
<1>5. ASSUME Maps(p) PROVE ListedN' = ListedN /\ InHandN' = InHandN - 1 /\ MappedN' = MappedN + 1
  <2>1. PICK va \in VAs : pt[p][va] = None /\ Entered(p, va, mem[p])
    BY <1>5 DEF Maps
  <2>2. mem[p] # None /\ mem[p] \in Pages /\ mem' = [mem EXCEPT ![p] = None]
    BY <1>t, <1>5 DEF Maps, TypeOK
  <2>3. InHandN' = InHandN - 1
    BY <1>t, <2>2, HandOne
  <2>4. MappedN' = MappedN + 1
    BY <2>1, <2>2, MappedOne
  <2> QED BY <1>5, <2>3, <2>4, CountsUnchanged DEF Maps
<1>6. ASSUME Fills(p) PROVE ListedN' = ListedN - 1 /\ InHandN' = InHandN /\ MappedN' = MappedN + 1
  <2>1. PICK f \in Pages, va \in VAs : Took(f) /\ pt[p][va] = None /\ Entered(p, va, f)
    BY <1>6 DEF Fills
  <2>2. f # None
    OBVIOUS
  <2>3. ListedN' = ListedN - 1 /\ MappedN' = MappedN + 1
    BY <1>t, <2>1, <2>2, TookOne, MappedOne
  <2> QED BY <1>6, <2>3, CountsUnchanged DEF Fills
<1>7. ASSUME Frees(p) PROVE ListedN' = ListedN + 1 /\ InHandN' = InHandN /\ MappedN' = MappedN - 1
  <2>1. PICK va \in VAs : pt[p][va] # None /\ Gave(pt[p][va]) /\ Entered(p, va, None)
    BY <1>7 DEF Frees
  <2>2. pt[p][va] \in Pages
    BY <1>t, <2>1 DEF TypeOK, PtType
  <2>3. ListedN' = ListedN + 1
    BY <1>t, <2>1, <2>2, GaveOne
  <2>4. MappedN' = MappedN - 1
    BY <2>1, MappedOne
  <2> QED BY <1>7, <2>3, <2>4, CountsUnchanged DEF Frees
<1>8. ASSUME Shares(p) PROVE ListedN' = ListedN - 1 /\ InHandN' = InHandN /\ MappedN' = MappedN + 1
  <2>0. PICK f \in Pages : Took(f)
    BY <1>8 DEF Shares
  <2>1. PICK q \in Procs, va \in VAs :
            pt[p][va] # None /\ pt[q][va] = None /\ Entered(q, va, pt[p][va])
    BY <1>8 DEF Shares
  <2>2. pt[p][va] \in Pages
    BY <1>t, <2>1 DEF TypeOK, PtType
  <2>3. ListedN' = ListedN - 1
    BY <1>t, <2>0, TookOne
  <2>4. MappedN' = MappedN + 1
    BY <2>1, <2>2, MappedOne
  <2> QED BY <1>8, <2>3, <2>4, CountsUnchanged DEF Shares
<1>9. ASSUME Reap(p)
      PROVE  /\ InHandN' = InHandN /\ ListedN' + MappedN' <= ListedN + MappedN
             /\ ListedN' \in Int /\ MappedN' \in Int
  BY <1>9, <1>t, ReapCounts, CountsUnchanged DEF Reap
<1> HIDE DEF ListedN, MappedN, InHandN
<1> QED BY <1>t, <1>1, <1>2, <1>3, <1>4, <1>5, <1>6, <1>7, <1>8, <1>9 DEF Effect

(* Pages are conserved, however the steps of all processes interleave and  *)
(* whether or not pages are shared: what is free, mapped or in a fault     *)
(* handler's hand, each counted as often as it is, never exceeds what the  *)
(* allocator was given (proc.c, kalloc.c).                                 *)
THEOREM PagesConserved == Spec => []Conserved
<1>1. LocalInv /\ Conserved /\ [Next]_vars => Conserved'
  <2> SUFFICES ASSUME LocalInv, Conserved, [Next]_vars PROVE Conserved'
    OBVIOUS
  <2>1. CASE vars' = vars
    BY <2>1, CountsUnchanged DEF vars, Conserved
  <2> QED BY <2>1, StepCounts, NextStep
<1> QED BY <1>1, InitCounts, LocalInvariance, PTL DEF Spec
=============================================================================
