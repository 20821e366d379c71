------------------------------ MODULE CfsProof ------------------------------
(***************************************************************************)
(* Proofs about Cfs: fair shares and bounded credit on one CPU, for any    *)
(* number of processes, any weights and any number of ticks until the      *)
(* first vruntime wraps.                                                   *)
(***************************************************************************)
EXTENDS Cfs, FiniteSetTheorems, WellFoundedInduction, TLAPS

USE CfsAssumption

(* One CPU, on which no vruntime comes near the point where it wraps.      *)
OneCPU == NCPU = 1 /\ Horizon < Width - 1

(* Processes that compete for the CPU, or will when their fork() is over.  *)
Born(p)  == state[p] \in {"EMBRYO", "RUNNABLE", "RUNNING"} /\ past[p] = "hog"

(* The CPU runs the process that is RUNNING.                               *)
CurrentOK == \A p \in Slots : state[p] = "RUNNING" <=> proc[0] = p

(* Nobody is ahead of its due.                                             *)
DueOK == \A p \in Slots : vruntime[p] <= due[p]

(* A process that forks runs or waits to run; its child has missed the     *)
(* ticks since its vruntime was copied, but is due what its parent is.     *)
ForksOK == \A p \in Slots : np[p] # None =>
    /\ state[p] \in {"RUNNABLE", "RUNNING"} /\ state[np[p]] = "EMBRYO"
    /\ past[np[p]] = past[p] /\ due[np[p]] = due[p]

(* Each slot under construction is the child of one fork.                  *)
EmbryosOK ==
    /\ \A q \in Slots : state[q] = "EMBRYO" => \E p \in Slots : np[p] = q
    /\ \A p, q \in Slots : np[p] # None /\ np[p] = np[q] => p = q

(* Who runs and has not been charged yet was picked as the least; a child  *)
(* under construction may be lower, but its parent was not.                *)
PickedOK == \A p, q \in Slots :
    proc[0] = p /\ irq[0] = "none" /\ Born(p) /\ Born(q) => vruntime[p] <= due[q]

SharesOK == \A p, q \in Slots : Born(p) /\ Born(q) =>
    /\ vruntime[p] <= due[q] + DeltaMax
    /\ vruntime[p] <= Horizon

FairInv == TypeOK /\ CurrentOK /\ DueOK /\ ForksOK /\ EmbryosOK /\ PickedOK /\ SharesOK

-----------------------------------------------------------------------------
(* What a tick adds, and where a wakeup places.                            *)
LEMMA DeltaIs ==
    /\ DeltaMax \in Nat
    /\ \A n \in Nices : Delta[n] \in Nat \ {0} /\ Delta[n] <= DeltaMax
<1>1. PICK n \in Nices : \A m \in Nices : Delta[m] <= Delta[n]
  BY WeightAssumption
<1>2. \E d \in {Delta[m] : m \in Nices} : \A m \in Nices : Delta[m] <= d
  BY <1>1
<1>3. DeltaMax \in {Delta[m] : m \in Nices} /\ \A m \in Nices : Delta[m] <= DeltaMax
  BY <1>2 DEF DeltaMax
<1> QED BY <1>3

LEMMA LeastIs ==
    ASSUME TypeOK
    PROVE  /\ Least \in 0 .. Width - 1
           /\ Least = 0 \/ \E q \in Runnable : Least = vruntime[q]
<1>1. CASE Runnable = {}
  BY <1>1 DEF Least
<1>2. CASE Runnable # {}
  <2> DEFINE S == {vruntime[q] : q \in Runnable}
             R == {r \in Nat \X Nat : r[1] < r[2]}
  <2>1. Runnable \subseteq Slots /\ \A q \in Runnable : vruntime[q] \in 0 .. Width - 1
    BY DEF Runnable, InState, TypeOK
  <2>2. IsWellFoundedOn(R, Nat)
    BY NatLessThanWellFounded DEF OpToRel
  <2>3. S \in SUBSET Nat /\ S # {}
    BY <1>2, <2>1
  <2>4. PICK i \in S : \A j \in S : <<j, i>> \notin R
    <3> HIDE DEF R, S
    <3> QED BY <2>2, <2>3, WFMin
  <2>5. ASSUME NEW j \in S PROVE i <= j
    <3>1. <<j, i>> \notin R /\ i \in Nat /\ j \in Nat
      BY <2>3, <2>4
    <3> QED BY <3>1
  <2>6. \E p \in Runnable : \A q \in Runnable : vruntime[p] <= vruntime[q]
    BY <2>4, <2>5
  <2> DEFINE l == CHOOSE p \in Runnable : \A q \in Runnable : vruntime[p] <= vruntime[q]
  <2>7. l \in Runnable
    BY <2>6
  <2>8. Least = vruntime[l]
    BY <1>2 DEF Least
  <2> QED BY <2>1, <2>7, <2>8
<1> QED BY <1>1, <1>2

LEMMA PlacedIs ==
    ASSUME TypeOK, NEW p \in Slots
    PROVE  Placed(p) \in 0 .. Width - 1
<1>1. Least \in 0 .. Width - 1 /\ Delta[nice[p]] \in Nat
  BY LeastIs, DeltaIs DEF TypeOK
<1> QED BY <1>1 DEF Placed

LEMMA OnlyCPU == OneCPU => CPUs = {0}
BY DEF OneCPU, CPUs

LEMMA ChildIs ==
    ASSUME FairInv, NEW p \in Slots, np[p] # None
    PROVE  /\ np[p] \in Slots /\ state[np[p]] = "EMBRYO" /\ state[p] # "SLEEPING"
           /\ state[p] # "EMBRYO" /\ np[p] # p
BY DEF FairInv, TypeOK, ForksOK

-----------------------------------------------------------------------------
(* Types.                                                                  *)
LEMMA WokenType ==
    ASSUME TypeOK, NEW P \in SUBSET Slots, Woken(P)
    PROVE  /\ vruntime' \in [Slots -> 0 .. Width - 1]
           /\ past' \in [Slots -> {"hog", "sleeper", "stray"}]
           /\ due' \in [Slots -> 0 .. Width - 1]
           /\ Ready(P) \in [Slots -> {"UNUSED", "EMBRYO", "SLEEPING", "RUNNABLE", "RUNNING"}]
<1>1. \A p \in Slots : Placed(p) \in 0 .. Width - 1
  BY PlacedIs
<1>2. NextTo \in {"sleeper", "stray"}
  BY DEF NextTo
<1> QED BY <1>1, <1>2 DEF Woken, Ready, TypeOK

LEMMA TypeStep ==
    ASSUME TypeOK, Next
    PROVE  TypeOK'
<1>0. TypeOK
  OBVIOUS
<1>1. Sleeping \in SUBSET Slots
  BY DEF Sleeping, InState
<1>2. CASE WakeEvent
  BY <1>0, <1>1, <1>2, WokenType DEF WakeEvent, Wakeup1, TypeOK, ctl
<1>3. ASSUME NEW c \in CPUs, Dispatch(c) PROVE TypeOK'
  BY <1>0, <1>3 DEF Dispatch, TypeOK, prog, Selectable, Runnable, InState
<1>4. ASSUME NEW c \in CPUs, Charge(c) PROVE TypeOK'
  <2>1. PICK p \in Slots :
          /\ vruntime[p] + Delta[nice[p]] <= Horizon
          /\ vruntime' = [vruntime EXCEPT ![p] = (@ + Delta[nice[p]]) % Width]
          /\ due' = [q \in Slots |-> IF q = p \/ q = np[p]
                                     THEN IF due[p] <= vruntime'[p] THEN vruntime'[p] ELSE due[p]
                                     ELSE due[q]]
          /\ \/ /\ irq' = [irq EXCEPT ![c] = IF c = 0 THEN "wake" ELSE "yield"]
                /\ UNCHANGED <<state, proc, again>>
             \/ /\ SwitchAway(c, p)
                /\ again' = [again EXCEPT ![p] = TRUE]
          /\ UNCHANGED <<nice, np, past>>
    BY <1>4 DEF Charge
  <2>2. vruntime[p] \in Nat /\ Delta[nice[p]] \in Nat
    BY <1>0, DeltaIs DEF TypeOK
  <2>3. (vruntime[p] + Delta[nice[p]]) % Width \in 0 .. Width - 1
    BY <2>2
  <2>4. vruntime' \in [Slots -> 0 .. Width - 1]
    BY <1>0, <2>1, <2>3 DEF TypeOK
  <2>5. due' \in [Slots -> 0 .. Width - 1]
    BY <1>0, <2>1, <2>4 DEF TypeOK
  <2> QED BY <1>0, <2>1, <2>4, <2>5 DEF SwitchAway, TypeOK
<1>5. ASSUME NEW c \in CPUs, Yield(c) PROVE TypeOK'
  BY <1>0, <1>5 DEF Yield, SwitchAway, TypeOK, prog
<1>6. ASSUME NEW c \in CPUs, TickWake(c) PROVE TypeOK'
  BY <1>0, <1>1, <1>6, WokenType DEF TickWake, Wakeup1, TypeOK
<1>7. ASSUME NEW c \in CPUs, IdleTick(c) \/ Sleep(c) \/ Kill(c) \/ Setnice(c) PROVE TypeOK'
  BY <1>0, <1>1, <1>7 DEF IdleTick, Sleep, Kill, Setnice, TypeOK, prog, ctl
<1>8. ASSUME NEW c \in CPUs, ForkCopy(c) \/ ForkReady(c) PROVE TypeOK'
  <2>1. CASE ForkCopy(c)
    <3>1. PICK p \in Slots, q \in Slots :
            /\ state' = [state EXCEPT ![q] = "EMBRYO"]
            /\ vruntime' = [vruntime EXCEPT ![q] = vruntime[p]]
            /\ nice' = [nice EXCEPT ![q] = nice[p]]
            /\ past' = [past EXCEPT ![q] = past[p]]
            /\ due' = [due EXCEPT ![q] = due[p]]
            /\ np' = [np EXCEPT ![p] = q]
            /\ UNCHANGED ctl
      BY <2>1 DEF ForkCopy, Inherited, InState
    <3> QED BY <1>0, <3>1 DEF TypeOK, ctl
  <2>2. CASE ForkReady(c)
    BY <1>0, <2>2 DEF ForkReady, TypeOK, ctl
  <2> QED BY <1>8, <2>1, <2>2
<1>9. ASSUME NEW c \in CPUs, Exit(c) PROVE TypeOK'
  <2> DEFINE Parents == {{}} \cup {{q} : q \in Sleeping}
  <2>0. Parents \subseteq SUBSET Slots
    BY <1>1
  <2> HIDE DEF Parents
  <2>1. PICK p \in Slots, P \in Parents :
          /\ Woken(P) /\ state' = [Ready(P) EXCEPT ![p] = "UNUSED"]
          /\ proc' = [proc EXCEPT ![c] = None]
          /\ irq' = [irq EXCEPT ![c] = "none"]
          /\ UNCHANGED <<nice, again, np>>
    BY <1>9 DEF Exit, Parents
  <2> QED BY <1>0, <2>0, <2>1, WokenType DEF TypeOK
<1> QED BY <1>2, <1>3, <1>4, <1>5, <1>6, <1>7, <1>8, <1>9 DEF Next

-----------------------------------------------------------------------------
(* Most steps change neither who competes nor what competitors were        *)
(* charged, and leave forks alone.                                         *)
Quiet ==
    /\ np' = np
    /\ \A p \in Slots : Born(p)' => Born(p)
    /\ \A p \in Slots : state'[p] = "EMBRYO" <=> state[p] = "EMBRYO"
    /\ \A p \in Slots : np[p] # None => state'[p] \in {"RUNNABLE", "RUNNING"}
    /\ \A p \in Slots : state[p] \notin {"UNUSED", "SLEEPING"} =>
          vruntime'[p] = vruntime[p] /\ past'[p] = past[p] /\ due'[p] = due[p]
    /\ \A p \in Slots : \/ vruntime'[p] = vruntime[p] /\ due'[p] = due[p]
                        \/ vruntime'[p] = due'[p]

LEMMA QuietStep ==
    ASSUME FairInv, TypeOK', Quiet
    PROVE  DueOK' /\ ForksOK' /\ EmbryosOK' /\ SharesOK'
<1>1. ForksOK'
  <2>1. ASSUME NEW p \in Slots, np[p] # None
        PROVE  /\ due'[p] = due[p] /\ past'[p] = past[p]
               /\ due'[np[p]] = due[np[p]] /\ past'[np[p]] = past[np[p]]
               /\ state'[np[p]] = "EMBRYO" /\ state'[p] \in {"RUNNABLE", "RUNNING"}
    BY <2>1, ChildIs DEF Quiet, FairInv, ForksOK
  <2> QED BY <2>1 DEF Quiet, FairInv, ForksOK
<1>2. EmbryosOK'
  BY DEF Quiet, FairInv, EmbryosOK
<1>3. SharesOK'
  BY DEF Quiet, FairInv, SharesOK, Born
<1>4. DueOK'
  <2>1. \A p \in Slots : vruntime'[p] \in Nat
    BY DEF TypeOK
  <2> QED BY <2>1 DEF Quiet, FairInv, DueOK
<1> QED BY <1>1, <1>2, <1>3, <1>4

(* Nobody is picked by a quiet step that runs nobody new.                  *)
LEMMA SameRuns ==
    ASSUME FairInv, Quiet,
           \A p \in Slots : proc'[0] = p /\ irq'[0] = "none" => proc[0] = p /\ irq[0] = "none"
    PROVE  PickedOK'
BY DEF Quiet, FairInv, PickedOK, Born

LEMMA WakeQuiet ==
    ASSUME FairInv, TypeOK', NEW P \in SUBSET Sleeping, Woken(P), state' = Ready(P),
           UNCHANGED np
    PROVE  Quiet /\ \A p \in Slots : state'[p] = "RUNNING" <=> state[p] = "RUNNING"
<1>1. ASSUME NEW p \in Slots
      PROVE  /\ p \in P => /\ state[p] = "SLEEPING" /\ state'[p] = "RUNNABLE"
                           /\ past'[p] # "hog"
                           /\ vruntime'[p] = due'[p]
             /\ p \notin P => /\ state'[p] = state[p] /\ past'[p] = past[p]
                              /\ vruntime'[p] = vruntime[p] /\ due'[p] = due[p]
  <2>1. NextTo # "hog"
    BY DEF NextTo
  <2> QED BY <2>1 DEF Woken, Ready, Sleeping, InState
<1>2. ASSUME NEW p \in Slots, np[p] # None PROVE state[p] \in {"RUNNABLE", "RUNNING"}
  BY <1>2 DEF FairInv, ForksOK
<1> QED BY <1>1, <1>2 DEF Quiet, Born

LEMMA CalmStep ==
    ASSUME OneCPU, FairInv, TypeOK', NEW c \in CPUs,
           \/ WakeEvent \/ TickWake(c) \/ IdleTick(c) \/ Yield(c)
           \/ Sleep(c) \/ Kill(c) \/ Setnice(c) \/ Exit(c)
    PROVE  FairInv'
<1>0. TypeOK /\ c = 0 /\ 0 \in CPUs /\ None \notin Slots
  BY OnlyCPU DEF FairInv, None, Slots
<1>1. ASSUME NEW p \in Slots, np[p] # None PROVE state[p] \in {"RUNNABLE", "RUNNING"}
  BY <1>1 DEF FairInv, ForksOK
<1>2. \A p \in Slots : state[p] = "RUNNING" <=> proc[0] = p
  BY DEF FairInv, CurrentOK
<1>3. SUFFICES /\ Quiet /\ CurrentOK'
               /\ \A p \in Slots : proc'[0] = p /\ irq'[0] = "none"
                                     => proc[0] = p /\ irq[0] = "none"
  BY QuietStep, SameRuns DEF FairInv
<1>4. CASE WakeEvent
  BY <1>2, <1>4, WakeQuiet DEF WakeEvent, Wakeup1, ctl, CurrentOK
<1>5. CASE TickWake(c)
  <2>1. Quiet /\ CurrentOK'
    BY <1>2, <1>5, WakeQuiet DEF TickWake, Wakeup1, CurrentOK
  <2>2. proc' = proc /\ (proc[0] # None => irq'[0] # "none")
    BY <1>0, <1>5 DEF TickWake, TypeOK
  <2> QED BY <1>0, <2>1, <2>2
<1>6. CASE IdleTick(c)
  BY <1>0, <1>1, <1>2, <1>6 DEF IdleTick, Quiet, Born, CurrentOK, prog, TypeOK
<1>7. CASE Yield(c)
  <2>1. PICK p \in Slots :
          /\ proc[0] = p /\ state' = [state EXCEPT ![p] = "RUNNABLE"]
          /\ proc' = [proc EXCEPT ![0] = None]
          /\ UNCHANGED <<nice, vruntime, again, prog>>
    BY <1>0, <1>7 DEF Yield, SwitchAway
  <2>2. state[p] = "RUNNING" /\ proc'[0] = None
    BY <1>0, <1>2, <2>1 DEF TypeOK
  <2>3. \A q \in Slots : state'[q] = IF q = p THEN "RUNNABLE" ELSE state[q]
    BY <1>0, <2>1 DEF TypeOK
  <2>4. Quiet
    BY <1>1, <2>1, <2>2, <2>3 DEF Quiet, Born, prog
  <2> QED BY <1>0, <1>2, <2>1, <2>2, <2>3, <2>4 DEF CurrentOK
<1>8. CASE Sleep(c)
  <2>1. PICK p \in Slots :
          /\ proc[0] = p /\ np[p] = None /\ state' = [state EXCEPT ![p] = "SLEEPING"]
          /\ proc' = [proc EXCEPT ![0] = None]
          /\ UNCHANGED <<nice, vruntime, irq, again, prog>>
    BY <1>0, <1>8 DEF Sleep, Free, Runs
  <2>2. state[p] = "RUNNING" /\ proc'[0] = None
    BY <1>0, <1>2, <2>1 DEF TypeOK
  <2>3. \A q \in Slots : state'[q] = IF q = p THEN "SLEEPING" ELSE state[q]
    BY <1>0, <2>1 DEF TypeOK
  <2>4. Quiet
    BY <1>1, <2>1, <2>2, <2>3 DEF Quiet, Born, prog
  <2> QED BY <1>0, <1>2, <2>1, <2>2, <2>3, <2>4 DEF CurrentOK
<1>9. CASE Kill(c)
  <2>1. PICK q \in Slots :
          /\ state[q] = "SLEEPING" /\ state' = [state EXCEPT ![q] = "RUNNABLE"]
          /\ past' = [past EXCEPT ![q] = "stray"]
          /\ UNCHANGED <<nice, vruntime, ctl, np, due>>
    BY <1>9 DEF Kill, Sleeping, InState
  <2>2. \A p \in Slots : /\ state'[p] = IF p = q THEN "RUNNABLE" ELSE state[p]
                         /\ past'[p] = IF p = q THEN "stray" ELSE past[p]
    BY <1>0, <2>1 DEF TypeOK
  <2>3. Quiet
    BY <1>1, <2>1, <2>2 DEF Quiet, Born
  <2> QED BY <1>2, <2>1, <2>2, <2>3 DEF CurrentOK, ctl
<1>10. CASE Setnice(c)
  BY <1>1, <1>2, <1>10 DEF Setnice, Quiet, Born, CurrentOK, prog, ctl
<1>11. CASE Exit(c)
  <2> DEFINE Parents == {{}} \cup {{q} : q \in Sleeping}
  <2>1. Parents \subseteq SUBSET Sleeping /\ Sleeping \subseteq Slots
    BY DEF Sleeping, InState
  <2> HIDE DEF Parents
  <2>2. PICK p \in Slots, P \in Parents :
          /\ proc[0] = p /\ np[p] = None
          /\ Woken(P) /\ state' = [Ready(P) EXCEPT ![p] = "UNUSED"]
          /\ proc' = [proc EXCEPT ![0] = None]
          /\ UNCHANGED np
    BY <1>0, <1>11 DEF Exit, Parents
  <2>3. state[p] = "RUNNING" /\ proc'[0] = None
    BY <1>0, <1>2, <2>2 DEF TypeOK
  <2>4. \A q \in P : state[q] = "SLEEPING"
    BY <2>1 DEF Sleeping, InState
  <2>5. ASSUME NEW q \in Slots
        PROVE  /\ state'[q] = IF q = p THEN "UNUSED"
                              ELSE IF q \in P THEN "RUNNABLE" ELSE state[q]
               /\ q \in P => past'[q] # "hog" /\ vruntime'[q] = due'[q]
               /\ q \notin P => /\ past'[q] = past[q] /\ vruntime'[q] = vruntime[q]
                                /\ due'[q] = due[q]
    <3>1. NextTo # "hog"
      BY DEF NextTo
    <3> QED BY <2>2, <3>1 DEF Woken, Ready
  <2>6. Quiet
    BY <1>1, <2>2, <2>3, <2>4, <2>5 DEF Quiet, Born
  <2>7. CurrentOK'
    BY <1>0, <1>2, <2>2, <2>3, <2>4, <2>5 DEF CurrentOK
  <2> QED BY <1>0, <2>3, <2>6, <2>7
<1> QED BY <1>4, <1>5, <1>6, <1>7, <1>8, <1>9, <1>10, <1>11

-----------------------------------------------------------------------------
(* The steps that the bound rests on.                                      *)
LEMMA DispatchStep ==
    ASSUME OneCPU, FairInv, TypeOK', NEW c \in CPUs, Dispatch(c)
    PROVE  FairInv'
<1>0. TypeOK /\ c = 0 /\ 0 \in CPUs /\ None \notin Slots
  BY OnlyCPU DEF FairInv, None, Slots
<1>1. PICK p \in Selectable :
        /\ proc[0] = None /\ \A q \in Selectable : Before(p, q)
        /\ state' = [state EXCEPT ![p] = "RUNNING"]
        /\ proc' = [proc EXCEPT ![0] = p]
        /\ UNCHANGED <<nice, vruntime, prog>>
  BY <1>0 DEF Dispatch
<1>2. p \in Slots /\ state[p] = "RUNNABLE"
  BY <1>1 DEF Selectable, Runnable, InState
<1>3. /\ proc'[0] = p
      /\ \A q \in Slots : state'[q] = IF q = p THEN "RUNNING" ELSE state[q]
  BY <1>0, <1>1, <1>2 DEF TypeOK
<1>4. \A q \in Slots : state[q] # "RUNNING"
  BY <1>0, <1>1 DEF FairInv, CurrentOK
<1>5. CurrentOK'
  BY <1>3, <1>4 DEF CurrentOK
<1>6. Quiet
  BY <1>1, <1>2, <1>3 DEF Quiet, Born, prog, FairInv, ForksOK
<1>7. ASSUME NEW q \in Slots, state[q] = "RUNNABLE", Born(q)
      PROVE  vruntime[p] <= vruntime[q]
  <2>1. vruntime[q] <= Horizon /\ vruntime[q] \in Nat /\ vruntime[p] \in Nat
    BY <1>0, <1>2, <1>7 DEF FairInv, SharesOK, TypeOK
  <2>2. q \in Selectable
    BY <1>7, <2>1 DEF OneCPU, Selectable, Runnable, InState
  <2> QED BY <1>1, <2>1, <2>2 DEF Before
<1>8. PickedOK'
  <2> SUFFICES ASSUME NEW q \in Slots, Born(p), Born(q)
               PROVE  vruntime[p] <= due[q]
    BY <1>1, <1>2, <1>3, <1>6 DEF PickedOK, Quiet, prog, Born
  <2>1. /\ vruntime[p] \in Nat
        /\ \A r \in Slots : vruntime[r] \in Nat /\ due[r] \in Nat /\ vruntime[r] <= due[r]
    BY <1>0, <1>2 DEF TypeOK, FairInv, DueOK
  <2>2. CASE state[q] = "RUNNABLE"
    BY <1>7, <2>1, <2>2
  <2>3. CASE state[q] = "EMBRYO"
    <3>1. PICK r \in Slots : np[r] = q
      BY <2>3 DEF FairInv, EmbryosOK
    <3>2. state[r] = "RUNNABLE" /\ Born(r) /\ due[q] = due[r]
      BY <1>0, <1>4, <3>1 DEF FairInv, ForksOK, Born
    <3>3. vruntime[p] <= vruntime[r]
      BY <1>7, <3>2
    <3> QED BY <2>1, <3>2, <3>3
  <2> QED BY <1>4, <2>2, <2>3 DEF Born
<1> QED BY <1>5, <1>6, <1>8, QuietStep DEF FairInv

LEMMA ChargeStep ==
    ASSUME OneCPU, FairInv, TypeOK', NEW c \in CPUs, Charge(c)
    PROVE  FairInv'
<1>0. /\ TypeOK /\ c = 0 /\ 0 \in CPUs /\ None \notin Slots
      /\ Horizon < Width - 1 /\ Width \in Nat /\ Horizon \in Nat
  BY OnlyCPU DEF FairInv, None, Slots, OneCPU
<1>1. PICK p \in Slots :
        /\ proc[0] = p /\ irq[0] = "none"
        /\ vruntime[p] + Delta[nice[p]] <= Horizon
        /\ vruntime' = [vruntime EXCEPT ![p] = (@ + Delta[nice[p]]) % Width]
        /\ due' = [q \in Slots |-> IF q = p \/ q = np[p]
                                   THEN IF due[p] <= vruntime'[p] THEN vruntime'[p] ELSE due[p]
                                   ELSE due[q]]
        /\ \/ irq' = [irq EXCEPT ![0] = "wake"] /\ UNCHANGED <<state, proc, again>>
           \/ SwitchAway(0, p)
        /\ UNCHANGED <<nice, np, past>>
  BY <1>0 DEF Charge, Runs
<1> DEFINE d == Delta[nice[p]]
           v == vruntime[p]
<1>2. v \in Nat /\ d \in Nat /\ d <= DeltaMax /\ DeltaMax \in Nat /\ v + d <= Horizon
  BY <1>0, <1>1, DeltaIs DEF TypeOK
<1>3. (v + d) % Width = v + d
  BY <1>0, <1>2
<1>4. \A q \in Slots : /\ vruntime'[q] = IF q = p THEN v + d ELSE vruntime[q]
                       /\ vruntime[q] \in Nat /\ due[q] \in Nat /\ vruntime[q] <= due[q]
  BY <1>0, <1>1, <1>3 DEF TypeOK, FairInv, DueOK
(* The child that p is making, if any, is due what p is due. *)
<1>d. /\ due'[p] \in Nat /\ due[p] <= due'[p] /\ v + d <= due'[p]
      /\ \A q \in Slots : q = p \/ q = np[p] => due[q] = due[p] /\ due'[q] = due'[p]
      /\ \A q \in Slots : q # p /\ q # np[p] => due'[q] = due[q]
  <2>1. vruntime'[p] = v + d /\ v + d \in Nat
    BY <1>2, <1>4
  <2>2. np[p] \in Slots => due[np[p]] = due[p]
    BY <1>0 DEF FairInv, ForksOK
  <2> QED BY <1>1, <1>4, <2>1, <2>2
<1>u. \A q \in Slots : due[q] <= due'[q] /\ due'[q] \in Nat
  BY <1>4, <1>d
<1>5. state[p] = "RUNNING"
  BY <1>1 DEF FairInv, CurrentOK
<1>6. /\ \A q \in Slots : q # p => state'[q] = state[q]
      /\ state'[p] \in {"RUNNABLE", "RUNNING"} /\ np' = np /\ past' = past
      /\ CurrentOK' /\ (proc'[0] = None \/ irq'[0] # "none")
  <2>1. CASE irq' = [irq EXCEPT ![0] = "wake"] /\ UNCHANGED <<state, proc, again>>
    BY <1>0, <1>1, <1>5, <2>1 DEF FairInv, CurrentOK, TypeOK
  <2>2. CASE SwitchAway(0, p)
    <3>1. /\ \A q \in Slots : state'[q] = IF q = p THEN "RUNNABLE" ELSE state[q]
          /\ proc'[0] = None
      BY <1>0, <2>2 DEF SwitchAway, TypeOK
    <3> QED BY <1>0, <1>1, <3>1 DEF FairInv, CurrentOK
  <2> QED BY <1>1, <2>1, <2>2
<1>7. \A q \in Slots : Born(q)' <=> Born(q)
  BY <1>5, <1>6 DEF Born
<1>8. PickedOK'
  BY <1>0, <1>6 DEF PickedOK
<1>9. EmbryosOK'
  BY <1>5, <1>6 DEF FairInv, EmbryosOK
<1> HIDE DEF d, v
<1>10. ForksOK'
  <2> SUFFICES ASSUME NEW q \in Slots, np[q] # None
               PROVE  /\ state'[q] \in {"RUNNABLE", "RUNNING"} /\ state'[np[q]] = "EMBRYO"
                      /\ past[np[q]] = past[q] /\ due'[np[q]] = due'[q]
    BY <1>6 DEF ForksOK
  <2>1. /\ np[q] \in Slots /\ np[q] # p /\ state[np[q]] = "EMBRYO"
        /\ state[q] \in {"RUNNABLE", "RUNNING"} /\ q # np[p]
        /\ past[np[q]] = past[q] /\ due[np[q]] = due[q]
    BY <1>0, <1>5, ChildIs DEF FairInv, ForksOK
  <2>2. q # p => np[q] # np[p]
    BY <1>0 DEF FairInv, EmbryosOK
  <2>3. due'[np[q]] = due'[q]
    BY <1>d, <2>1, <2>2
  <2> QED BY <1>6, <2>1, <2>3
<1>11. SharesOK'
  <2> SUFFICES ASSUME NEW q \in Slots, NEW r \in Slots, Born(q), Born(r)
               PROVE  /\ vruntime'[q] <= due'[r] + DeltaMax
                      /\ vruntime'[q] <= Horizon
    BY <1>7 DEF SharesOK
  <2>1. vruntime[q] <= due[r] + DeltaMax /\ vruntime[q] <= Horizon
    BY DEF FairInv, SharesOK
  <2>2. q = p => v <= due[r]
    BY <1>1 DEF FairInv, PickedOK, v
  <2>3. /\ vruntime[q] \in Nat /\ due[r] \in Nat /\ due'[r] \in Nat /\ due[r] <= due'[r]
        /\ vruntime'[q] = IF q = p THEN v + d ELSE vruntime[q]
    BY <1>4, <1>u
  <2> QED BY <1>2, <2>1, <2>2, <2>3
<1>12. DueOK'
  <2>1. \A q \in Slots : vruntime'[q] <= due'[q]
    BY <1>2, <1>4, <1>d, <1>u
  <2> QED BY <2>1 DEF DueOK
<1> QED BY <1>6, <1>8, <1>9, <1>10, <1>11, <1>12 DEF FairInv

LEMMA CopyStep ==
    ASSUME OneCPU, FairInv, TypeOK', NEW c \in CPUs, ForkCopy(c)
    PROVE  FairInv'
<1>0. TypeOK /\ c = 0 /\ 0 \in CPUs /\ None \notin Slots
  BY OnlyCPU DEF FairInv, None, Slots
<1>1. PICK p \in Slots, k \in Slots :
        /\ proc[0] = p /\ np[p] = None /\ state[k] = "UNUSED"
        /\ state' = [state EXCEPT ![k] = "EMBRYO"]
        /\ vruntime' = [vruntime EXCEPT ![k] = vruntime[p]]
        /\ past' = [past EXCEPT ![k] = past[p]]
        /\ due' = [due EXCEPT ![k] = due[p]]
        /\ np' = [np EXCEPT ![p] = k]
        /\ UNCHANGED ctl
  BY <1>0 DEF ForkCopy, Inherited, InState, Free, Runs
<1>2. /\ \A q \in Slots : /\ state'[q] = IF q = k THEN "EMBRYO" ELSE state[q]
                          /\ vruntime'[q] = IF q = k THEN vruntime[p] ELSE vruntime[q]
                          /\ past'[q] = IF q = k THEN past[p] ELSE past[q]
                          /\ np'[q] = IF q = p THEN k ELSE np[q]
                          /\ due'[q] = IF q = k THEN due[p] ELSE due[q]
                          /\ vruntime[q] \in Nat /\ due[q] \in Nat /\ vruntime[q] <= due[q]
      /\ proc' = proc /\ irq' = irq /\ k # None
  BY <1>0, <1>1 DEF TypeOK, ctl, FairInv, DueOK
<1>3. state[p] = "RUNNING" /\ k # p
  BY <1>1 DEF FairInv, CurrentOK
<1>4. CurrentOK'
  BY <1>1, <1>2 DEF FairInv, CurrentOK
<1>6. \A q \in Slots : np[q] # k
  <2>1. ASSUME NEW q \in Slots, np[q] = k PROVE FALSE
    BY <1>1, <1>2, <2>1, ChildIs
  <2> QED BY <2>1
<1>7. ForksOK'
  <2> SUFFICES ASSUME NEW q \in Slots, np'[q] # None
               PROVE  /\ state'[q] \in {"RUNNABLE", "RUNNING"} /\ state'[np'[q]] = "EMBRYO"
                      /\ past'[np'[q]] = past'[q] /\ due'[np'[q]] = due'[q]
    BY DEF ForksOK
  <2>1. CASE q = p
    BY <1>2, <1>3, <2>1
  <2>2. CASE q # p
    <3>1. np[q] \in Slots /\ np[q] # None /\ np[q] # k /\ np'[q] = np[q]
      BY <1>2, <1>6, <2>2, ChildIs
    <3>2. /\ state[q] \in {"RUNNABLE", "RUNNING"} /\ state[np[q]] = "EMBRYO"
          /\ past[np[q]] = past[q] /\ due[np[q]] = due[q]
      BY <3>1 DEF FairInv, ForksOK
    <3>3. q # k
      BY <1>1, <3>2
    <3> QED BY <1>2, <3>1, <3>2, <3>3
  <2> QED BY <2>1, <2>2
<1>8. EmbryosOK'
  <2>1. ASSUME NEW q \in Slots, state'[q] = "EMBRYO" PROVE \E r \in Slots : np'[r] = q
    <3>1. CASE q = k
      BY <1>2, <3>1
    <3>2. CASE q # k
      <4>1. PICK r \in Slots : np[r] = q
        BY <1>2, <2>1, <3>2 DEF FairInv, EmbryosOK
      <4>2. r # p
        BY <1>0, <1>1, <4>1
      <4> QED BY <1>2, <4>1, <4>2
    <3> QED BY <3>1, <3>2
  <2>2. ASSUME NEW q \in Slots, NEW r \in Slots, np'[q] # None, np'[q] = np'[r]
        PROVE  q = r
    <3>1. CASE q = p \/ r = p
      BY <1>2, <1>6, <2>2, <3>1
    <3>2. CASE q # p /\ r # p
      BY <1>2, <2>2, <3>2 DEF FairInv, EmbryosOK
    <3> QED BY <3>1, <3>2
  <2> QED BY <2>1, <2>2 DEF EmbryosOK
<1>9. \A q \in Slots : Born(q)' <=> IF q = k THEN Born(p) ELSE Born(q)
  BY <1>2, <1>3 DEF Born
<1>10. PickedOK'
  BY <1>1, <1>2, <1>3, <1>9 DEF FairInv, PickedOK
<1>11. SharesOK'
  BY <1>2, <1>3, <1>9 DEF FairInv, SharesOK
<1>12. DueOK'
  BY <1>2 DEF DueOK
<1> QED BY <1>4, <1>7, <1>8, <1>10, <1>11, <1>12 DEF FairInv

LEMMA ReadyStep ==
    ASSUME OneCPU, FairInv, TypeOK', NEW c \in CPUs, ForkReady(c)
    PROVE  FairInv'
<1>0. TypeOK /\ c = 0 /\ 0 \in CPUs /\ None \notin Slots
  BY OnlyCPU DEF FairInv, None, Slots
<1>1. PICK p \in Slots :
        /\ proc[0] = p /\ np[p] # None
        /\ state' = [state EXCEPT ![np[p]] = "RUNNABLE"]
        /\ np' = [np EXCEPT ![p] = None]
        /\ UNCHANGED <<nice, vruntime, ctl, past, due>>
  BY <1>0 DEF ForkReady, Runs
<1>2. np[p] \in Slots /\ state[np[p]] = "EMBRYO"
  BY <1>1, ChildIs
<1>3. /\ \A q \in Slots : /\ state'[q] = IF q = np[p] THEN "RUNNABLE" ELSE state[q]
                          /\ np'[q] = IF q = p THEN None ELSE np[q]
      /\ proc' = proc /\ irq' = irq /\ vruntime' = vruntime /\ past' = past /\ due' = due
  BY <1>0, <1>1, <1>2 DEF TypeOK, ctl
<1>4. CurrentOK'
  BY <1>2, <1>3 DEF FairInv, CurrentOK
<1>5. \A q \in Slots : Born(q)' <=> Born(q)
  BY <1>2, <1>3 DEF Born
<1>6. ForksOK'
  <2>1. ASSUME NEW q \in Slots, np'[q] # None
        PROVE  /\ q # p /\ np'[q] = np[q] /\ np[q] \in Slots /\ np[q] # np[p]
               /\ q # np[p]
    <3>1. q # p /\ np'[q] = np[q] /\ np[q] # None
      BY <1>3, <2>1
    <3>2. np[q] \in Slots /\ state[q] # "EMBRYO"
      BY <3>1, ChildIs
    <3>3. np[q] # np[p]
      BY <1>1, <3>1 DEF FairInv, EmbryosOK
    <3> QED BY <1>2, <3>1, <3>2, <3>3
  <2>2. ASSUME NEW q \in Slots, np'[q] # None
        PROVE  /\ state'[q] \in {"RUNNABLE", "RUNNING"} /\ state'[np'[q]] = "EMBRYO"
               /\ past'[np'[q]] = past'[q] /\ due'[np'[q]] = due'[q]
    <3>1. /\ q # p /\ np[q] # None /\ np'[q] = np[q] /\ np[q] \in Slots
          /\ np[q] # np[p] /\ q # np[p]
      BY <1>3, <2>1, <2>2
    <3>2. /\ state[q] \in {"RUNNABLE", "RUNNING"} /\ state[np[q]] = "EMBRYO"
          /\ past[np[q]] = past[q] /\ due[np[q]] = due[q]
      BY <3>1 DEF FairInv, ForksOK
    <3> QED BY <1>3, <3>1, <3>2
  <2> QED BY <2>2 DEF ForksOK
<1>7. EmbryosOK'
  <2>1. ASSUME NEW q \in Slots, state'[q] = "EMBRYO" PROVE \E r \in Slots : np'[r] = q
    <3>1. q # np[p] /\ state[q] = "EMBRYO"
      BY <1>3, <2>1
    <3>2. PICK r \in Slots : np[r] = q
      BY <3>1 DEF FairInv, EmbryosOK
    <3> QED BY <1>3, <3>1, <3>2
  <2>2. ASSUME NEW q \in Slots, NEW r \in Slots, np'[q] # None, np'[q] = np'[r]
        PROVE  q = r
    <3>1. np[q] # None /\ np[q] = np[r]
      BY <1>3, <2>2
    <3> QED BY <3>1 DEF FairInv, EmbryosOK
  <2> QED BY <2>1, <2>2 DEF EmbryosOK
<1>8. PickedOK' /\ SharesOK' /\ DueOK'
  BY <1>3, <1>5 DEF FairInv, PickedOK, SharesOK, DueOK
<1> QED BY <1>4, <1>6, <1>7, <1>8 DEF FairInv

LEMMA InvInit == OneCPU /\ Init => FairInv
<1> SUFFICES ASSUME OneCPU, Init PROVE FairInv
  OBVIOUS
<1>1. TypeOK /\ DeltaMax \in Nat /\ 0 \in CPUs /\ None \notin Slots
  BY OnlyCPU, DeltaIs DEF Init, TypeOK, None, Slots
<1>2. /\ \A p \in Slots : /\ vruntime[p] = 0 /\ due[p] = 0 /\ np[p] = None
                          /\ state[p] \in {"RUNNABLE", "UNUSED"}
      /\ proc[0] = None
  BY <1>1 DEF Init
<1> QED BY <1>1, <1>2 DEF FairInv, CurrentOK, DueOK, ForksOK, EmbryosOK, PickedOK,
                         SharesOK

-----------------------------------------------------------------------------
LEMMA FairInvNext ==
    ASSUME OneCPU, FairInv, Next
    PROVE  FairInv'
<1>1. TypeOK'
  BY TypeStep DEF FairInv
<1>2. CASE WakeEvent
  <2>1. 0 \in CPUs
    BY OnlyCPU
  <2> QED BY <1>1, <1>2, <2>1, CalmStep
<1>3. ASSUME NEW c \in CPUs,
             \/ Dispatch(c) \/ Charge(c) \/ Yield(c) \/ TickWake(c) \/ IdleTick(c)
             \/ Sleep(c) \/ Kill(c) \/ Setnice(c) \/ ForkCopy(c) \/ ForkReady(c) \/ Exit(c)
      PROVE  FairInv'
  BY <1>1, <1>3, CalmStep, DispatchStep, ChargeStep, CopyStep, ReadyStep
<1> QED BY <1>2, <1>3 DEF Next

(* Every part of the invariant holds in every state, on one CPU.           *)
THEOREM Invariance ==
    ASSUME OneCPU
    PROVE  Spec => []FairInv
<1>1. FairInv /\ [Next]_vars => FairInv'
  <2> SUFFICES ASSUME FairInv, [Next]_vars PROVE FairInv'
    OBVIOUS
  <2>1. CASE UNCHANGED vars
    BY <2>1 DEF vars, FairInv, TypeOK, CurrentOK, DueOK, ForksOK, EmbryosOK, PickedOK,
                SharesOK, Born
  <2> QED BY <2>1, FairInvNext
<1>2. Init => FairInv
  BY InvInit
<1> QED BY <1>1, <1>2, PTL DEF Spec

(* On one CPU a process that never slept is at most one tick of the        *)
(* greediest nice value ahead of any other that competes for it, or of     *)
(* what the other is due if it missed ticks inside fork(): what scheduler()*)
(* picks and the timer charges is fair, however the others sleep, are      *)
(* woken, killed, forked or reniced, as long as no vruntime wraps.         *)
THEOREM Fairness ==
    ASSUME OneCPU
    PROVE  Spec => []FairShare
<1>1. FairInv => FairShare
  <2> SUFFICES ASSUME FairInv, NEW p \in Hogs, NEW q \in Hogs
               PROVE  vruntime[p] - due[q] <= DeltaMax
    BY DEF FairShare
  <2>1. p \in Slots /\ q \in Slots /\ Born(p) /\ Born(q)
    BY DEF Hogs, Active, Born
  <2>2. vruntime[p] \in Nat /\ due[q] \in Nat /\ DeltaMax \in Nat
    BY <2>1, DeltaIs DEF FairInv, TypeOK
  <2>3. vruntime[p] <= due[q] + DeltaMax
    BY <2>1 DEF FairInv, SharesOK
  <2> QED BY <2>2, <2>3
<1> QED BY Invariance, <1>1, PTL

(* Every variable keeps its type: a placement next to the least RUNNABLE   *)
(* process is not negative and does not exceed what the unsigned vruntime  *)
(* holds.                                                                  *)
THEOREM Types == Spec => []TypeOK
<1>1. Init => TypeOK
  BY DEF Init, TypeOK, None, Slots
<1>2. TypeOK /\ [Next]_vars => TypeOK'
  BY TypeStep DEF vars, TypeOK
<1> QED BY <1>1, <1>2, PTL DEF Spec

-----------------------------------------------------------------------------
(* The credit of sleepers.  Somebody waits for the CPU at most one tick    *)
(* above x; a wakeup places a sleeper next to one who waits and is level   *)
(* with its due.                                                           *)
Waits(p) == state[p] = "RUNNABLE" /\ past[p] # "stray"
Above(x) == \E s \in Slots : Waits(s) /\ x < vruntime[s] /\ vruntime[s] <= x + DeltaMax
Level(p) == Waits(p) /\ due[p] = vruntime[p]

BelowOK == \A p \in Slots : vruntime[p] <= Horizon

(* From what a sleeper is due up to the hogs there is no gap of more than  *)
(* a tick among those who wait: a sleeper was placed next to one of them,  *)
(* and only the lowest is ever taken away.                                 *)
ChainOK == \A q \in Sleepers, h \in Slots, x \in Nat :
    Born(h) /\ due[q] <= x /\ x + DeltaMax < vruntime[h] => Above(x)

(* The same up to a hog that runs and is not charged yet, one tick more.   *)
AheadOK == \A q \in Sleepers, h \in Slots, x \in Nat :
    /\ proc[0] = h /\ irq[0] = "none" /\ Born(h)
    /\ due[q] <= x /\ x < vruntime[h]
    => Above(x)

CreditInv == FairInv /\ BelowOK /\ ChainOK /\ AheadOK

(* The least who waits stays below the point where a wakeup reads a        *)
(* negative number.                                                        *)
HalfWidth == Horizon < Width \div 2

LEMMA SleepersAre ==
    /\ Sleepers = {p \in Slots : state[p] \in {"RUNNABLE", "RUNNING"} /\ past[p] = "sleeper"}
    /\ Sleepers \subseteq Slots
BY DEF Sleepers, Active

(* A wakeup places a sleeper within one tick below somebody who waits, and *)
(* nobody above the horizon.                                               *)
LEMMA WokenIs ==
    ASSUME HalfWidth, TypeOK, BelowOK, NEW p \in Slots
    PROVE  /\ Placed(p) \in Nat /\ Placed(p) <= Horizon
           /\ NextTo = "sleeper" =>
                 \E b \in Slots : /\ Level(b) /\ Placed(p) <= vruntime[b]
                                  /\ vruntime[b] <= Placed(p) + DeltaMax
<1>1. /\ Least \in Nat /\ Least <= Horizon /\ Horizon \in Nat
      /\ Delta[nice[p]] \in Nat /\ Delta[nice[p]] <= DeltaMax /\ DeltaMax \in Nat
  <2>1. Runnable \subseteq Slots
    BY DEF Runnable, InState
  <2> QED BY <2>1, LeastIs, DeltaIs DEF TypeOK, BelowOK
<1>2. ~(Least >= Width \div 2)
  <2>1. Width \div 2 \in Int
    OBVIOUS
  <2> QED BY <1>1, <2>1 DEF HalfWidth
<1>3. Placed(p) = IF Least < Delta[nice[p]] THEN 0 ELSE Least - Delta[nice[p]]
  BY <1>2 DEF Placed
<1>4. /\ Placed(p) \in Nat /\ Placed(p) <= Least /\ Least <= Placed(p) + DeltaMax
  BY <1>1, <1>3
<1>5. ASSUME NextTo = "sleeper"
      PROVE  \E b \in Slots : Level(b) /\ vruntime[b] = Least
  BY <1>5 DEF NextTo, Runnable, InState, Waits, Level
<1> QED BY <1>1, <1>4, <1>5

(* The steps that take nobody who waits away.  A hog is charged one tick   *)
(* when it ran, and a sleeper appears only at or above another one, or     *)
(* next to somebody who waits.                                             *)
LEMMA ChainStep ==
    ASSUME CreditInv, TypeOK',
           \A s \in Slots : Waits(s) => Waits(s)' /\ vruntime'[s] = vruntime[s],
           \A h \in Slots : Born(h)' =>
              \/ \E g \in Slots : Born(g) /\ vruntime'[h] <= vruntime[g]
              \/ /\ proc[0] = h /\ irq[0] = "none" /\ Born(h)
                 /\ vruntime'[h] <= vruntime[h] + DeltaMax,
           \A q \in Sleepers' :
              \/ \E r \in Sleepers : due[r] <= due'[q]
              \/ \E b \in Slots : /\ Level(b) /\ due'[q] <= vruntime[b]
                                  /\ vruntime[b] <= due'[q] + DeltaMax,
           \A h \in Slots : proc'[0] = h /\ irq'[0] = "none" /\ Born(h)' =>
              proc[0] = h /\ irq[0] = "none" /\ Born(h) /\ vruntime'[h] = vruntime[h]
    PROVE  ChainOK' /\ AheadOK'
<1>1. /\ \A s \in Slots : /\ vruntime[s] \in Nat /\ vruntime'[s] \in Nat
                          /\ due[s] \in Nat /\ due'[s] \in Nat
      /\ DeltaMax \in Nat /\ DeltaMax' = DeltaMax
      /\ Sleepers \subseteq Slots /\ Sleepers' \subseteq Slots
  BY DeltaIs DEF CreditInv, FairInv, TypeOK, Sleepers, Active, DeltaMax
<1>2. ASSUME NEW x \in Nat, Above(x) PROVE Above(x)'
  BY <1>1, <1>2 DEF Above
(* Far below a hog, or a tick below one that runs. *)
<1> DEFINE Far(x)   == \E g \in Slots : Born(g) /\ x + DeltaMax < vruntime[g]
           Ahead(x) == \E g \in Slots : /\ proc[0] = g /\ irq[0] = "none" /\ Born(g)
                                        /\ x < vruntime[g]
<1>3. ASSUME NEW q \in Sleepers', NEW x \in Nat, due'[q] <= x, Far(x) \/ Ahead(x)
      PROVE  Above(x)
  <2>1. CASE \E r \in Sleepers : due[r] <= due'[q]
    <3>1. PICK r \in Sleepers : due[r] <= due'[q]
      BY <2>1
    <3>2. due[r] <= x
      BY <1>1, <1>3, <3>1
    <3> QED BY <1>3, <3>2 DEF CreditInv, ChainOK, AheadOK
  <2>2. CASE \E b \in Slots : /\ Level(b) /\ due'[q] <= vruntime[b]
                              /\ vruntime[b] <= due'[q] + DeltaMax
    <3>1. PICK b \in Slots : /\ Waits(b) /\ due'[q] <= vruntime[b]
                             /\ vruntime[b] <= due'[q] + DeltaMax /\ due[b] = vruntime[b]
      BY <2>2 DEF Level
    <3>2. CASE x < vruntime[b]
      BY <1>1, <1>3, <3>1, <3>2 DEF Above
    <3>3. CASE ~(x < vruntime[b])
      <4>1. due[b] <= x
        BY <1>1, <3>1, <3>3
      <4>2. CASE b \in Sleepers
        BY <1>3, <4>1, <4>2 DEF CreditInv, ChainOK, AheadOK
      <4>3. CASE b \notin Sleepers
        <5>1. Born(b)
          BY <3>1, <4>3 DEF Waits, Sleepers, Active, Born, CreditInv, FairInv, TypeOK
        <5>2. \A g \in Slots : Born(g) => vruntime[g] <= due[b] + DeltaMax
          BY <5>1 DEF CreditInv, FairInv, SharesOK
        <5>3. \A g \in Slots : proc[0] = g /\ irq[0] = "none" /\ Born(g)
                                 => vruntime[g] <= due[b]
          BY <5>1 DEF CreditInv, FairInv, PickedOK
        <5>4. CASE Far(x)
          BY <1>1, <4>1, <5>2, <5>4
        <5>5. CASE Ahead(x)
          BY <1>1, <4>1, <5>3, <5>5
        <5> QED BY <1>3, <5>4, <5>5
      <4> QED BY <4>2, <4>3
    <3> QED BY <3>2, <3>3
  <2> QED BY <2>1, <2>2
<1>4. ChainOK'
  <2> SUFFICES ASSUME NEW q \in Sleepers', NEW h \in Slots, NEW x \in Nat,
                      Born(h)', due'[q] <= x, x + DeltaMax < vruntime'[h]
               PROVE  Above(x)'
    BY <1>1 DEF ChainOK
  <2>1. Far(x) \/ Ahead(x)
    <3>1. CASE \E g \in Slots : Born(g) /\ vruntime'[h] <= vruntime[g]
      BY <1>1, <3>1
    <3>2. CASE /\ proc[0] = h /\ irq[0] = "none" /\ Born(h)
               /\ vruntime'[h] <= vruntime[h] + DeltaMax
      <4>1. x < vruntime[h]
        BY <1>1, <3>2
      <4> QED BY <3>2, <4>1
    <3> QED BY <3>1, <3>2
  <2> QED BY <1>2, <1>3, <2>1
<1>5. AheadOK'
  <2> SUFFICES ASSUME NEW q \in Sleepers', NEW h \in Slots, NEW x \in Nat,
                      proc'[0] = h, irq'[0] = "none", Born(h)',
                      due'[q] <= x, x < vruntime'[h]
               PROVE  Above(x)'
    BY <1>1 DEF AheadOK
  <2>1. Ahead(x)
    OBVIOUS
  <2> QED BY <1>2, <1>3, <2>1
<1> QED BY <1>4, <1>5

(* Nobody is charged or starts to run, and who competes did so before, or  *)
(* was woken.                                                              *)
LEMMA CalmChain ==
    ASSUME HalfWidth, OneCPU, CreditInv, TypeOK', NEW c \in CPUs,
           \/ WakeEvent \/ TickWake(c) \/ IdleTick(c) \/ Yield(c)
           \/ Sleep(c) \/ Kill(c) \/ Setnice(c) \/ Exit(c)
    PROVE  BelowOK' /\ ChainOK' /\ AheadOK'
<1>0. /\ TypeOK /\ BelowOK /\ c = 0 /\ 0 \in CPUs /\ None \notin Slots /\ DeltaMax \in Nat
      /\ Sleepers \subseteq Slots
      /\ Sleepers = {p \in Slots : state[p] \in {"RUNNABLE", "RUNNING"} /\ past[p] = "sleeper"}
      /\ Sleepers' = {p \in Slots : state'[p] \in {"RUNNABLE", "RUNNING"} /\ past'[p] = "sleeper"}
  BY OnlyCPU, DeltaIs DEF CreditInv, FairInv, None, Slots, Sleepers, Active
<1>1. \A p \in Slots : state[p] = "RUNNING" <=> proc[0] = p
  BY DEF CreditInv, FairInv, CurrentOK
<1>2. \A p \in Slots : vruntime[p] \in Nat /\ due[p] \in Nat
  BY <1>0 DEF TypeOK
<1>3. SUFFICES
        /\ BelowOK'
        /\ \A q \in Slots : Waits(q) => Waits(q)' /\ vruntime'[q] = vruntime[q]
        /\ \A q \in Slots : Born(q)' => Born(q) /\ vruntime'[q] = vruntime[q]
        /\ \A q \in Sleepers' :
              \/ q \in Sleepers /\ due'[q] = due[q]
              \/ \E b \in Slots : /\ Level(b) /\ due'[q] <= vruntime[b]
                                  /\ vruntime[b] <= due'[q] + DeltaMax
        /\ \A q \in Slots : proc'[0] = q /\ irq'[0] = "none" => proc[0] = q /\ irq[0] = "none"
  <2>1. \A q \in Slots : Born(q)' => \E g \in Slots : Born(g) /\ vruntime'[q] <= vruntime[g]
    BY <1>2, <1>3
  <2>2. \A q \in Sleepers' :
              \/ \E r \in Sleepers : due[r] <= due'[q]
              \/ \E b \in Slots : /\ Level(b) /\ due'[q] <= vruntime[b]
                                  /\ vruntime[b] <= due'[q] + DeltaMax
    BY <1>0, <1>2, <1>3
  <2> QED BY <1>3, <2>1, <2>2, ChainStep
(* P are woken, and p, who ran, may be gone. *)
<1> DEFINE Woke(P, p) ==
        /\ \A q \in P : q \in Slots /\ state[q] = "SLEEPING"
        /\ proc[0] = p \/ p \notin Slots
        /\ \A q \in Slots :
              /\ q # p => state'[q] = IF q \in P THEN "RUNNABLE" ELSE state[q]
              /\ q = p => state'[q] \in {"UNUSED", "RUNNING"}
              /\ vruntime'[q] = IF q \in P THEN Placed(q) ELSE vruntime[q]
              /\ past'[q] = IF q \in P THEN NextTo ELSE past[q]
              /\ due'[q] = IF q \in P THEN Placed(q) ELSE due[q]
<1>4. ASSUME NEW P, NEW p, Woke(P, p)
      PROVE  /\ BelowOK'
             /\ \A q \in Slots : Waits(q) => Waits(q)' /\ vruntime'[q] = vruntime[q]
             /\ \A q \in Slots : Born(q)' => Born(q) /\ vruntime'[q] = vruntime[q]
             /\ \A q \in Sleepers' :
                   \/ q \in Sleepers /\ due'[q] = due[q]
                   \/ \E b \in Slots : /\ Level(b) /\ due'[q] <= vruntime[b]
                                       /\ vruntime[b] <= due'[q] + DeltaMax
  <2>1. \A q \in Slots : q = p => state[q] = "RUNNING" /\ q \notin P
    BY <1>1, <1>4
  <2>2. NextTo # "hog"
    BY DEF NextTo
  <2>3. BelowOK'
    BY <1>0, <1>4, WokenIs DEF BelowOK
  <2>4. \A q \in Slots : Waits(q) => Waits(q)' /\ vruntime'[q] = vruntime[q]
    BY <1>4, <2>1 DEF Waits
  <2>5. \A q \in Slots : Born(q)' => Born(q) /\ vruntime'[q] = vruntime[q]
    BY <1>4, <2>1, <2>2 DEF Born
  <2>6. ASSUME NEW q \in Sleepers'
        PROVE  \/ q \in Sleepers /\ due'[q] = due[q]
               \/ \E b \in Slots : /\ Level(b) /\ due'[q] <= vruntime[b]
                                   /\ vruntime[b] <= due'[q] + DeltaMax
    <3>1. q \in Slots /\ state'[q] \in {"RUNNABLE", "RUNNING"} /\ past'[q] = "sleeper"
      BY <1>0
    <3>2. CASE q \in P
      <4>1. NextTo = "sleeper" /\ due'[q] = Placed(q)
        BY <1>4, <3>1, <3>2
      <4> QED BY <1>0, <3>1, <4>1, WokenIs
    <3>3. CASE q \notin P
      BY <1>0, <1>4, <2>1, <3>1, <3>3
    <3> QED BY <3>2, <3>3
  <2> QED BY <2>3, <2>4, <2>5, <2>6
<1>5. Sleeping \subseteq Slots /\ \A q \in Sleeping : state[q] = "SLEEPING"
  BY DEF Sleeping, InState
<1>6. CASE WakeEvent
  <2>1. PICK P \in SUBSET Sleeping : Woken(P) /\ state' = Ready(P)
    BY <1>6 DEF WakeEvent, Wakeup1
  <2>2. \A q \in Slots : /\ state'[q] = IF q \in P THEN "RUNNABLE" ELSE state[q]
                         /\ vruntime'[q] = IF q \in P THEN Placed(q) ELSE vruntime[q]
                         /\ past'[q] = IF q \in P THEN NextTo ELSE past[q]
                         /\ due'[q] = IF q \in P THEN Placed(q) ELSE due[q]
    BY <2>1 DEF Woken, Ready
  <2>3. Woke(P, None)
    BY <1>0, <1>5, <2>2
  <2> HIDE DEF Woke
  <2>4. proc' = proc /\ irq' = irq
    BY <1>6 DEF WakeEvent, ctl
  <2> QED BY <1>4, <2>3, <2>4
<1>7. CASE TickWake(c)
  <2>1. PICK P \in SUBSET Sleeping : Woken(P) /\ state' = Ready(P)
    BY <1>7 DEF TickWake, Wakeup1
  <2>2. \A q \in Slots : /\ state'[q] = IF q \in P THEN "RUNNABLE" ELSE state[q]
                         /\ vruntime'[q] = IF q \in P THEN Placed(q) ELSE vruntime[q]
                         /\ past'[q] = IF q \in P THEN NextTo ELSE past[q]
                         /\ due'[q] = IF q \in P THEN Placed(q) ELSE due[q]
    BY <2>1 DEF Woken, Ready
  <2>3. Woke(P, None)
    BY <1>0, <1>5, <2>2
  <2> HIDE DEF Woke
  <2>4. proc' = proc /\ (proc[0] # None => irq'[0] # "none")
    BY <1>0, <1>7 DEF TickWake, TypeOK
  <2>5. \A q \in Slots : ~(proc'[0] = q /\ irq'[0] = "none")
    BY <1>0, <2>4
  <2> QED BY <1>4, <2>3, <2>5
<1>8. CASE IdleTick(c)
  <2>1. /\ UNCHANGED <<state, vruntime, proc, past, due>> /\ proc[0] = None
    BY <1>0, <1>8 DEF IdleTick, prog
  <2> QED BY <1>0, <2>1 DEF BelowOK, Waits, Born
<1>9. CASE Setnice(c)
  <2>1. UNCHANGED <<state, vruntime, proc, irq, past, due>>
    BY <1>9 DEF Setnice, prog, ctl
  <2> QED BY <1>0, <2>1 DEF BelowOK, Waits, Born
<1>10. CASE Kill(c)
  <2>1. PICK q \in Slots :
          /\ state[q] = "SLEEPING" /\ state' = [state EXCEPT ![q] = "RUNNABLE"]
          /\ past' = [past EXCEPT ![q] = "stray"]
          /\ UNCHANGED <<vruntime, due, ctl>>
    BY <1>10 DEF Kill, Sleeping, InState
  <2>2. \A p \in Slots : /\ state'[p] = IF p = q THEN "RUNNABLE" ELSE state[p]
                         /\ past'[p] = IF p = q THEN "stray" ELSE past[p]
    BY <1>0, <2>1 DEF TypeOK
  <2> QED BY <1>0, <2>1, <2>2 DEF BelowOK, Waits, Born, ctl
<1>11. CASE Yield(c) \/ Sleep(c)
  <2>1. PICK p \in Slots :
          /\ proc[0] = p /\ proc' = [proc EXCEPT ![0] = None]
          /\ \/ state' = [state EXCEPT ![p] = "RUNNABLE"]
             \/ state' = [state EXCEPT ![p] = "SLEEPING"]
          /\ UNCHANGED <<vruntime, past, due>>
    BY <1>0, <1>11 DEF Yield, Sleep, Free, Runs, SwitchAway, prog
  <2>2. /\ \A q \in Slots : q # p => state'[q] = state[q]
        /\ state[p] = "RUNNING" /\ state'[p] \in {"RUNNABLE", "SLEEPING"} /\ proc'[0] = None
    BY <1>0, <1>1, <2>1 DEF TypeOK
  <2> QED BY <1>0, <2>1, <2>2 DEF BelowOK, Waits, Born
<1>12. CASE Exit(c)
  <2> DEFINE Parents == {{}} \cup {{q} : q \in Sleeping}
  <2>1. \A P \in Parents : P \in SUBSET Slots /\ \A q \in P : state[q] = "SLEEPING"
    BY <1>5
  <2> HIDE DEF Parents
  <2>2. PICK p \in Slots, P \in Parents :
          /\ proc[0] = p /\ Woken(P) /\ state' = [Ready(P) EXCEPT ![p] = "UNUSED"]
          /\ proc' = [proc EXCEPT ![0] = None]
    BY <1>0, <1>12 DEF Exit, Parents
  <2>3. \A q \in Slots : /\ q # p => state'[q] = IF q \in P THEN "RUNNABLE" ELSE state[q]
                         /\ q = p => state'[q] \in {"UNUSED", "RUNNING"}
                         /\ vruntime'[q] = IF q \in P THEN Placed(q) ELSE vruntime[q]
                         /\ past'[q] = IF q \in P THEN NextTo ELSE past[q]
                         /\ due'[q] = IF q \in P THEN Placed(q) ELSE due[q]
    BY <2>2 DEF Woken, Ready
  <2>4. \A q \in Slots : ~(proc'[0] = q /\ irq'[0] = "none")
    BY <1>0, <2>2 DEF TypeOK
  <2>5. Woke(P, p)
    BY <2>1, <2>2, <2>3
  <2> HIDE DEF Woke
  <2> QED BY <1>4, <2>4, <2>5
<1> QED BY <1>6, <1>7, <1>8, <1>9, <1>10, <1>11, <1>12

(* The process picked is the least: those above it are still there.        *)
LEMMA DispatchChain ==
    ASSUME OneCPU, CreditInv, TypeOK', NEW c \in CPUs, Dispatch(c)
    PROVE  BelowOK' /\ ChainOK' /\ AheadOK'
<1>0. /\ TypeOK /\ c = 0 /\ 0 \in CPUs /\ None \notin Slots /\ DeltaMax \in Nat
      /\ Sleepers \subseteq Slots /\ Horizon \in Nat /\ Horizon < Width - 1
      /\ Sleepers = {p \in Slots : state[p] \in {"RUNNABLE", "RUNNING"} /\ past[p] = "sleeper"}
      /\ Sleepers' = {p \in Slots : state'[p] \in {"RUNNABLE", "RUNNING"} /\ past'[p] = "sleeper"}
  BY OnlyCPU, DeltaIs DEF CreditInv, FairInv, None, Slots, Sleepers, Active, OneCPU
<1>1. PICK p \in Selectable :
        /\ proc[0] = None /\ \A q \in Selectable : Before(p, q)
        /\ state' = [state EXCEPT ![p] = "RUNNING"]
        /\ proc' = [proc EXCEPT ![0] = p]
        /\ UNCHANGED <<nice, vruntime, prog>>
  BY <1>0 DEF Dispatch
<1>2. p \in Slots /\ state[p] = "RUNNABLE"
  BY <1>1 DEF Selectable, Runnable, InState
<1>3. /\ proc'[0] = p /\ vruntime' = vruntime /\ past' = past /\ due' = due
      /\ \A q \in Slots : state'[q] = IF q = p THEN "RUNNING" ELSE state[q]
      /\ \A q \in Slots : vruntime[q] \in Nat /\ due[q] \in Nat
  BY <1>0, <1>1, <1>2 DEF TypeOK, prog
<1>4. \A q \in Slots : state[q] # "RUNNING"
  BY <1>0, <1>1 DEF CreditInv, FairInv, CurrentOK
<1>5. ASSUME NEW q \in Slots, state[q] = "RUNNABLE"
      PROVE  vruntime[p] <= vruntime[q] /\ vruntime[p] <= due[q]
  <2>1. vruntime[q] < Width - 1
    <3>1. vruntime[q] <= Horizon
      BY DEF CreditInv, BelowOK
    <3>2. Width \in Nat
      OBVIOUS
    <3> QED BY <1>0, <1>3, <3>1, <3>2
  <2>2. q \in Selectable
    BY <1>5, <2>1 DEF Selectable, Runnable, InState
  <2>3. Before(p, q)
    BY <1>1, <2>2
  <2>4. vruntime[q] <= due[q] /\ due[q] \in Nat
    BY <1>0 DEF TypeOK, CreditInv, FairInv, DueOK
  <2> QED BY <1>2, <1>3, <2>3, <2>4 DEF Before
<1>6. Sleepers' = Sleepers /\ \A q \in Sleepers : state[q] = "RUNNABLE"
  BY <1>0, <1>2, <1>3, <1>4
<1>7. \A q \in Slots : Born(q)' <=> Born(q)
  BY <1>2, <1>3 DEF Born
<1>8. ASSUME NEW q \in Sleepers, NEW x \in Nat, due[q] <= x, Above(x)
      PROVE  Above(x)'
  <2>1. PICK s \in Slots : Waits(s) /\ x < vruntime[s] /\ vruntime[s] <= x + DeltaMax
    BY <1>8 DEF Above
  <2>2. vruntime[p] <= due[q]
    BY <1>0, <1>5, <1>6
  <2>3. s # p
    BY <1>0, <1>2, <1>3, <1>8, <2>1, <2>2
  <2>4. DeltaMax' = DeltaMax
    BY DEF DeltaMax
  <2> QED BY <1>3, <2>1, <2>3, <2>4 DEF Waits, Above
<1>9. BelowOK'
  BY <1>3 DEF CreditInv, BelowOK
<1>10. ChainOK'
  <2> SUFFICES ASSUME NEW q \in Sleepers, NEW h \in Slots, NEW x \in Nat,
                      Born(h), due[q] <= x, x + DeltaMax < vruntime[h]
               PROVE  Above(x)'
    BY <1>3, <1>6, <1>7 DEF ChainOK, DeltaMax
  <2>1. Above(x)
    BY DEF CreditInv, ChainOK
  <2> QED BY <1>8, <2>1
<1>11. AheadOK'
  <2> SUFFICES ASSUME NEW q \in Sleepers, NEW x \in Nat,
                      due[q] <= x, x < vruntime[p]
               PROVE  FALSE
    BY <1>3, <1>6, <1>7 DEF AheadOK, DeltaMax
  <2>1. vruntime[p] <= due[q]
    BY <1>0, <1>5, <1>6
  <2> QED BY <1>0, <1>2, <1>3, <2>1
<1> QED BY <1>9, <1>10, <1>11

(* A hog is charged a tick, which it was allowed for when it was picked; a *)
(* sleeper that is charged moves towards the hogs.                         *)
LEMMA ChargeChain ==
    ASSUME OneCPU, CreditInv, TypeOK', NEW c \in CPUs, Charge(c)
    PROVE  BelowOK' /\ ChainOK' /\ AheadOK'
<1>0. /\ TypeOK /\ c = 0 /\ 0 \in CPUs /\ None \notin Slots
      /\ Horizon < Width - 1 /\ Width \in Nat /\ Horizon \in Nat /\ DeltaMax \in Nat
      /\ Sleepers = {p \in Slots : state[p] \in {"RUNNABLE", "RUNNING"} /\ past[p] = "sleeper"}
      /\ Sleepers' = {p \in Slots : state'[p] \in {"RUNNABLE", "RUNNING"} /\ past'[p] = "sleeper"}
  BY OnlyCPU, DeltaIs DEF CreditInv, FairInv, None, Slots, Sleepers, Active, OneCPU
<1>1. PICK p \in Slots :
        /\ proc[0] = p /\ irq[0] = "none"
        /\ vruntime[p] + Delta[nice[p]] <= Horizon
        /\ vruntime' = [vruntime EXCEPT ![p] = (@ + Delta[nice[p]]) % Width]
        /\ \/ irq' = [irq EXCEPT ![0] = "wake"] /\ UNCHANGED <<state, proc, again>>
           \/ SwitchAway(0, p)
        /\ due' = [q \in Slots |-> IF q = p \/ q = np[p]
                                   THEN IF due[p] <= vruntime'[p] THEN vruntime'[p] ELSE due[p]
                                   ELSE due[q]]
        /\ past' = past
  BY <1>0 DEF Charge, Runs
<1>2. /\ vruntime[p] \in Nat /\ Delta[nice[p]] \in Nat /\ Delta[nice[p]] <= DeltaMax
      /\ \A q \in Slots : vruntime[q] \in Nat
  BY <1>0, <1>1, DeltaIs DEF TypeOK
<1>3. (vruntime[p] + Delta[nice[p]]) % Width = vruntime[p] + Delta[nice[p]]
  BY <1>0, <1>1, <1>2
<1>4. \A q \in Slots :
        vruntime'[q] = IF q = p THEN vruntime[p] + Delta[nice[p]] ELSE vruntime[q]
  BY <1>0, <1>1, <1>3 DEF TypeOK
<1>5. state[p] = "RUNNING"
  BY <1>1 DEF CreditInv, FairInv, CurrentOK
<1>6. /\ \A q \in Slots : q # p => state'[q] = state[q]
      /\ state'[p] \in {"RUNNABLE", "RUNNING"}
      /\ proc'[0] = None \/ irq'[0] # "none"
  BY <1>0, <1>1, <1>5 DEF SwitchAway, TypeOK
<1>7. BelowOK'
  BY <1>1, <1>4 DEF CreditInv, BelowOK
<1>8. \A s \in Slots : Waits(s) => Waits(s)' /\ vruntime'[s] = vruntime[s]
  BY <1>1, <1>4, <1>5, <1>6 DEF Waits
<1>9. \A h \in Slots : Born(h)' =>
         \/ \E g \in Slots : Born(g) /\ vruntime'[h] <= vruntime[g]
         \/ /\ proc[0] = h /\ irq[0] = "none" /\ Born(h)
            /\ vruntime'[h] <= vruntime[h] + DeltaMax
  <2>1. \A h \in Slots : Born(h)' => Born(h)
    BY <1>1, <1>5, <1>6 DEF Born
  <2>2. vruntime'[p] <= vruntime[p] + DeltaMax
    BY <1>0, <1>2, <1>4
  <2>3. \A h \in Slots : h # p => vruntime'[h] <= vruntime[h]
    BY <1>2, <1>4
  <2> QED BY <1>1, <2>1, <2>2, <2>3
<1>10. \A q \in Sleepers' : \E r \in Sleepers : due[r] <= due'[q]
  <2>1. \A q \in Sleepers' : q \in Slots /\ q \in Sleepers
    BY <1>0, <1>1, <1>5, <1>6
  <2>2. np[p] \in Slots => due[np[p]] = due[p]
    BY <1>0 DEF CreditInv, FairInv, ForksOK
  <2>3. /\ vruntime'[p] \in Nat
        /\ \A q \in Slots : due[q] \in Nat
    BY <1>2, <1>4, <1>0 DEF TypeOK
  <2>4. \A q \in Slots : due[q] <= due'[q]
    BY <1>1, <2>2, <2>3
  <2> QED BY <2>1, <2>4
<1>11. \A h \in Slots : ~(proc'[0] = h /\ irq'[0] = "none")
  BY <1>0, <1>6
<1>12. ChainOK' /\ AheadOK'
  BY <1>8, <1>9, <1>10, <1>11, ChainStep
<1> QED BY <1>7, <1>12

(* A child starts where its parent is, and is due what its parent is.      *)
LEMMA ForkChain ==
    ASSUME OneCPU, CreditInv, TypeOK', NEW c \in CPUs, ForkCopy(c) \/ ForkReady(c)
    PROVE  BelowOK' /\ ChainOK' /\ AheadOK'
<1>0. /\ TypeOK /\ FairInv /\ c = 0 /\ 0 \in CPUs /\ None \notin Slots /\ DeltaMax \in Nat
      /\ Sleepers = {p \in Slots : state[p] \in {"RUNNABLE", "RUNNING"} /\ past[p] = "sleeper"}
      /\ Sleepers' = {p \in Slots : state'[p] \in {"RUNNABLE", "RUNNING"} /\ past'[p] = "sleeper"}
  BY OnlyCPU, DeltaIs DEF CreditInv, FairInv, None, Slots, Sleepers, Active
<1>1. \A q \in Slots : vruntime[q] \in Nat /\ due[q] \in Nat
  BY <1>0 DEF TypeOK
<1>2. CASE ForkCopy(c)
  <2>1. PICK p \in Slots, k \in Slots :
          /\ proc[0] = p /\ state[k] = "UNUSED"
          /\ state' = [state EXCEPT ![k] = "EMBRYO"]
          /\ vruntime' = [vruntime EXCEPT ![k] = vruntime[p]]
          /\ past' = [past EXCEPT ![k] = past[p]]
          /\ due' = [due EXCEPT ![k] = due[p]]
          /\ UNCHANGED ctl
    BY <1>0, <1>2 DEF ForkCopy, Inherited, InState, Free, Runs
  <2>2. /\ \A q \in Slots : /\ state'[q] = IF q = k THEN "EMBRYO" ELSE state[q]
                            /\ vruntime'[q] = IF q = k THEN vruntime[p] ELSE vruntime[q]
                            /\ past'[q] = IF q = k THEN past[p] ELSE past[q]
                            /\ q # k => due'[q] = due[q]
        /\ proc' = proc /\ irq' = irq
    BY <1>0, <2>1 DEF TypeOK, ctl
  <2>3. state[p] = "RUNNING" /\ k # p
    BY <1>0, <2>1 DEF FairInv, CurrentOK
  <2>4. BelowOK'
    BY <2>2 DEF CreditInv, BelowOK
  <2>5. \A s \in Slots : Waits(s) => Waits(s)' /\ vruntime'[s] = vruntime[s]
    BY <2>1, <2>2 DEF Waits
  <2>6. \A h \in Slots : Born(h)' => \E g \in Slots : Born(g) /\ vruntime'[h] <= vruntime[g]
    <3>1. ASSUME NEW h \in Slots, Born(h)' PROVE \E g \in Slots : Born(g) /\ vruntime'[h] <= vruntime[g]
      <4>1. CASE h = k
        BY <1>1, <2>2, <2>3, <3>1, <4>1 DEF Born
      <4>2. CASE h # k
        BY <1>1, <2>2, <3>1, <4>2 DEF Born
      <4> QED BY <4>1, <4>2
    <3> QED BY <3>1
  <2>7. \A q \in Sleepers' : \E r \in Sleepers : due[r] <= due'[q]
    BY <1>0, <1>1, <2>2
  <2>8. \A h \in Slots : proc'[0] = h /\ irq'[0] = "none" /\ Born(h)' =>
           proc[0] = h /\ irq[0] = "none" /\ Born(h) /\ vruntime'[h] = vruntime[h]
    BY <2>1, <2>2, <2>3 DEF Born
  <2> QED BY <2>4, <2>5, <2>6, <2>7, <2>8, ChainStep
<1>3. CASE ForkReady(c)
  <2>1. PICK p \in Slots :
          /\ proc[0] = p /\ np[p] # None
          /\ state' = [state EXCEPT ![np[p]] = "RUNNABLE"]
          /\ UNCHANGED <<vruntime, ctl, past, due>>
    BY <1>0, <1>3 DEF ForkReady, Runs
  <2> DEFINE k == np[p]
  <2>2. k \in Slots /\ state[k] = "EMBRYO"
    BY <1>0, <2>1, ChildIs
  <2>3. state[p] = "RUNNING" /\ k # p
    BY <1>0, <2>1, <2>2 DEF FairInv, CurrentOK
  <2>4. past[k] = past[p] /\ due[k] = due[p]
    BY <1>0, <2>1 DEF FairInv, ForksOK
  <2> HIDE DEF k
  <2>5. /\ \A q \in Slots : state'[q] = IF q = k THEN "RUNNABLE" ELSE state[q]
        /\ proc' = proc /\ irq' = irq /\ vruntime' = vruntime /\ past' = past /\ due' = due
    BY <1>0, <2>1, <2>2 DEF TypeOK, ctl, k
  <2>6. BelowOK'
    BY <2>5 DEF CreditInv, BelowOK
  <2>7. \A s \in Slots : Waits(s) => Waits(s)' /\ vruntime'[s] = vruntime[s]
    BY <2>2, <2>5 DEF Waits
  <2>8. \A h \in Slots : Born(h)' => Born(h)
    BY <2>2, <2>5 DEF Born
  <2>9. \A h \in Slots : Born(h)' => \E g \in Slots : Born(g) /\ vruntime'[h] <= vruntime[g]
    BY <1>1, <2>5, <2>8
  <2>10. ASSUME NEW q \in Sleepers' PROVE \E r \in Sleepers : due[r] <= due'[q]
    <3>1. CASE q = k
      <4>1. p \in Sleepers
        BY <1>0, <2>3, <2>4, <2>5, <3>1
      <4>2. due'[q] = due[p] /\ due[p] \in Nat
        BY <1>1, <2>4, <2>5, <3>1
      <4> QED BY <4>1, <4>2
    <3>2. CASE q # k
      BY <1>0, <1>1, <2>5, <3>2
    <3> QED BY <3>1, <3>2
  <2>11. \A h \in Slots : proc'[0] = h /\ irq'[0] = "none" /\ Born(h)' =>
            proc[0] = h /\ irq[0] = "none" /\ Born(h) /\ vruntime'[h] = vruntime[h]
    BY <2>5, <2>8
  <2> QED BY <2>6, <2>7, <2>9, <2>10, <2>11, ChainStep
<1> QED BY <1>2, <1>3

-----------------------------------------------------------------------------
(* The invariant behind the credit of sleepers holds in every state, on    *)
(* one CPU, as long as wakeup1() reads no vruntime as a negative number.   *)
THEOREM CreditInvariance ==
    ASSUME OneCPU, HalfWidth
    PROVE  Spec => []CreditInv
<1>1. Init => CreditInv
  <2> SUFFICES ASSUME Init PROVE CreditInv
    OBVIOUS
  <2>1. FairInv
    BY InvInit
  <2>2. Horizon \in Nat /\ 0 \in CPUs /\ None \notin Slots
    BY OnlyCPU DEF None, Slots
  <2>3. /\ \A p \in Slots : vruntime[p] = 0 /\ past[p] = "hog"
        /\ proc[0] = None
    BY <2>2 DEF Init
  <2>4. Sleepers = {}
    BY <2>3 DEF Sleepers, Active
  <2> QED BY <2>1, <2>2, <2>3, <2>4 DEF CreditInv, BelowOK, ChainOK, AheadOK
<1>2. CreditInv /\ [Next]_vars => CreditInv'
  <2> SUFFICES ASSUME CreditInv, [Next]_vars PROVE CreditInv'
    OBVIOUS
  <2>1. CASE UNCHANGED vars
    BY <2>1 DEF vars, CreditInv, FairInv, TypeOK, CurrentOK, DueOK, ForksOK, EmbryosOK,
                PickedOK, SharesOK, Born, BelowOK, ChainOK, AheadOK, Above, Waits, Sleepers, Active
  <2>2. CASE Next
    <3>1. TypeOK'
      BY <2>2, TypeStep DEF CreditInv, FairInv
    <3>2. FairInv'
      BY <2>2, FairInvNext DEF CreditInv
    <3>3. ASSUME NEW c \in CPUs,
                 \/ WakeEvent \/ Yield(c) \/ TickWake(c) \/ IdleTick(c)
                 \/ Sleep(c) \/ Kill(c) \/ Setnice(c) \/ Exit(c)
          PROVE  CreditInv'
      BY <3>1, <3>2, <3>3, CalmChain DEF CreditInv
    <3>4. ASSUME NEW c \in CPUs, Dispatch(c) \/ Charge(c) \/ ForkCopy(c) \/ ForkReady(c)
          PROVE  CreditInv'
      BY <3>1, <3>2, <3>4, DispatchChain, ChargeChain, ForkChain DEF CreditInv
    <3>5. 0 \in CPUs
      BY OnlyCPU
    <3> QED BY <2>2, <3>3, <3>4, <3>5 DEF Next
  <2> QED BY <2>1, <2>2
<1> QED BY <1>1, <1>2, PTL DEF Spec

(* Multiples of a tick: between one and the next lies a tick.              *)
LEMMA Multiples ==
    ASSUME NEW d \in Nat, NEW j \in Nat, NEW k \in Nat, j < k
    PROVE  /\ j * d \in Nat /\ k * d \in Nat /\ (j + 1) * d = j * d + d
           /\ (j + 1) * d <= k * d
<1>1. PICK e \in Nat : k = j + 1 + e
  <2>1. k - (j + 1) \in Nat /\ k = j + 1 + (k - (j + 1))
    OBVIOUS
  <2> QED BY <2>1
<1>2. k * d = (j + 1) * d + e * d /\ e * d \in Nat /\ (j + 1) * d \in Nat
  BY <1>1
<1> QED BY <1>2

(* On one CPU a sleeper, or what it is due, is never more than one tick    *)
(* for each other slot behind a hog: were it further, each tick between    *)
(* them would have somebody who waits there, and there are no more         *)
(* processes than slots (wakeup1() and scheduler() in proc.c of PA2).      *)
THEOREM Credit ==
    ASSUME OneCPU, HalfWidth
    PROVE  Spec => []SleepCredit
<1>1. ASSUME CreditInv PROVE SleepCredit
  <2> SUFFICES ASSUME NEW p \in Hogs, NEW q \in Sleepers,
                      ~(vruntime[p] - due[q] <= (NPROC - 1) * DeltaMax)
               PROVE  FALSE
    BY DEF SleepCredit
  <2>1. /\ p \in Slots /\ q \in Slots /\ Born(p) /\ past[p] = "hog" /\ past[q] = "sleeper"
        /\ \A s \in Slots : vruntime[s] \in Nat
        /\ due[q] \in Nat /\ vruntime[q] <= due[q]
        /\ DeltaMax \in Nat /\ NPROC \in Nat \ {0}
    BY <1>1, DeltaIs DEF Hogs, Sleepers, Active, Born, CreditInv, FairInv, DueOK, TypeOK
  <2> DEFINE d    == DeltaMax
             x(k) == due[q] + k * d
             Steps == 1 .. NPROC - 1
  <2>2. d > 0
    <3>1. nice[q] \in Nices
      BY <1>1, <2>1 DEF CreditInv, FairInv, TypeOK
    <3>2. Delta[nice[q]] \in Nat \ {0} /\ Delta[nice[q]] <= DeltaMax
      BY <3>1, DeltaIs
    <3> QED BY <2>1, <3>2
  <2>3. (NPROC - 1) * d \in Nat /\ due[q] + (NPROC - 1) * d < vruntime[p]
    <3>1. NPROC - 1 \in Nat
      BY <2>1
    <3>2. (NPROC - 1) * d \in Nat
      BY <2>1, <3>1
    <3> QED BY <2>1, <3>2
  <2>4. ASSUME NEW k \in Steps
        PROVE  \E s \in Slots : x(k - 1) < vruntime[s] /\ vruntime[s] <= x(k)
    <3>1. k - 1 \in Nat /\ k \in Nat /\ k - 1 < k /\ k < NPROC
      BY <2>1
    <3>2. (k - 1) * d \in Nat /\ k * d = (k - 1) * d + d
      BY <2>1, <3>1, Multiples
    <3>3. k * d <= (NPROC - 1) * d
      <4>1. NPROC - 1 \in Nat /\ (k = NPROC - 1 \/ k < NPROC - 1)
        BY <2>1, <3>1
      <4>2. CASE k < NPROC - 1
        <5>1. (k + 1) * d = k * d + d /\ (k + 1) * d <= (NPROC - 1) * d /\ k * d \in Nat
          BY <2>1, <3>1, <4>1, <4>2, Multiples
        <5> QED BY <2>1, <2>3, <5>1
      <4> QED BY <2>3, <4>1, <4>2
    <3> DEFINE y == x(k - 1)
    <3>4. y \in Nat /\ due[q] <= y /\ y + d = x(k)
      BY <2>1, <3>2
    <3>5. y + d < vruntime[p]
      BY <2>1, <2>3, <3>2, <3>3
    <3>6. Above(y)
      BY <1>1, <2>1, <3>4, <3>5 DEF CreditInv, ChainOK
    <3> QED BY <3>4, <3>6 DEF Above
  <2> DEFINE f == [k \in 0 .. NPROC |->
                     IF k = 0 THEN q ELSE IF k = NPROC THEN p
                     ELSE CHOOSE s \in Slots : x(k - 1) < vruntime[s] /\ vruntime[s] <= x(k)]
  <2>5. /\ f \in [0 .. NPROC -> Slots] /\ f[0] = q /\ f[NPROC] = p
        /\ \A k \in Steps : x(k - 1) < vruntime[f[k]] /\ vruntime[f[k]] <= x(k)
    <3>1. \A k \in Steps : /\ k \in 0 .. NPROC /\ k # 0 /\ k # NPROC
      BY <2>1
    <3>2. \A k \in 0 .. NPROC : k # 0 /\ k # NPROC => k \in Steps
      BY <2>1
    <3>3. 0 \in 0 .. NPROC /\ NPROC \in 0 .. NPROC /\ NPROC # 0
      BY <2>1
    <3> HIDE DEF x, Steps, d
    <3>4. f \in [0 .. NPROC -> Slots]
      BY <2>1, <2>4, <3>2
    <3>5. \A k \in Steps : f[k] =
            CHOOSE s \in Slots : x(k - 1) < vruntime[s] /\ vruntime[s] <= x(k)
      BY <3>1
    <3> QED BY <2>4, <3>3, <3>4, <3>5
  <2> HIDE DEF f
  <2>6. ASSUME NEW j \in 0 .. NPROC, NEW k \in 0 .. NPROC, j < k
        PROVE  vruntime[f[j]] < vruntime[f[k]]
    <3>1. j \in Nat /\ k \in Nat /\ f[j] \in Slots /\ f[k] \in Slots
      BY <2>5
    <3>2. vruntime[f[j]] <= x(j)
      <4>1. CASE j = 0
        BY <2>1, <2>5, <4>1
      <4>2. CASE j # 0
        <5>1. j \in Steps
          BY <2>1, <2>6, <4>2
        <5> QED BY <2>5, <5>1
      <4> QED BY <4>1, <4>2
    <3>3. CASE k # NPROC
      <4>1. k \in Steps /\ k - 1 \in Nat /\ j <= k - 1
        BY <2>1, <2>6, <3>3
      <4>2. x(k - 1) < vruntime[f[k]]
        BY <2>5, <4>1
      <4>3. j * d \in Nat /\ (k - 1) * d \in Nat /\ j * d <= (k - 1) * d
        <5>1. CASE j = k - 1
          BY <2>1, <3>1, <5>1
        <5>2. CASE j < k - 1
          BY <2>1, <3>1, <4>1, <5>2, Multiples
        <5> QED BY <3>1, <4>1, <5>1, <5>2
      <4> QED BY <2>1, <3>1, <3>2, <4>2, <4>3
    <3>4. CASE k = NPROC
      <4>1. j * d \in Nat /\ j * d <= (NPROC - 1) * d
        <5>1. NPROC - 1 \in Nat /\ (j = NPROC - 1 \/ j < NPROC - 1)
          BY <2>1, <2>6, <3>1, <3>4
        <5>2. CASE j < NPROC - 1
          <6>1. (j + 1) * d = j * d + d /\ (j + 1) * d <= (NPROC - 1) * d /\ j * d \in Nat
            BY <2>1, <3>1, <5>1, <5>2, Multiples
          <6> QED BY <2>1, <2>3, <6>1
        <5> QED BY <2>3, <5>1, <5>2
      <4>2. f[k] = p /\ vruntime[p] \in Nat /\ due[q] \in Nat /\ vruntime[f[j]] \in Nat
        BY <2>1, <2>5, <3>1, <3>4
      <4>3. x(j) <= due[q] + (NPROC - 1) * d
        BY <2>3, <4>1, <4>2
      <4>4. x(j) \in Nat /\ (NPROC - 1) * d \in Nat
        BY <2>3, <4>1, <4>2
      <4> HIDE DEF x, d
      <4> QED BY <2>3, <3>2, <4>2, <4>3, <4>4
    <3> QED BY <3>3, <3>4
  <2>7. IsFiniteSet(0 .. NPROC) /\ Cardinality(0 .. NPROC) = NPROC + 1
    <3>1. 0 \in Int /\ NPROC \in Int /\ ~(0 > NPROC) /\ NPROC - 0 + 1 = NPROC + 1
      BY <2>1
    <3> QED BY <3>1, FS_Interval
  <2>8. IsFiniteSet(Slots) /\ Cardinality(Slots) = NPROC
    <3>1. 1 \in Int /\ NPROC \in Int /\ ~(1 > NPROC) /\ NPROC - 1 + 1 = NPROC
      BY <2>1
    <3>2. Slots = 1 .. NPROC
      BY DEF Slots
    <3> QED BY <3>1, <3>2, FS_Interval
  <2>9. Cardinality(Slots) < Cardinality(0 .. NPROC)
    BY <2>1, <2>7, <2>8
  <2>10. PICK j \in 0 .. NPROC, k \in 0 .. NPROC : j # k /\ f[j] = f[k]
    BY <2>5, <2>7, <2>8, <2>9, FS_PigeonHole
  <2>11. vruntime[f[j]] \in Nat
    BY <2>1, <2>5
  <2>12. j < k \/ k < j
    BY <2>10
  <2> QED BY <2>6, <2>10, <2>11, <2>12
<1> QED BY <1>1, CreditInvariance, PTL
=============================================================================
