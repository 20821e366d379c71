------------------------------- MODULE MCCfs -------------------------------
(* Cfs for TLC: two nice values; one tick at the second costs twice what   *)
(* one at the first does.                                                  *)
EXTENDS Cfs

MCDelta == [n \in Nices |-> n + 1]

(* What a step can depend on: allocproc() and fork() overwrite what an     *)
(* UNUSED slot is left with, and the wakeup the past of a SLEEPING one;    *)
(* nothing depends on what is due to a stray.                              *)
Kept(p) == IF state[p] = "UNUSED" THEN <<>>
           ELSE IF state[p] = "SLEEPING" THEN <<nice[p], vruntime[p]>>
           ELSE IF past[p] = "stray" THEN <<nice[p], vruntime[p], past[p]>>
           ELSE <<nice[p], vruntime[p], past[p], due[p]>>

View == <<state, proc, irq, again, np, [p \in Slots |-> Kept(p)]>>
=============================================================================
