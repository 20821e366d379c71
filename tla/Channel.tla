------------------------------ MODULE Channel ------------------------------
(***************************************************************************)
(* What a pipe promises: a bounded first-in first-out queue of bytes, that *)
(* loses, repeats and reorders nothing as long as one end of it is open.   *)
(***************************************************************************)
EXTENDS Naturals, Sequences

CONSTANTS
    Bytes,       \* the bytes
    Capacity     \* how many of them the channel holds

VARIABLES
    queue,       \* the bytes written and not yet read
    ends         \* the ends that are open: a subset of {"read", "write"}

cvars == <<queue, ends>>

Init == queue = <<>> /\ ends = {}

Open  == ends = {} /\ ends' = {"read", "write"} /\ queue' = <<>>

(* Closing the second end throws the bytes away. *)
Close == \E e \in ends : /\ ends' = ends \ {e}
                         /\ queue' = IF ends = {e} THEN <<>> ELSE queue

Put   == /\ "write" \in ends
         /\ Len(queue') \in Len(queue) + 1 .. Capacity
         /\ SubSeq(queue', 1, Len(queue)) = queue
         /\ \A i \in Len(queue) + 1 .. Len(queue') : queue'[i] \in Bytes
         /\ UNCHANGED ends

Take  == /\ "read" \in ends
         /\ \E n \in 1 .. Len(queue) : queue' = SubSeq(queue, n + 1, Len(queue))
         /\ UNCHANGED ends

Next == Open \/ Close \/ Put \/ Take

Spec == Init /\ [][Next]_cvars
=============================================================================
