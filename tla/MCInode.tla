------------------------------ MODULE MCInode ------------------------------
(* Inode for TLC: a file nx in the root, a directory nd, and a file in it.       *)
EXTENDS Inode, TLC

CONSTANTS nx, nd

TwoNames == {nx, nd}
Call(op, path) == [op |-> op, path |-> path, new |-> <<>>]
Link(old, new) == [op |-> "link", path |-> old, new |-> new]

FewRequests ==
    {Call("create", <<nx>>), Call("open", <<nd, nx>>), Call("mkdir", <<nd>>),
     Call("unlink", <<nx>>), Call("unlink", <<nd>>), Call("unlink", <<nd, nx>>),
     Call("mknod", <<nd, nx>>), Link(<<nx>>, <<nd, nx>>), Link(<<nd>>, <<nx>>)}

Symmetry == Permutations(Procs)

(* States are the same when they differ only in what unused entries of the *)
(* cache hold.                                                             *)
View == <<pc, loc, ofile, disk, [s \in Slots |-> IF Used(s) THEN icache[s] ELSE [ref |-> 0]]>>
=============================================================================
