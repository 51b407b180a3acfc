---------------------------- MODULE MCCuThread -----------------------------
(* TLC instance of a CU thread: kernels of up to MaxBarriers barriers, the    *)
(* same for all work-items.                                                   *)
EXTENDS CuThread

CONSTANT MaxBarriers

AllItems == 0 .. flat_group_size - 1
Uniform == {[w \in AllItems |-> n] : n \in 0 .. MaxBarriers}
\* A mask between the positions, in the order of memcmp.
OneMask == {[gid |-> 1, tid |-> 1]}
=============================================================================
