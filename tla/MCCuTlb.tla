------------------------------ MODULE MCCuTlb ------------------------------
(* TLC instances of the TLBs: symmetry of the frames. *)
EXTENDS CuTlbGroupFault, TLC

FrameSymmetry == Permutations(Frame)
=============================================================================
