-------------------------- MODULE MCKernelHelpers --------------------------
(* TLC instance of the kernels' helpers: one operation of each class, and the *)
(* symmetry of the CUs.                                                       *)
EXTENDS KernelHelpers, TLC

CONSTANTS word0

Op(op, n) == [op |-> op, addr |-> word0, src0 |-> n, src1 |-> 0]
Requests == {Op("INC", 2), Op("DEC", 3), Op("MAX", 2), Op("MIN", 1),
             Op("ADD", 3), Op("SUB", 1), Op("CAS", 1), Op("EXCH", 2), Op("WAIT", 0)}

CuSymmetry == Permutations(CU)
=============================================================================
