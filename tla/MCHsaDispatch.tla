--------------------------- MODULE MCHsaDispatch ---------------------------
(* TLC instances of the dispatch path: which tasks share a signal, and the  *)
(* symmetry of the threads for the runs that check safety only.             *)
EXTENDS HsaDispatchService, TLC

CONSTANTS s1, s2, t1, t2

\* Every task has a signal of its own, but the last shares that of the first.
SharedSignals == [t \in Task |-> IF t = t2 THEN s2 ELSE s1]

ThreadSymmetry == Permutations(CU) \cup Permutations(VCPU)
=============================================================================
