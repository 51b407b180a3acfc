----------------------------- MODULE MCSpurious -----------------------------
(* TLC instance of the dispatch path with spurious returns on cu_idle. *)
EXTENDS HsaDispatchSpurious, TLC

CONSTANTS s1, t1

OneSignal == [t \in Task |-> s1]
CuSymmetry == Permutations(CU)
=============================================================================
