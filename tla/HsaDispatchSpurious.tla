------------------------ MODULE HsaDispatchSpurious ------------------------
(***************************************************************************)
(* The dispatch path under the whole contract of pthread_cond_wait: it may *)
(* return although nobody signalled.  The waits on mntr_wait_cu and        *)
(* wait_mntr test their condition again; the wait on cu_idle in            *)
(* hsa_cu_resume_mntor (hsa_cu.c:47) is followed by the unlock, so that a  *)
(* CU that wakes by itself starts on a dispatch that nobody launched.      *)
(***************************************************************************)
EXTENDS HsaDispatch

SpuriousCu(c) ==
    /\ cu_pc[c] = "sleep" /\ CuGoto(c, "woken")
    /\ UNCHANGED <<mon_pc, mntr_mutx, mntr_s, cu_busy, monitorData, gridData,
                   cuData, ghosts, process>>

NextSpurious ==
    \/ Next
    \/ process = "up" /\ \E c \in CU : SpuriousCu(c)

SpecSpurious == Init /\ [][NextSpurious]_vars

\* What a CU that wakes by itself does not break: mntr_mutx is owned where the
\* code says it is, and every task is on the queue or in service, once
\* (hsa_cu.c:33-52, hsa_agent.c:455-475,596-601).
SurvivesSpurious == MutexOwner /\ NoLeakNoDangling
=============================================================================
