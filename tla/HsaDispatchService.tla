------------------------ MODULE HsaDispatchService ------------------------
(***************************************************************************)
(* The dispatch path implements KernelService: its queue is the waiting    *)
(* list, the monitor's task the active dispatch, its CUs the workers, and  *)
(* a dispatch is launched from the moment its code is ready until it is    *)
(* answered.                                                               *)
(***************************************************************************)
EXTENDS HsaDispatch

Launched == /\ mon_pc \in {"resume", "wait_cu", "woken_cu", "finish"}
            /\ task # NoTask
Grid == 0 .. flat_grid_size - 1

Service == INSTANCE KernelService WITH
    Worker <- CU,
    waiting <- queue,
    active <- task,
    launched <- Launched,
    todo <- IF Launched THEN Grid \ (executed \cup Lost) ELSE {},
    failed <- IF Launched THEN faulted ELSE {},
    down <- process = "exited"

\* Every behaviour of the threads is one of the service: submission order is
\* service order, groups are done at most once, and an answer is given only
\* when no group is left or every CU has faulted.
ImplementsService == Service!Spec

\* The dispatch in service keeps being served: no interleaving of the monitor,
\* the CUs and the virtual CPUs blocks it.
ImplementsFairService == Service!FairSpec
=============================================================================
