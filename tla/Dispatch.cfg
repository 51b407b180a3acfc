\* Two CPUs submit two dispatches of one or three work-groups to two CUs.
CONSTANTS
    VCPU = {v1, v2}
    CU = {c1, c2}
    t1 = t1
    t2 = t2
    Task = {t1, t2}
    NoTask = NoTask
    s1 = s1
    s2 = s2
    Signal = {s1, s2}
    SignalOf <- SharedSignals
    Grids = {1, 3}
SPECIFICATION Spec
INVARIANTS TypeOK Quiescent BusyCount GroupsOnce CompletionHonest EnvCurrent
    NoLeakNoDangling MutexOwner
PROPERTIES GridStable ImplementsService
SYMMETRY ThreadSymmetry
CHECK_DEADLOCK FALSE
