CONSTANTS
    VCPU = {v1}
    CU = {c1}
    t1 = t1
    t2 = t2
    Task = {t1, t2}
    NoTask = NoTask
    s1 = s1
    s2 = s2
    Signal = {s1, s2}
    SignalOf <- SharedSignals
    Grids = {1}
SPECIFICATION Spec
INVARIANT EnqueueWakesMonitor
CHECK_DEADLOCK FALSE
