\* Two CPUs contend for the mutex to wake the monitor; two CUs serve two
\* dispatches, one after the other, of one work-group each.
CONSTANTS
    VCPU = {v1, v2}
    CU = {c1, c2}
    t1 = t1
    t2 = t2
    Task = {t1, t2}
    NoTask = NoTask
    s1 = s1
    s2 = s2
    Signal = {s1, s2}
    SignalOf <- SharedSignals
    Grids = {1}
SPECIFICATION FairSpec
PROPERTIES ServedOrStalled ImplementsFairService
CHECK_DEADLOCK FALSE
