CONSTANTS
    VCPU = {v1}
    CU = {c1, c2}
    t1 = t1
    Task = {t1}
    NoTask = NoTask
    s1 = s1
    Signal = {s1}
    SignalOf <- OneSignal
    Grids = {2}
SPECIFICATION SpecSpurious
INVARIANTS SurvivesSpurious
SYMMETRY CuSymmetry
CHECK_DEADLOCK FALSE
