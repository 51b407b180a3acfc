\* Three work-items with at most one barrier, and two helper calls in a group.
CONSTANTS
    flat_group_size = 3
    MaxBarriers = 1
    Kernels <- Uniform
    WorkItems <- AllItems
    Groups = {0, 1}
    Masks <- OneMask
    MaxMessages = 2
    exceptionsNumbers = {1, 5}
    MaxCalls = 2
SPECIFICATION CuSpec
INVARIANTS CuTypeOK BarrierSync NoReentry AllExecutedOnce MessagesPrintedOnce FlagsAreOwn
PROPERTIES GroupEnds StraysExplained
CHECK_DEADLOCK FALSE
