\* The same, for what the console's help says of the mask.
CONSTANTS
    flat_group_size = 3
    MaxBarriers = 1
    Kernels <- Uniform
    WorkItems <- AllItems
    Groups = {0, 1}
    Masks <- OneMask
    MaxMessages = 2
    exceptionsNumbers = {1, 5}
    MaxCalls = 2
SPECIFICATION CuSpec
INVARIANT MaskHidesOthers
CHECK_DEADLOCK FALSE
