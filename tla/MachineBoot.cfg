\* Numbers of 4 bits: -8 .. 7 and 0 .. 15; a device of 20 bytes.
CONSTANTS
    IntWidth = 16
    MAX_WORKGROUP_SIZE = 6
    GridSides = {0, 1, 3, 4, 8, 15}
    GroupSides = {0, 1, 2, 3}
    Packets <- Shapes
    Machines <- AllMachines
    header_size = 4
    agent_size = 2
    region_size = 2
    link_size = 1
    HSA_MMIO_SIZE = 20
SPECIFICATION MachineSpec
INVARIANTS MachineTypeOK TableIsWalkable ReadsStayInside DivisorsNonZero RangeIsExecuted
CHECK_DEADLOCK FALSE
