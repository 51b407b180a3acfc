\* Two CUs, one word of two bits, one call of each CU in a dispatch.
CONSTANTS
    CU = {c1, c2}
    word0 = word0
    Address = {word0}
    WordMod = 4
    Request <- Requests
    Kind = {"atom"}
    CounterMod = 3
    MaxCalls = 1
SPECIFICATION Spec
INVARIANTS TypeOK CountsConserved
PROPERTY ImplementsAtomicMemory
SYMMETRY CuSymmetry
