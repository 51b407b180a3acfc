\* Three dispatches, again and again, of two BRIGs with different hashes.
CONSTANTS
    d1 = d1
    d2 = d2
    d3 = d3
    b1 = b1
    b2 = b2
    None = None
    Dispatch <- Dispatches
    Brig = {b1, b2}
    BrigOf <- Kernel
    NameOf <- Names
    ArgPages <- KernargPages
    BrigPages <- Lengths
    Hash <- Apart
    SizeWidth = 1024
    IntWidth = 256
    Vallocs = {112, 240}
    MaxSymbols = 2
    MaxRelocs = 3
    Sizes = {1, 4}
    Aligns = {1, 8}
    Zeroed <- Empty
    Objects <- AllObjects
    Conversions <- BothWays
SPECIFICATION LoadSpec
INVARIANTS LoadTypeOK CodeIsCurrent BlocksSound PassesAgree RelocationResolves FullyLinked
PROPERTIES ImplementsCodeCache
CHECK_DEADLOCK FALSE
