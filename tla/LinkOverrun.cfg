\* One variable named by up to three relocations.
CONSTANTS
    SizeWidth = 1024
    IntWidth = 256
    Vallocs = {112}
    MaxSymbols = 1
    MaxRelocs = 3
    Sizes = {4}
    Aligns = {8}
    Zeroed <- Empty
    Objects <- OneVariable
SPECIFICATION LinkSpec
INVARIANT ShortageReported
CHECK_DEADLOCK FALSE
