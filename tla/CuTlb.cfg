\* One virtual CPU, two CUs, two pages that share the one slot.
CONSTANTS
    VCPU = {v1}
    NumCus = 2
    Page = {0, 1}
    TlbSize = 1
    Frame = {f1, f2}
    NoFrame = NoFrame
    ReaderWidth = 16
SPECIFICATION Spec
INVARIANTS TypeOK FlushIsComplete TranslationIsGenuine LockIsCounted
SYMMETRY FrameSymmetry
CHECK_DEADLOCK FALSE
