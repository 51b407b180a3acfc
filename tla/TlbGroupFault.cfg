\* One CU whose kernel may leave its group memory.
CONSTANTS
    VCPU = {v1}
    NumCus = 1
    Page = {0}
    TlbSize = 1
    Frame = {f1, f2}
    NoFrame = NoFrame
    ReaderWidth = 16
SPECIFICATION SpecGroupFault
INVARIANT LockIsCounted
CHECK_DEADLOCK FALSE
