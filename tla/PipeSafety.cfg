SPECIFICATION Spec
CONSTANTS
    Proc = {p1, p2, p3}
    First = p1
    NoProc = NoProc
    Byte = {b1, b2}
    PIPESIZE = 2
    WRAP = 4
    MaxCount = 2
SYMMETRY Symmetry
CHECK_DEADLOCK FALSE
INVARIANTS
    PipeInv
    
PROPERTIES
    ImplementsByteQueue
