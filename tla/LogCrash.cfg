SPECIFICATION Spec
CONSTANTS
    Caller = {w1, w2, w3}
    Block = {b1, b2, b3}
    NoBlock = NoBlock
    Value = {0, 1}
    Blank = 0
    MAXOPBLOCKS = 3
    LOGSIZE = 6
    nlog = 6
    OpWrites = 2
SYMMETRY Symmetry
INVARIANTS
    LogInv
PROPERTIES
    ImplementsAtomicDisk
