SPECIFICATION Spec
CONSTANTS
    Caller = {w1, w2, w3}
    Block = {b1, b2, b3, b4, b5}
    NoBlock = NoBlock
    Value = {0}
    Blank = 0
    MAXOPBLOCKS = 3
    LOGSIZE = 6
    nlog = 6
    OpWrites = 3
SYMMETRY Symmetry
INVARIANTS
    LogNeverFull
