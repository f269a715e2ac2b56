SPECIFICATION Spec
CONSTANTS
    Proc = {p1, p2}
    NoProc = NoProc
    Block = {k1, k2, k3, k4}
    NoBlock = NoBlock
    Value = {0, 1}
    NBUF = 3
    MaxPinned = 1
SYMMETRY Symmetry
INVARIANTS
    
    SleepersAreServed

    
