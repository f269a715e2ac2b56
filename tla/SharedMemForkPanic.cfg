SPECIFICATION Spec
CONSTANTS
    Proc = {p1, p2}
    First = p1
    Frame = {f1, f2, f3, f4}
    NSHPAGE = 2
    Ids = {1}
    MaxPages = 3
    Disciplined = FALSE
SYMMETRY Symmetry
INVARIANTS
    ForkFindsItsPages
