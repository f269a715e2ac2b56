SPECIFICATION Spec
CONSTANTS
    NPROC = 4
    Cpu = {c1, c2}
    NoCpu = NoCpu
    MaxPid = 4
    KillArgs <- LivePids
SYMMETRY CpuSymmetry
INVARIANTS
    SlotsAreExclusive
    ProcInv
    NoOrphan
    NoLostWakeup
PROPERTIES
    ReapedByParent
