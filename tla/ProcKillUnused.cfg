SPECIFICATION Spec
CONSTANTS
    NPROC = 3
    Cpu = {c1}
    NoCpu = NoCpu
    MaxPid = 3
    KillArgs = {0}
PROPERTIES
    NewProcNotKilled
