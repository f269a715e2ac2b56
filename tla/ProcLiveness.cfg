SPECIFICATION FairSpec
CONSTANTS
    NPROC = 3
    Cpu = {c1}
    NoCpu = NoCpu
    MaxPid = 4
    KillArgs <- OtherPids
PROPERTIES
    InitReaps
    KilledExits
