SPECIFICATION MCSpec
CHECK_DEADLOCK FALSE
CONSTANTS
    Proc = {1, 2, 3}
    NoProc = 0
    First = 1
    NInum = 12
    NINODE = 6
    NFILE = 4
    NOFILE = 3
    Disk <- InitialTree
    Tests = {"linkunlink"}
INVARIANTS
    NoWaitCycle
