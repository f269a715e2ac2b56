SPECIFICATION Spec
CHECK_DEADLOCK FALSE
CONSTANTS
    Proc = {1, 2, 3}
    FirstProc = 1
    MaxDepth = 2
    MaxFrames = 2
    Sleepers = {1, 2}
    WRAP = 4
    Naps <- TheNaps
    MaxTicks = 4
    Processor = {1, 2}
    NLOCK = 2
    SharedFrame = {f1, f2, f3}
    NSHPAGE = 2
    Ids = {1, 2, 3}
    MaxPages = 3
    NFrames = 24
    PGSIZE = 2
    PagesPerTable = 4
    KTables = 1
    KERNBASE = 32
    ProgramImage <- TheImage
    Tests <- TheTests
    BIG = 26
    MaxCalls = 3
    MaxHeld = 3
    Callers = {p1, p2, p3}
    ncpu = 2
    Result = {0, 15}
    MaxCounted = 3
    NPROC = 2
    MaxLog = 2
    Number = {1, 2}
    Counters = 3
    MaxPid = 3
    Writers = {1, 2}
    BSIZE = 3
    NDIRECT = 1
    FSSIZE = 12
    nmeta = 2
    ImageFiles <- ThePrograms
    MAXOPBLOCKS = 6
    MaxOps = 3
    Lengths = {5}
SYMMETRY Symmetry
INVARIANTS
    
    KeysAreDecoded
    
    CountersAgree
    DepthMatches
    SpinLocksExclude
    SleepsItsTicks
    SharedPagesAreShared
    EveryFrameOnce
    ProgramsKeepTheirMemory
    MemTestsPass
    BitmapExact
    FilesKeepTheirContents
    
    HeapIsCovered
    ReadsDoNotShow
    
PROPERTIES
    HeirsNeverWake
