---------------------------- MODULE KernelParts ----------------------------
(***************************************************************************)
(* Parts of the kernel that do not meet each other, in one system, for     *)
(* which PartsProofs and MemoryProofs prove what they promise: a behaviour *)
(* is one of part `which`, and v1, v2, ... are that part's variables, those *)
(* it has no use for stay 0.                                               *)
(***************************************************************************)
EXTENDS Integers, Sequences, FiniteSets

CONSTANTS
    Proc, FirstProc,                    \* processes, and the first
    MaxDepth, MaxFrames,                \* of ReentrantLock, of SpinLock
    Sleepers, WRAP, Naps, MaxTicks,     \* of Clock
    Processor, NLOCK,                   \* of SpinLock
    SharedFrame, NSHPAGE, Ids, MaxPages,    \* of SharedMem
    MaxHeld,                            \* of Keyboard
    Callers, ncpu, Result, MaxCounted,  \* of SyscallCount
    NPROC, MaxLog, Number, Counters, MaxPid,    \* of SyscallLog
    Writers, BSIZE, NDIRECT, FSSIZE, nmeta,     \* of Blocks
    ImageFiles, MAXOPBLOCKS, MaxOps, Lengths,
    NFrames, PGSIZE, PagesPerTable, KTables, KERNBASE, ProgramImage,    \* of Memory
    Tests, BIG, MaxCalls                \* of MemTests

VARIABLES which, v1, v2, v3, v4, v5, v6, v7, v8, v9, v10, v11, v12

vars == <<which, v1, v2, v3, v4, v5, v6, v7, v8, v9, v10, v11, v12>>

Parts == INSTANCE PartsProofs WITH
    First <- FirstProc,
    \* ReentrantLock
    rlock <- v1, state <- v2, depth <- v3, inherited <- v4, Nobody <- 0,
    \* Clock
    ticks <- v1, tickslock <- v2, ptablelock <- v3, timer <- v4, pc <- v5, n <- v6,
    ticks0 <- v7, killed <- v8, ret <- v9, total <- v10, since <- v11,
    \* SpinLock
    locked <- v1, cpu <- v2, ncli <- v3, intena <- v4, IF_ <- v5, eflags <- v6,
    stack <- v7, panicked <- v8, CPU <- Processor,
    \* SharedMem
    pt <- v1, shmemaddr <- v3, using <- v4, id <- v5, n_access <- v6,
    physicalAddr <- v7, free <- v8, Frame <- SharedFrame, Disciplined <- TRUE,
    \* Keyboard
    shift <- v1, bytes <- v2, held <- v3, got <- v4,
    \* SyscallCount
    cpus <- v1, numof_all_syscalls <- v2, holder <- v3, on <- v4, at <- v5,
    weight <- v6, loaded <- v7, query <- v8, calls <- v9,
    \* SyscallLog
    pid <- v1, syscalls <- v2, syscall_count <- v3, nextpid <- v4, asking <- v5,
    \* Blocks, which shares `panicked` with SpinLock
    image <- v1, bitmap <- v2, disk <- v3, inode <- v4, job <- v5, logged <- v6,
    contents <- v7, ops <- v9, Programs <- ImageFiles

\* What a page of memory may contain, beside what programs write.
Texts ==
    {ProgramImage[i] : i \in DOMAIN ProgramImage}
      \cup {"junk", "zero", "kstack", "table", "own"}

Memory == INSTANCE MemoryProofs WITH
    freelist <- v1, data <- v2, proc <- v3, pgdir <- v4, job <- v5, shadow <- v6,
    panicked <- v7, script <- v8, pc <- v9, called <- v10, pids <- v11,
    failed <- v12, Slot <- Proc, First <- FirstProc,
    Image <- ProgramImage, Value <- Int \cup Texts

\* What the proofs ask of the constants: PartsProofs of each part, and MemoryProofs.
ASSUME PartsAssumption ==
    /\ Parts!Named /\ Parts!Numbered /\ Parts!Ticking /\ Parts!Sharing
    /\ Parts!Counted /\ Parts!Logged /\ Parts!Formatted
ASSUME MemoryAssumption ==
    /\ Proc \in SUBSET (Nat \ {0})
    /\ NFrames \in Nat /\ PGSIZE \in Nat \ {0} /\ PagesPerTable \in Nat \ {0}
    /\ KTables \in Nat \ {0} /\ KERNBASE \in Nat
    /\ ProgramImage \in Seq(Texts) /\ ProgramImage # <<>>
    /\ Memory!TableOf(Memory!ImagePages - 1) < Memory!TableOf(Memory!PageOf(KERNBASE))
    /\ 3 + KTables + Memory!TableOf(Memory!ImagePages - 1) + Memory!ImagePages <= NFrames
    /\ Tests \subseteq DOMAIN Memory!Test /\ BIG \in Nat

-----------------------------------------------------------------------------
\* What the parts with 4, 5, 8, 9, 11 variables have no use for.
rest11 == <<v12>>
rest9 == <<v10, v11, rest11>>
rest8 == <<v9, rest9>>
rest5 == <<v6, v7, v8, rest8>>
rest4 == <<v5, rest5>>

Zero11 == v12 = 0
Zero9 == v10 = 0 /\ v11 = 0 /\ Zero11
Zero8 == v9 = 0 /\ Zero9
Zero5 == v6 = 0 /\ v7 = 0 /\ v8 = 0 /\ Zero8
Zero4 == v5 = 0 /\ Zero5

KernelInit ==
    \/ which = "ReentrantLock" /\ Parts!Reentrant!Init /\ Zero4
    \/ which = "SpinLock" /\ Parts!Spin!Init /\ Zero8
    \/ which = "Clock" /\ Parts!Clock!Init /\ Zero11
    \/ which = "SharedMem" /\ Parts!Init /\ Zero8
    \/ which = "Keyboard" /\ Parts!Keyboard!Init /\ Zero4
    \/ which = "SyscallCount" /\ Parts!Counting!Init /\ Zero9
    \/ which = "SyscallLog" /\ Parts!Logging!Init /\ Zero5
    \/ which = "Blocks" /\ Parts!Store!Init /\ Zero9
    \/ which = "Memory" /\ Memory!TestInit

KernelNext ==
    /\ UNCHANGED which
    /\ \/ which = "ReentrantLock" /\ Parts!Reentrant!Next /\ UNCHANGED rest4
       \/ which = "SpinLock" /\ Parts!Spin!Next /\ UNCHANGED rest8
       \/ which = "Clock" /\ Parts!Clock!Next /\ UNCHANGED rest11
       \/ which = "SharedMem" /\ Parts!Next /\ UNCHANGED rest8
       \/ which = "Keyboard" /\ Parts!Keyboard!Next /\ UNCHANGED rest4
       \/ which = "SyscallCount" /\ Parts!Counting!Next /\ UNCHANGED rest9
       \/ which = "SyscallLog" /\ Parts!Logging!Next /\ UNCHANGED rest5
       \/ which = "Blocks" /\ Parts!Store!Next /\ UNCHANGED rest9
       \/ which = "Memory" /\ Memory!TestNext

KernelSpec == KernelInit /\ [][KernelNext]_vars

-----------------------------------------------------------------------------
(* The properties of the parts, as their modules state them *)

\* A reentrant lock counts the acquisitions of its owner, who never waits for it; only
\* a child that inherited a locked copy sleeps.
DepthMatches ==
    which = "ReentrantLock" =>
      /\ Parts!Reentrant!DepthMatches
      /\ Parts!Reentrant!OnlyHeirsSleep

\* A child that sleeps for a lock it inherited never wakes.
HeirsNeverWake == [][which = "ReentrantLock" => Parts!Reentrant!StillWaits]_vars

\* A spin lock is held once, over all CPUs and interrupt levels; no handler spins for
\* a lock of the code it interrupted; acquire() and release() do not panic, and give
\* back the interrupt flag.
SpinLocksExclude == which = "SpinLock" => Parts!Spin!SpinLocksExclude

\* sleep(n) lasts n ticks, also when the counter wraps, and no tick between its test
\* and its sleep is missed.
SleepsItsTicks == which = "Clock" => Parts!Clock!SleepsItsTicks

\* Processes that open the same id see the same page, the table counts them, and no
\* page is free and mapped.
SharedPagesAreShared == which = "SharedMem" => Parts!SharedPagesAreShared

\* The keyboard: no shift or control flag outlives its key, and a cursor key is not
\* taken for the digit of the keypad that shares its code.
KeysAreDecoded ==
    which = "Keyboard" =>
      /\ Parts!Keyboard!NoModifierSticks
      /\ Parts!Keyboard!CursorKeyIsExtended

\* The CPUs' counts and the global count differ by calls that are half counted, and
\* count_syscalls() reports a sum between them.
CountersAgree ==
    which = "SyscallCount" =>
      /\ Parts!Counting!TotalsAgree
      /\ Parts!Counting!SumIsBetween

\* sort_syscalls() prints the log as it was when its length was read, in order;
\* get_most_invoked_syscall() names the calls that occur most often in it.
LogQueriesAreRight ==
    which = "SyscallLog" =>
      /\ Parts!Logging!SortsTheLog
      /\ Parts!Logging!CountsTheLog

\* A block is marked in use if and only if one file, once, or the system has it.
BitmapExact == which = "Blocks" => Parts!Store!BitmapExact

\* A file reads back what was written, or what mkfs was given; it has a block under every
\* byte, and no write logs more blocks than begin_op() reserved.
FilesKeepTheirContents ==
    which = "Blocks" =>
      /\ Parts!Store!ReadsWhatWasWritten
      /\ Parts!Store!ImageHolds
      /\ Parts!Store!NoHoles
      /\ Parts!Store!TransactionFits

\* Every page of memory is free or has one owner: none is lost or given out twice.
EveryFrameOnce == which = "Memory" => Memory!EveryFrameOnce

\* A process finds in its memory what it put there, everywhere below its size and not
\* under its stack, whatever other processes did with the same frames; nothing panics.
ProgramsKeepTheirMemory ==
    which = "Memory" =>
      /\ Memory!PrivateMemory
      /\ Memory!SizeIsMapped
      /\ Memory!GuardStays
      /\ Memory!NoMemPanic
=============================================================================
