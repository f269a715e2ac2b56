------------------------- MODULE KernelPartsProofs -------------------------
(***************************************************************************)
(* What PartsProofs and MemoryProofs prove of each part holds in the       *)
(* system of all of them, for all values of its constants: no part takes a *)
(* step of another, so that a behaviour of KernelSpec is one of its part.  *)
(***************************************************************************)
EXTENDS KernelParts, TLAPS

-----------------------------------------------------------------------------
(* The reentrant lock of Lab 4 *)

\* A behaviour of the reentrant lock stays one, and so does any other.
LEMMA ReentrantStays ==
    /\ KernelInit /\ which = "ReentrantLock" => Parts!Reentrant!Init
    /\ [KernelNext]_vars =>
         /\ which = "ReentrantLock" => /\ which' = "ReentrantLock"
                                       /\ [Parts!Reentrant!Next]_(Parts!Reentrant!vars)
         /\ which # "ReentrantLock" => which' # "ReentrantLock"
BY DEF KernelInit, KernelNext, vars, Parts!Reentrant!vars

\* A reentrant lock counts the acquisitions of its owner, who never waits for it; only
\* a child that inherited a locked copy does.
THEOREM LocksCount == KernelSpec => []DepthMatches
<1> DEFINE Here == which = "ReentrantLock"
           Counts == Parts!Reentrant!DepthMatches /\ Parts!Reentrant!OnlyHeirsSleep
<1>1. /\ KernelInit /\ Here => Parts!Reentrant!Init
      /\ [KernelNext]_vars => /\ Here => Here' /\ [Parts!Reentrant!Next]_(Parts!Reentrant!vars)
                              /\ ~Here => ~Here'
    BY ReentrantStays
<1>2. Parts!Reentrant!Spec => []Counts
    BY PartsAssumption, Parts!ReentrantCounts
<1>3. (Here => Counts) => DepthMatches
    BY DEF DepthMatches
<1> QED
    BY <1>1, <1>2, <1>3, PTL DEF KernelSpec, Parts!Reentrant!Spec

\* No step ever lets such a child go on.
THEOREM HeirsAreStuck == KernelSpec => HeirsNeverWake
<1> DEFINE Here == which = "ReentrantLock"
<1>1. /\ KernelInit /\ Here => Parts!Reentrant!Init
      /\ [KernelNext]_vars => /\ Here => Here' /\ [Parts!Reentrant!Next]_(Parts!Reentrant!vars)
                              /\ ~Here => ~Here'
    BY ReentrantStays
<1>2. Parts!Reentrant!Spec => [][Parts!Reentrant!StillWaits]_(Parts!Reentrant!vars)
    BY PartsAssumption, Parts!HeirsWaitForEver DEF Parts!Reentrant!HeirsNeverWake
<1>3. (Here => [Parts!Reentrant!StillWaits]_(Parts!Reentrant!vars))
        => [which = "ReentrantLock" => Parts!Reentrant!StillWaits]_vars
    BY DEF Parts!Reentrant!vars, Parts!Reentrant!StillWaits
<1> QED
    BY <1>1, <1>2, <1>3, PTL DEF KernelSpec, Parts!Reentrant!Spec, HeirsNeverWake

-----------------------------------------------------------------------------
(* Spin locks *)

\* acquire() and release() exclude all other CPUs and handlers, never wait for
\* themselves, never panic and leave the interrupt flag as it was.
THEOREM SpinLocksWork == KernelSpec => []SpinLocksExclude
<1> DEFINE Here == which = "SpinLock"
<1>1. KernelInit /\ Here => Parts!Spin!Init
    BY DEF KernelInit
<1>2. [KernelNext]_vars => /\ Here => Here' /\ [Parts!Spin!Next]_(Parts!Spin!vars)
                           /\ ~Here => ~Here'
    BY DEF KernelNext, vars, Parts!Spin!vars
<1>3. Parts!Spin!Spec => []Parts!Spin!SpinLocksExclude
    BY PartsAssumption, Parts!SpinLocksAreSound
<1>4. (Here => Parts!Spin!SpinLocksExclude) => SpinLocksExclude
    BY DEF SpinLocksExclude
<1> QED
    BY <1>1, <1>2, <1>3, <1>4, PTL DEF KernelSpec, Parts!Spin!Spec

-----------------------------------------------------------------------------
(* The clock *)

\* sleep(n) lasts n ticks, and misses none, however often the counter wraps.
THEOREM ClockIsRight == KernelSpec => []SleepsItsTicks
<1> DEFINE Here == which = "Clock"
<1>1. KernelInit /\ Here => Parts!Clock!Init
    BY DEF KernelInit
<1>2. [KernelNext]_vars => /\ Here => Here' /\ [Parts!Clock!Next]_(Parts!Clock!vars)
                           /\ ~Here => ~Here'
    BY DEF KernelNext, vars, Parts!Clock!vars
<1>3. Parts!Clock!Spec => []Parts!Clock!SleepsItsTicks
    BY PartsAssumption, Parts!SleepIsLongEnough
<1>4. (Here => Parts!Clock!SleepsItsTicks) => SleepsItsTicks
    BY DEF SleepsItsTicks
<1> QED
    BY <1>1, <1>2, <1>3, <1>4, PTL DEF KernelSpec, Parts!Clock!Spec

-----------------------------------------------------------------------------
(* Shared memory *)

\* Who opens the same id sees the same page, the table counts them, and no other page is
\* in two address spaces, or mapped and free.
THEOREM PagesAreShared == KernelSpec => []SharedPagesAreShared
<1> DEFINE Here == which = "SharedMem"
<1>1. KernelInit /\ Here => Parts!Init
    BY DEF KernelInit
<1>2. [KernelNext]_vars => /\ Here => Here' /\ [Parts!Next]_(Parts!vars)
                           /\ ~Here => ~Here'
    BY DEF KernelNext, vars, Parts!vars, Parts!table
<1>3. Parts!Spec => []Parts!SharedPagesAreShared
    BY PartsAssumption, Parts!SharedMemoryWorks
<1>4. (Here => Parts!SharedPagesAreShared) => SharedPagesAreShared
    BY DEF SharedPagesAreShared
<1> QED
    BY <1>1, <1>2, <1>3, <1>4, PTL DEF KernelSpec, Parts!Spec

-----------------------------------------------------------------------------
(* The keyboard *)

\* No shift or control flag outlives its key, and cursor keys are never digits, whatever
\* keys are held and let go.
THEOREM KeysAreRight == KernelSpec => []KeysAreDecoded
<1> DEFINE Here == which = "Keyboard"
           Decodes == Parts!Keyboard!NoModifierSticks /\ Parts!Keyboard!CursorKeyIsExtended
<1>1. KernelInit /\ Here => Parts!Keyboard!Init
    BY DEF KernelInit
<1>2. [KernelNext]_vars => /\ Here => Here' /\ [Parts!Keyboard!Next]_(Parts!Keyboard!vars)
                           /\ ~Here => ~Here'
    BY DEF KernelNext, vars, Parts!Keyboard!vars
<1>3. Parts!Keyboard!Spec => []Decodes
    BY Parts!KeysAreKept
<1>4. (Here => Decodes) => KeysAreDecoded
    BY DEF KeysAreDecoded
<1> QED
    BY <1>1, <1>2, <1>3, <1>4, PTL DEF KernelSpec, Parts!Keyboard!Spec

-----------------------------------------------------------------------------
(* The counters of system calls *)

\* The counters of the CPUs and the global one differ by the calls that are half counted,
\* and what count_syscalls() reports is between them.
THEOREM CountersAreRight == KernelSpec => []CountersAgree
<1> DEFINE Here == which = "SyscallCount"
           Agree == Parts!Counting!TotalsAgree /\ Parts!Counting!SumIsBetween
<1>1. KernelInit /\ Here => Parts!Counting!Init
    BY DEF KernelInit
<1>2. [KernelNext]_vars => /\ Here => Here' /\ [Parts!Counting!Next]_(Parts!Counting!vars)
                           /\ ~Here => ~Here'
    BY DEF KernelNext, vars, Parts!Counting!vars
<1>3. Parts!Counting!Spec => []Agree
    BY PartsAssumption, Parts!CountsAgree
<1>4. (Here => Agree) => CountersAgree
    BY DEF CountersAgree
<1> QED
    BY <1>1, <1>2, <1>3, <1>4, PTL DEF KernelSpec, Parts!Counting!Spec

-----------------------------------------------------------------------------
(* The log of system calls *)

\* What the two queries report is the log as it was when they read its length, whatever its
\* process and others do meanwhile, unless a new process has the slot.
THEOREM QueriesAreRight == KernelSpec => []LogQueriesAreRight
<1> DEFINE Here == which = "SyscallLog"
           Right == Parts!Logging!SortsTheLog /\ Parts!Logging!CountsTheLog
<1>1. KernelInit /\ Here => Parts!Logging!Init
    BY DEF KernelInit
<1>2. [KernelNext]_vars => /\ Here => Here' /\ [Parts!Logging!Next]_(Parts!Logging!vars)
                           /\ ~Here => ~Here'
    BY DEF KernelNext, vars, Parts!Logging!vars
<1>3. Parts!Logging!Spec => []Right
    BY PartsAssumption, Parts!QueriesReadTheLog
<1>4. (Here => Right) => LogQueriesAreRight
    BY DEF LogQueriesAreRight
<1> QED
    BY <1>1, <1>2, <1>3, <1>4, PTL DEF KernelSpec, Parts!Logging!Spec

-----------------------------------------------------------------------------
(* The blocks of files *)

\* A behaviour of the blocks stays one, and so does any other.
LEMMA StoreStays ==
    /\ KernelInit /\ which = "Blocks" => Parts!Store!Init
    /\ [KernelNext]_vars =>
         /\ which = "Blocks" => which' = "Blocks" /\ [Parts!Store!Next]_(Parts!Store!vars)
         /\ which # "Blocks" => which' # "Blocks"
BY DEF KernelInit, KernelNext, vars, Parts!Store!vars

\* The bitmap marks the blocks of the system and of files, none of which is in two places,
\* between all steps of write() and itrunc().
THEOREM BlocksAreOwned == KernelSpec => []BitmapExact
<1> DEFINE Here == which = "Blocks"
<1>1. /\ KernelInit /\ Here => Parts!Store!Init
      /\ [KernelNext]_vars => /\ Here => Here' /\ [Parts!Store!Next]_(Parts!Store!vars)
                              /\ ~Here => ~Here'
    BY StoreStays
<1>2. Parts!Store!Spec => []Parts!Store!BitmapExact
    BY PartsAssumption, Parts!StoreBitmapExact
<1>3. (Here => Parts!Store!BitmapExact) => BitmapExact
    BY DEF BitmapExact
<1> QED
    BY <1>1, <1>2, <1>3, PTL DEF KernelSpec, Parts!Store!Spec

\* Files hold what was written to them, or what mkfs was given, without holes, and no
\* transaction outgrows what it has reserved of the log.
THEOREM ContentsAreKept == KernelSpec => []FilesKeepTheirContents
<1> DEFINE Here == which = "Blocks"
           Kept == /\ Parts!Store!ReadsWhatWasWritten /\ Parts!Store!ImageHolds
                   /\ Parts!Store!NoHoles /\ Parts!Store!TransactionFits
<1>1. /\ KernelInit /\ Here => Parts!Store!Init
      /\ [KernelNext]_vars => /\ Here => Here' /\ [Parts!Store!Next]_(Parts!Store!vars)
                              /\ ~Here => ~Here'
    BY StoreStays
<1>2. Parts!Store!Spec => []Kept
    BY PartsAssumption, Parts!StoreKeepsContents
<1>3. (Here => Kept) => FilesKeepTheirContents
    BY DEF FilesKeepTheirContents
<1> QED
    BY <1>1, <1>2, <1>3, PTL DEF KernelSpec, Parts!Store!Spec

-----------------------------------------------------------------------------
(* Memory *)

\* The constants are those that MemoryProofs is about.
LEMMA MemoryTesting == Memory!Testing
<1>1. /\ {"junk", "zero", "kstack", "table"} \subseteq Int \cup Texts
      /\ "own" \in Int \cup Texts
    BY DEF Texts
<1>2. Int \subseteq Int \cup Texts
    OBVIOUS
<1>3. ProgramImage \in Seq(Int \cup Texts)
    BY MemoryAssumption
<1>4. Memory!IsFiniteSet(Proc) /\ FirstProc \in Proc
    BY PartsAssumption, Zenon DEF Parts!Sharing, Parts!IsFiniteSet, Memory!IsFiniteSet
<1>5. Memory!Sane
    BY <1>1, <1>2, <1>3, <1>4, MemoryAssumption, Zenon DEF Memory!Sane
<1> QED
    BY <1>1, <1>5, MemoryAssumption, Zenon DEF Memory!Testing

\* A behaviour of the tests of memory stays one, and so does any other.
LEMMA MemoryStays ==
    /\ KernelInit /\ which = "Memory" => Memory!TestInit
    /\ [KernelNext]_vars =>
         /\ which = "Memory" => which' = "Memory" /\ [Memory!TestNext]_(Memory!vars)
         /\ which # "Memory" => which' # "Memory"
BY DEF KernelInit, KernelNext, vars, Memory!vars, Memory!mvars

\* No page of physical memory is lost or given out twice, in the middle of any call of
\* any processes, wherever memory runs out.
THEOREM FramesAreOwned == KernelSpec => []EveryFrameOnce
<1> DEFINE Here == which = "Memory"
<1>1. /\ KernelInit /\ Here => Memory!TestInit
      /\ [KernelNext]_vars => /\ Here => Here' /\ [Memory!TestNext]_(Memory!vars)
                              /\ ~Here => ~Here'
    BY MemoryStays
<1>2. Memory!Spec => []Memory!EveryFrameOnce
    BY MemoryTesting, Memory!NoFrameIsLost
<1>3. (Here => Memory!EveryFrameOnce) => EveryFrameOnce
    BY DEF EveryFrameOnce
<1> QED
    BY <1>1, <1>2, <1>3, PTL DEF KernelSpec, Memory!Spec

\* A process finds in its memory what it, its parent or exec() put there, and zero in
\* new pages; it has all pages below its size, and not the one under its stack.
THEOREM MemoryIsKept == KernelSpec => []ProgramsKeepTheirMemory
<1> DEFINE Here == which = "Memory"
           Kept == Memory!PrivateMemory /\ Memory!SizeIsMapped /\ Memory!GuardStays
                     /\ Memory!NoMemPanic
<1>1. /\ KernelInit /\ Here => Memory!TestInit
      /\ [KernelNext]_vars => /\ Here => Here' /\ [Memory!TestNext]_(Memory!vars)
                              /\ ~Here => ~Here'
    BY MemoryStays
<1>2. Memory!Spec => []Kept
    BY MemoryTesting, Memory!MemoryIsPrivate
<1>3. (Here => Kept) => ProgramsKeepTheirMemory
    BY DEF ProgramsKeepTheirMemory
<1> QED
    BY <1>1, <1>2, <1>3, PTL DEF KernelSpec, Memory!Spec
=============================================================================
