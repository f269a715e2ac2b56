-------------------------------- MODULE Log --------------------------------
(***************************************************************************)
(* The write-ahead log of the file system (log.c) over the buffer cache    *)
(* (bio.c) and a disk that writes one block at a time and may lose power   *)
(* between any two writes.                                                 *)
(*                                                                         *)
(* The in-memory header log.lh is the sequence lh of block numbers; the    *)
(* header on disk is `head`, the log blocks are logdata[1], logdata[2]...  *)
(* and home[b] is block b at its own place.  cache[b] is what bread(b)     *)
(* returns: the cached copy, or home[b] when b has been evicted.           *)
(***************************************************************************)
EXTENDS Integers, Sequences, FiniteSets

CONSTANTS
    Caller,      \* processes executing file system calls
    Block,       \* disk blocks outside the log
    NoBlock,     \* no buffer held
    Value,       \* contents of a block
    Blank,       \* what mkfs leaves in a block
    MAXOPBLOCKS, \* blocks begin_op() reserves for an operation
    LOGSIZE,     \* capacity begin_op() counts on
    nlog,        \* size of the log on disk, header included (mkfs)
    OpWrites     \* bound: distinct blocks an operation writes

ASSUME SizeAssumption ==
    /\ MAXOPBLOCKS \in Nat \ {0} /\ OpWrites \in 0..MAXOPBLOCKS
    /\ LOGSIZE \in Nat /\ MAXOPBLOCKS <= LOGSIZE
    /\ nlog \in 2..(LOGSIZE + 1)
ASSUME ValueAssumption == Blank \in Value

ASSUME NoBlockAssumption == NoBlock \notin Block

ASSUME CallerAssumption == IsFiniteSet(Caller)

VARIABLES
    pc,          \* where each caller is
    wrote,       \* the blocks its operation has written
    held,        \* the buffer it has modified and not yet given to the log
    outstanding, \* log.outstanding
    committing,  \* log.committing
    lh,          \* log.lh: block[0..n-1]
    stage,       \* what commit() or recover_from_log() does next
    tail,        \* the loop index of write_log() and install_trans(), plus 1
    cache,       \* buffer cache
    dirty,       \* buffers pinned by B_DIRTY
    home, logdata, head

memory == <<pc, wrote, held, outstanding, committing, lh, stage, tail, cache, dirty>>
disk == <<home, logdata, head>>
vars == <<memory, disk>>

\* "idle": no operation.  "begin": at the test in begin_op().  "asleep": in
\* sleep(&log).  "op": between begin_op() and end_op().  "log": in log_write(),
\* past its tests and before the acquire.  "commit": runs commit() in end_op().
Places == {"idle", "begin", "asleep", "op", "log", "commit"}

\* "off": neither commits nor recovers.  The others name the write to come;
\* "finish" is the end of end_op(), "read_head" the start of a recovery.
Stages == {"off", "write_log", "write_head", "install", "clear", "finish",
           "read_head", "reinstall", "reclear"}

Recovering == stage \in {"read_head", "reinstall", "reclear"}

Init ==                                \* a disk made by mkfs, recovered
    /\ pc = [w \in Caller |-> "idle"]
    /\ wrote = [w \in Caller |-> {}]
    /\ held = [w \in Caller |-> NoBlock]
    /\ outstanding = 0 /\ committing = FALSE
    /\ lh = <<>> /\ stage = "off" /\ tail = 1
    /\ home = [b \in Block |-> Blank]
    /\ cache = home /\ dirty = {}
    /\ logdata = [i \in 1..(nlog - 1) |-> Blank]
    /\ head = <<>>

Goto(w, place) == pc' = [pc EXCEPT ![w] = place]

-----------------------------------------------------------------------------
(* begin_op() *)

Call(w) ==                             \* a file system call begins
    /\ pc[w] = "idle" /\ ~Recovering
    /\ Goto(w, "begin")
    /\ UNCHANGED <<wrote, held, outstanding, committing, lh, stage, tail, cache,
                   dirty, disk>>

\* Mutant: begin_op() does not reserve for the operations already under way.
MightExhaust_IgnoreOthers == Len(lh) + MAXOPBLOCKS > LOGSIZE

\* "this op might exhaust log space"
MightExhaust == Len(lh) + (outstanding + 1) * MAXOPBLOCKS > LOGSIZE

BeginOp(w) ==
    /\ pc[w] = "begin"
    /\ ~committing /\ ~MightExhaust
    /\ outstanding' = outstanding + 1
    /\ Goto(w, "op")
    /\ UNCHANGED <<wrote, held, committing, lh, stage, tail, cache, dirty, disk>>

BeginSleep(w) ==
    /\ pc[w] = "begin"
    /\ committing \/ MightExhaust
    /\ Goto(w, "asleep")
    /\ UNCHANGED <<wrote, held, outstanding, committing, lh, stage, tail, cache,
                   dirty, disk>>

\* kill() makes a sleeper RUNNABLE; begin_op() just tests again.
KillWakes(w) ==
    /\ pc[w] = "asleep"
    /\ Goto(w, "begin")
    /\ UNCHANGED <<wrote, held, outstanding, committing, lh, stage, tail, cache,
                   dirty, disk>>

\* Mutant: end_op() wakes nobody.
WakeAnd_Forgotten(w, place) == Goto(w, place)

\* wakeup(&log), together with `w` moving on to `place`.
WakeAnd(w, place) ==
    pc' = [x \in Caller |-> IF x = w THEN place
                            ELSE IF pc[x] = "asleep" THEN "begin" ELSE pc[x]]

-----------------------------------------------------------------------------
(* log_write() *)

\* The test of log_write(), made without log.lock.
TooBig == Len(lh) >= LOGSIZE \/ Len(lh) >= nlog - 1

\* Mutant: log_write() returns without setting B_DIRTY.
Pin_Unpinned(b) == dirty' = dirty

Pin(b) == dirty' = dirty \cup {b}

\* Mutant: log_write() does not count the new block (i == lh.n - 1 for
\* i == lh.n): it takes the place of the last one.
Absorb_NoCount(b) ==
    lh' = IF lh = <<>> THEN <<b>> ELSE [lh EXCEPT ![Len(lh)] = b]

\* Mutant: a block written twice is logged twice.
Absorb_Never(b) == lh' = Append(lh, b)

\* A block is logged once, however often it is written.
Absorb(b) == lh' = IF \E i \in 1..Len(lh) : lh[i] = b THEN lh ELSE Append(lh, b)

\* An operation, holding the buffer of b, modifies it and enters log_write().
Modify(w, b, v) ==
    /\ pc[w] = "op"
    /\ \A x \in Caller : held[x] # b
    /\ Cardinality(wrote[w] \cup {b}) <= OpWrites
    /\ ~TooBig
    /\ cache' = [cache EXCEPT ![b] = v]
    /\ wrote' = [wrote EXCEPT ![w] = @ \cup {b}]
    /\ held' = [held EXCEPT ![w] = b]
    /\ Goto(w, "log")
    /\ UNCHANGED <<outstanding, committing, lh, stage, tail, dirty, disk>>

LogWrite(w) ==
    /\ pc[w] = "log"
    /\ Absorb(held[w])
    /\ Pin(held[w])
    /\ held' = [held EXCEPT ![w] = NoBlock]
    /\ Goto(w, "op")
    /\ UNCHANGED <<wrote, outstanding, committing, stage, tail, cache, disk>>

\* bget() recycles a buffer nobody holds that is not dirty; the next bread()
\* fetches the block from the disk again.
Evict(b) ==
    /\ b \notin dirty /\ \A w \in Caller : held[w] # b
    /\ cache' = [cache EXCEPT ![b] = home[b]]
    /\ UNCHANGED <<pc, wrote, held, outstanding, committing, lh, stage, tail,
                   dirty, disk>>

-----------------------------------------------------------------------------
(* end_op() and commit() *)

\* Not the last operation: frees its reservation and wakes begin_op()s.
EndOp(w) ==
    /\ pc[w] = "op" /\ outstanding > 1
    /\ outstanding' = outstanding - 1
    /\ WakeAnd(w, "idle")
    /\ wrote' = [wrote EXCEPT ![w] = {}]
    /\ UNCHANGED <<held, committing, lh, stage, tail, cache, dirty, disk>>

\* The last one commits, if anything was logged.
EndLastOp(w) ==
    /\ pc[w] = "op" /\ outstanding = 1
    /\ outstanding' = 0
    /\ committing' = TRUE
    /\ stage' = IF lh = <<>> THEN "finish" ELSE "write_log"
    /\ tail' = 1
    /\ Goto(w, "commit")
    /\ wrote' = [wrote EXCEPT ![w] = {}]
    /\ UNCHANGED <<held, lh, cache, dirty, disk>>

\* write_log(): one log block after the other, from the cache.
WriteLog ==
    /\ stage = "write_log"
    /\ logdata' = [logdata EXCEPT ![tail] = cache[lh[tail]]]
    /\ IF tail < Len(lh)
         THEN tail' = tail + 1 /\ UNCHANGED stage
         ELSE tail' = 1 /\ stage' = "write_head"
    /\ UNCHANGED <<pc, wrote, held, outstanding, committing, lh, cache, dirty,
                   home, head>>

\* write_head(): "the true point at which the current transaction commits".
WriteHead ==
    /\ stage = "write_head"
    /\ head' = lh
    /\ stage' = "install"
    /\ UNCHANGED <<pc, wrote, held, outstanding, committing, lh, tail, cache,
                   dirty, home, logdata>>

\* One block of install_trans(), after which stage `from` becomes `to`.  The
\* write to the home location clears B_DIRTY.
InstallBlock(from, to) ==
    /\ stage = from
    /\ IF tail <= Len(lh)
         THEN LET b == lh[tail] IN
              /\ cache' = [cache EXCEPT ![b] = logdata[tail]]
              /\ home'  = [home EXCEPT ![b] = logdata[tail]]
              /\ dirty' = dirty \ {b}
              /\ tail' = tail + 1
              /\ UNCHANGED stage
         ELSE /\ stage' = to
              /\ UNCHANGED <<cache, home, dirty, tail>>
    /\ UNCHANGED <<pc, wrote, held, outstanding, committing, lh, logdata, head>>

Install == InstallBlock("install", "clear")

\* log.lh.n = 0; write_head(), after which stage `from` becomes `to`.
ClearHead(from, to) ==
    /\ stage = from
    /\ lh' = <<>>
    /\ head' = <<>>
    /\ stage' = to
    /\ UNCHANGED <<pc, wrote, held, outstanding, committing, tail, cache, dirty,
                   home, logdata>>

Clear == ClearHead("clear", "finish")

\* The end of end_op().
Finish(w) ==
    /\ pc[w] = "commit" /\ stage = "finish"
    /\ stage' = "off"
    /\ committing' = FALSE
    /\ WakeAnd(w, "idle")
    /\ UNCHANGED <<wrote, held, outstanding, lh, tail, cache, dirty, disk>>

-----------------------------------------------------------------------------
(* Power failure and initlog() *)

\* Memory is lost, the disk is as the last completed write left it.
Crash ==
    /\ pc' = [w \in Caller |-> "idle"]
    /\ wrote' = [w \in Caller |-> {}]
    /\ held' = [w \in Caller |-> NoBlock]
    /\ outstanding' = 0 /\ committing' = FALSE
    /\ lh' = <<>> /\ stage' = "read_head" /\ tail' = 1
    /\ cache' = home /\ dirty' = {}
    /\ UNCHANGED disk

ReadHead ==
    /\ stage = "read_head"
    /\ lh' = head
    /\ stage' = "reinstall"
    /\ UNCHANGED <<pc, wrote, held, outstanding, committing, tail, cache, dirty, disk>>

Reinstall == InstallBlock("reinstall", "reclear")
Reclear == ClearHead("reclear", "off")

-----------------------------------------------------------------------------
Next ==
    \/ \E w \in Caller :
         \/ Call(w) \/ BeginOp(w) \/ BeginSleep(w) \/ KillWakes(w)
         \/ \E b \in Block, v \in Value : Modify(w, b, v)
         \/ LogWrite(w)
         \/ EndOp(w) \/ EndLastOp(w) \/ Finish(w)
    \/ \E b \in Block : Evict(b)
    \/ WriteLog \/ WriteHead \/ Install \/ Clear
    \/ Crash \/ ReadHead \/ Reinstall \/ Reclear

Spec == Init /\ [][Next]_vars

-----------------------------------------------------------------------------
(* Properties *)

\* Every variable keeps its type; the log never outgrows its place on disk.
TypeOK ==
    /\ pc \in [Caller -> Places]
    /\ wrote \in [Caller -> SUBSET Block]
    /\ held \in [Caller -> Block \cup {NoBlock}]
    /\ outstanding \in Nat /\ committing \in BOOLEAN
    /\ lh \in Seq(Block) /\ Len(lh) < nlog
    /\ stage \in Stages /\ tail \in 1..nlog
    /\ cache \in [Block -> Value] /\ dirty \subseteq Block
    /\ home \in [Block -> Value]
    /\ logdata \in [1..(nlog - 1) -> Value]
    /\ head \in Seq(Block) /\ Len(head) < nlog

InOp(w) == pc[w] \in {"op", "log"}
ActiveOps == {w \in Caller : InOp(w)}

\* The file system after a crash now and a complete recovery: what is at home,
\* overlaid by the log blocks if the header on disk names any.
Survives ==
    [b \in Block |->
        IF \E i \in 1..Len(head) : head[i] = b
          THEN logdata[CHOOSE i \in 1..Len(head) : head[i] = b]
          ELSE home[b]]

\* Crash atomicity: the log implements AtomicDisk.  During recovery nobody
\* reads yet, and the working copy is what recovery is about to restore.
Abstract == INSTANCE AtomicDisk WITH
    stable <- Survives,
    working <- IF Recovering THEN Survives ELSE cache,
    active <- ActiveOps

ImplementsAtomicDisk == Abstract!Spec

\* Durability: when no operation is under way and no commit or recovery runs,
\* everything that was written survives a crash.
QuiescentIsDurable ==
    stage = "off" /\ outstanding = 0 => Survives = cache

\* Blocks in the log, those the operations under way have written, and those
\* that only operations that have ended have.
Logged == {lh[i] : i \in 1..Len(lh)}
Written == UNION {wrote[w] : w \in ActiveOps}
Older == Logged \ Written

\* What has ended has left room for the whole reservation of what is under way, and
\* the last of several operations finds what the others have not used.
Reserved ==
    /\ outstanding = Cardinality(ActiveOps)
    /\ \A w \in Caller :
         /\ IsFiniteSet(wrote[w]) /\ Cardinality(wrote[w]) <= OpWrites
         /\ ~InOp(w) => wrote[w] = {}
    /\ Cardinality(Older) + outstanding * MAXOPBLOCKS <= LOGSIZE
    /\ outstanding = 1 =>
         Older = {} \/ Cardinality(Older) + 2 * MAXOPBLOCKS - OpWrites <= LOGSIZE

\* Who is where, and that nothing is logged while a commit or a recovery runs.
Turns ==
    /\ \A w \in Caller :
         /\ held[w] # NoBlock <=> pc[w] = "log"
         /\ pc[w] = "log" => held[w] \in wrote[w]
         /\ pc[w] = "commit" => committing
         /\ Recovering => pc[w] = "idle"
    /\ \A w, x \in Caller : pc[w] = "commit" /\ pc[x] = "commit" => w = x
    /\ committing <=> stage \notin {"off", "read_head", "reinstall", "reclear"}
    /\ committing \/ Recovering => outstanding = 0
    /\ stage = "off" /\ outstanding = 0 => lh = <<>>

Distinct(s) == \A i, j \in 1..Len(s) : s[i] = s[j] => i = j

\* The log on disk and the home blocks, as far as the stage has come.
Progress ==
    /\ Distinct(lh) /\ Distinct(head)
    /\ stage \in {"off", "write_log", "write_head", "finish"} => head = <<>>
    /\ stage \in {"install", "clear", "reinstall", "reclear"} => head = lh
    /\ stage \in {"finish", "read_head"} => lh = <<>>
    /\ stage \in {"write_head", "read_head"} => tail = 1
    /\ stage = "write_log" => tail <= Len(lh)
    /\ stage \in {"install", "reinstall"} => tail <= Len(lh) + 1
    /\ \A i \in 1..Len(lh) :
         /\ \/ stage = "write_log" /\ i < tail
            \/ stage \in {"write_head", "install", "clear"}
            => logdata[i] = cache[lh[i]]
         /\ \/ stage \in {"install", "reinstall"} /\ i < tail
            \/ stage \in {"clear", "reclear"}
            => home[lh[i]] = logdata[i]

\* A cached block differs from the disk only if it cannot be evicted.
Pinned ==
    /\ \A b \in Block \ dirty : (\A w \in Caller : held[w] # b) => cache[b] = home[b]
    /\ stage \in {"off", "write_log", "write_head"} => dirty = Logged
    /\ stage = "install" => dirty = {lh[i] : i \in tail..Len(lh)}
    /\ stage \in {"clear", "finish"} \/ Recovering => dirty = {}

\* The log is well formed in memory and on disk, and within what is reserved.
WellFormed ==
    /\ TypeOK /\ Reserved /\ Turns /\ Progress /\ Pinned
    /\ Len(lh) < nlog - 1 /\ Len(head) < nlog - 1

\* Besides, it is durable when it is quiet.
LogInv == WellFormed /\ QuiescentIsDurable

\* begin_op() reserves enough: whatever an operation may still write within its
\* MAXOPBLOCKS, log_write() does not panic with "too big a transaction".
LogNeverFull ==
    \A w \in Caller, b \in Block :
        pc[w] = "op" /\ Cardinality(wrote[w] \cup {b}) <= OpWrites => ~TooBig

\* Nobody sleeps in begin_op() with no one left to wake it.
SomeoneWakes ==
    (\E w \in Caller : pc[w] = "asleep") => committing \/ outstanding > 0

\* Who sleeps in begin_op() would go on sleeping if it tested again.
SleepIsJustified ==
    (\E w \in Caller : pc[w] = "asleep") => committing \/ MightExhaust

\* begin_op() puts to sleep those who must wait, and somebody is left to wake them.
SleepersWillRun == SomeoneWakes /\ SleepIsJustified
=============================================================================
